-------------------------- MODULE AgentEventProofs --------------------------
(***************************************************************************)
(* ViewTracksDesktop and GenerationTells of AgentEvents, for any sessions, *)
(* clients, titles, workspaces, places, rules, grants and bounds.          *)
(*                                                                         *)
(* The invariant speaks of every session that can be told something, and   *)
(* of all that is on its way to it, read in order from the view its        *)
(* companion has now: the frames the transport holds, then the queue of    *)
(* the subscription.  Every view on that way Fits: what it knows of a      *)
(* client is of a life that is over, or of a generation that has been, and *)
(* if of the present one, then it is what the shadow says.  The last of    *)
(* them, unless the session has to start over, Tracks the shadow: it knows *)
(* the clients the session may see as they were last announced.  Doubt is  *)
(* excepted, and outside of a drain all that a session no longer perceives *)
(* is in doubt.  Between events the shadow is the desktop, which is what   *)
(* the two properties are about.                                           *)
(*                                                                         *)
(* The shadow and the announcement change in two steps of one handler, and *)
(* a handler announces many changes.  So the invariant is stated of a      *)
(* manager and a record k that also says which client is being announced,  *)
(* with which fields so far, and whether the focus and the workspace are   *)
(* still to be (Amid).  Carries says that whatever fits or tracks one      *)
(* manager does the next; each operator of AgentGlue has a lemma that says *)
(* what it carries over, its folds are instances of FoldFacts, and an      *)
(* action is their composition.                                            *)
(***************************************************************************)
EXTENDS AgentEvents, FiniteSetTheorems, SequenceTheorems, WellFoundedInduction, TLAPS

(* ---- What the invariant says ---- *)
\* The fields of a manager, of a view and of what a view knows of a client.
ManagerFields ==
    {"desk", "focus", "current", "drag", "agents", "shadow", "shownFocus", "shownWorkspace",
     "matchers", "link", "outbox", "text", "observations", "semantics", "clipboard",
     "consent", "consented"}

ViewFields == {"at", "lost", "clients", "focus", "current"}

KnownFields == {"known", "title", "state", "place", "workspace", "life", "generation"}

\* A sequence of whatever it holds.
IsQueue(q) == \E T : q \in Seq(T)

\* What may be queued for a session: nothing once it has to start over, nothing without a
\* subscription.
SubscriptionOK(x) ==
    /\ DOMAIN x = {"on", "kinds", "queue", "dropped", "resync"}
    /\ x.on \in BOOLEAN /\ x.resync \in BOOLEAN /\ x.kinds = {} /\ x.dropped \in Nat
    /\ IsQueue(x.queue)
    /\ x.resync => x.queue = <<>>
    /\ ~ x.on => x.queue = <<>> /\ ~ x.resync

\* The events that are queued are stamped, with no more than the session has counted.
SessionOK(x) ==
    /\ DOMAIN x = {"grant", "status", "subscription", "sequence"}
    /\ x.grant \in Grants
    /\ x.sequence \in Nat
    /\ SubscriptionOK(x.subscription)
    /\ \A i \in DOMAIN x.subscription.queue :
          /\ x.subscription.queue[i].sequence \in 0..x.sequence
          /\ x.subscription.queue[i].event.kind # "resync_required"

\* What the policy state always is.
AgentsOK(a) ==
    /\ DOMAIN a = {"sessions", "visibility", "generation"}
    /\ a.visibility \in [Clients -> Visibilities]
    /\ a.generation \in [Clients -> Nat]
    /\ OpenSessions(a) \subseteq Sessions
    /\ \A s \in OpenSessions(a) : SessionOK(a.sessions[s])

\* Every managed client is in the scope of the sessions whose grant is for clients like it.
Scoping(n) ==
    \A s \in OpenSessions(n.agents), c \in Clients :
        Managed(n, c) /\ c \in n.matchers[s] => Covers(n.agents.sessions[s].grant, c)

\* The focus is on a client that is managed.
DeskOK(n) ==
    /\ DOMAIN n.desk = Clients
    /\ \A c \in Clients : /\ "managed" \in DOMAIN n.desk[c] /\ n.desk[c].managed \in BOOLEAN
                          /\ n.desk[c].managed => "life" \in DOMAIN n.desk[c]
    /\ n.focus \in Clients \cup {NoClient}
    /\ n.focus # NoClient => Managed(n, n.focus)

\* A manager as the event loop knows it; nothing that takes time is under way in this model.
Sound(n) ==
    /\ DOMAIN n = ManagerFields
    /\ DeskOK(n)
    /\ DOMAIN n.shadow = Clients /\ \A c \in Clients : n.shadow[c].known \in BOOLEAN
    /\ AgentsOK(n.agents)
    /\ DOMAIN n.link = Sessions /\ DOMAIN n.outbox = Sessions
    /\ \A s \in Sessions : IsQueue(n.outbox[s])
    /\ n.matchers \in [Sessions -> SUBSET Clients]
    /\ n.text = NoText /\ n.observations = {} /\ n.semantics = {}
    /\ Scoping(n)

\* A managed client lives the life it was given when it appeared, and has a generation.
Lively(n, lifetimes) ==
    \A c \in Clients : Managed(n, c) => /\ n.desk[c].life = lifetimes[c]
                                        /\ n.agents.generation[c] > 0

\* The title of a client as its shadow has it, to a session.
Readable(n, s, c) ==
    IF n.agents.visibility[c] = "redacted"
       \/ "titles" \notin n.agents.sessions[s].grant.capabilities
    THEN "none" ELSE n.shadow[c].title

\* The fields of a client that events may change.
AllFields == {"title", "state", "place"}

\* A view agrees with the shadow on some fields of a client.
Agrees(n, s, c, v, F) ==
    /\ "title" \in F => v.clients[c].title = Readable(n, s, c)
    /\ "state" \in F => v.clients[c].state = n.shadow[c].state
    /\ "place" \in F => v.clients[c].place = n.shadow[c].place

\* The fields of a client that have to agree: in the middle of the announcements about
\* a client (k.client), those announced so far.
Asked(k, c) == IF c = k.client THEN k.fields ELSE AllFields

\* What a view knows of a client that was never in doubt: of a life that is over, or of
\* this one, and then at a generation that is not to come, and if it is the present one, it
\* agrees with the shadow.
Knows(n, s, k, c, v) ==
    c \notin k.ever[s] /\ v.clients[c].known =>
        \/ v.clients[c].life < k.lives[c]
        \/ /\ Managed(n, c) /\ n.shadow[c].known
           /\ v.clients[c].life = k.lives[c]
           /\ v.clients[c].generation <= n.agents.generation[c]
           /\ v.clients[c].generation = n.agents.generation[c] /\ Perceives(n.agents, s, c)
              => Agrees(n, s, c, v, Asked(k, c))

\* What a view always is.
ViewOK(v) ==
    /\ DOMAIN v = ViewFields /\ v.at \in Nat /\ v.lost \in BOOLEAN
    /\ DOMAIN v.clients = Clients
    /\ \A c \in Clients :
          /\ v.clients[c].known \in BOOLEAN
          /\ v.clients[c].known => /\ DOMAIN v.clients[c] = KnownFields
                                   /\ v.clients[c].life \in Nat
                                   /\ v.clients[c].generation \in Nat \ {0}

\* A view that some companion may have, at any point of what it is told.
Fits(n, s, k, v) == ViewOK(v) /\ \A c \in Clients : Knows(n, s, k, c, v)

\* A view that is up to date with the shadow about a client, unless that is in doubt.
Follows(n, s, k, c, v) ==
    c \notin k.doubt[s] =>
        IF n.shadow[c].known
        THEN Perceives(n.agents, s, c) => v.clients[c].known /\ Agrees(n, s, c, v, Asked(k, c))
        ELSE ~ v.clients[c].known

\* A view that is up to date about the focus, but for what is in doubt or concealed or is
\* going to be announced (k.pending).
FollowsFocus(n, s, k, v) ==
    \/ "focus" \in k.pending \/ "focus" \in k.doubt[s]
    \/ n.shownFocus \in k.doubt[s] \/ v.focus \in k.doubt[s]
    \/ n.shownFocus # NoClient /\ ~ Perceives(n.agents, s, n.shownFocus)
    \/ v.focus = n.shownFocus

\* A view that is up to date about the workspace.
FollowsWorkspace(n, s, k, v) ==
    \/ "workspace" \in k.pending \/ "workspace" \in k.doubt[s]
    \/ v.current = n.shownWorkspace

\* A view that is up to date with all that was announced.
Tracks(n, s, k, v) ==
    /\ \A c \in Clients : Follows(n, s, k, c, v)
    /\ FollowsFocus(n, s, k, v) /\ FollowsWorkspace(n, s, k, v)

\* What is known of a state besides the manager.
Ghost(k) ==
    /\ k.lives \in [Clients -> Nat]
    /\ k.doubt \in [Sessions -> SUBSET (Clients \cup {"focus", "workspace"})]
    /\ \A s \in Sessions : k.doubt[s] \subseteq k.ever[s]

\* The subscription and the sequence of a session.
Sub(n, s) == n.agents.sessions[s].subscription

Sequence(n, s) == n.agents.sessions[s].sequence

\* The companion's views as it reads what the transport has (ws), then what is queued (us).
Told(n, s, k, v0, ws, us) ==
    /\ ws[0] = v0
    /\ \A i \in DOMAIN n.outbox[s] : ws[i] = ReadFrame(ws[i - 1], n.outbox[s][i])
    /\ us[0] = ws[Len(n.outbox[s])]
    /\ \A i \in DOMAIN Sub(n, s).queue : us[i] = ReadEvent(us[i - 1], Sub(n, s).queue[i])
    /\ \A i \in 0..Len(n.outbox[s]) : Fits(n, s, k, ws[i])
    /\ \A i \in 0..Len(Sub(n, s).queue) : Fits(n, s, k, us[i])
    /\ LET v == us[Len(Sub(n, s).queue)]
       IN  Sub(n, s).on /\ ~ Sub(n, s).resync /\ ~ v.lost
              => v.at = Sequence(n, s) /\ Tracks(n, s, k, v)

\* A session that can be told something.
Attended(n, s) == Held(n, s) /\ s \in OpenSessions(n.agents)

\* What is on its way to a session leads from its view to one that is up to date.
Informs(n, s, k, v0) == Attended(n, s) => \E ws, us : Told(n, s, k, v0, ws, us)

\* A session that is not greeted has nothing on its way and knows nothing.
Linked(n, s, v) ==
    n.link[s] \in {"none", "connected"} =>
        s \notin OpenSessions(n.agents) /\ n.outbox[s] = <<>> /\ v = NoView

\* The invariant of a manager n, for what is known besides it, k: the lives of the clients,
\* the views, what is in doubt, and how far the announcements under way have come.
Ok(n, k) ==
    /\ Sound(n)
    /\ Lively(n, k.lives)
    /\ \A s \in Sessions : Linked(n, s, k.view[s]) /\ Informs(n, s, k, k.view[s])

\* Appending to a queue.
LEMMA AppendFacts ==
    ASSUME NEW q, IsQueue(q), NEW x
    PROVE  /\ IsQueue(Append(q, x)) /\ Len(q) \in Nat /\ Append(q, x) # <<>>
           /\ Len(Append(q, x)) = Len(q) + 1
           /\ DOMAIN q = 1..Len(q) /\ DOMAIN Append(q, x) = 1..(Len(q) + 1)
           /\ \A i \in 1..Len(q) : Append(q, x)[i] = q[i]
           /\ Append(q, x)[Len(q) + 1] = x
  <1>1. PICK T : q \in Seq(T)
    BY DEF IsQueue
  <1>2. q \in Seq(T \cup {x}) /\ x \in T \cup {x}
    BY <1>1
  <1>3. Append(q, x) \in Seq(T \cup {x})
    BY <1>2
  <1>4. Len(Append(q, x)) = Len(q) + 1 /\ Len(q) \in Nat
    BY <1>2
  <1>5. Append(q, x) # <<>>
    BY <1>2, <1>4
  <1> QED BY <1>2, <1>3, <1>4, <1>5 DEF IsQueue

\* Taking the head of a queue.
LEMMA TailFacts ==
    ASSUME NEW q, IsQueue(q), q # <<>>
    PROVE  /\ IsQueue(Tail(q)) /\ Len(q) \in Nat \ {0} /\ Head(q) = q[1]
           /\ Len(Tail(q)) = Len(q) - 1
           /\ DOMAIN q = 1..Len(q) /\ DOMAIN Tail(q) = 1..(Len(q) - 1)
           /\ \A i \in 1..(Len(q) - 1) : Tail(q)[i] = q[i + 1]
           /\ <<Head(q)>> \o Tail(q) = q
  <1>1. PICK T : q \in Seq(T)
    BY DEF IsQueue
  <1>2. Tail(q) \in Seq(T)
    BY <1>1
  <1>3. <<Head(q)>> \o Tail(q) = q
    BY <1>1
  <1> QED BY <1>1, <1>2, <1>3 DEF IsQueue

\* The empty queue.
LEMMA EmptyFacts ==
    IsQueue(<<>>) /\ Len(<<>>) = 0 /\ DOMAIN <<>> = {}
  BY DEF IsQueue

\* What a companion may know of n it may know of n2.
Carries(n, k, n2, k2, s) ==
    \A v : Fits(n, s, k, v) => /\ Fits(n2, s, k2, v)
                               /\ Tracks(n, s, k, v) => Tracks(n2, s, k2, v)

\* What is on its way to a session is in queues, and stamped.
LEMMA QueueFacts ==
    ASSUME NEW n, Sound(n), NEW s \in Sessions
    PROVE  /\ IsQueue(n.outbox[s]) /\ Len(n.outbox[s]) \in Nat
           /\ DOMAIN n.outbox[s] = 1..Len(n.outbox[s])
           /\ Attended(n, s) => /\ IsQueue(Sub(n, s).queue) /\ Len(Sub(n, s).queue) \in Nat
                                /\ DOMAIN Sub(n, s).queue = 1..Len(Sub(n, s).queue)
                                /\ SubscriptionOK(Sub(n, s)) /\ Sequence(n, s) \in Nat
                                /\ \A i \in DOMAIN Sub(n, s).queue :
                                      /\ Sub(n, s).queue[i].sequence \in 0..Sequence(n, s)
                                      /\ Sub(n, s).queue[i].event.kind # "resync_required"
  <1>1. IsQueue(n.outbox[s])
    BY DEF Sound
  <1>2. Attended(n, s) => SessionOK(n.agents.sessions[s])
    BY DEF Sound, AgentsOK, Attended
  <1>3. Attended(n, s) => SubscriptionOK(Sub(n, s)) /\ IsQueue(Sub(n, s).queue) /\ Sequence(n, s) \in Nat
    BY <1>2 DEF SessionOK, SubscriptionOK, Sub, Sequence
  <1> QED BY <1>1, <1>2, <1>3, AppendFacts DEF SessionOK, Sub, Sequence

\* Nothing on its way changes.
LEMMA SameChannel ==
    ASSUME NEW n, Sound(n), NEW n2, NEW s \in Sessions, NEW k, NEW k2, NEW v0,
           Informs(n, s, k, v0),
           Attended(n2, s) => /\ Attended(n, s) /\ n2.outbox[s] = n.outbox[s]
                              /\ Sub(n2, s).on = Sub(n, s).on /\ Sub(n2, s).resync = Sub(n, s).resync
                              /\ Sub(n2, s).queue = Sub(n, s).queue
                              /\ Sequence(n2, s) = Sequence(n, s),
           Carries(n, k, n2, k2, s)
    PROVE  Informs(n2, s, k2, v0)
  <1> SUFFICES ASSUME Attended(n2, s) PROVE \E ws, us : Told(n2, s, k2, v0, ws, us)
    BY DEF Informs
  <1>1. PICK ws, us : Told(n, s, k, v0, ws, us)
    BY DEF Informs
  <1>2. Len(Sub(n, s).queue) \in Nat
    BY QueueFacts
  <1>3. Told(n2, s, k2, v0, ws, us)
    BY <1>1, <1>2 DEF Told, Carries
  <1> QED BY <1>3

\* The sequence of a session that is not subscribed moves.
LEMMA Unsubscribed ==
    ASSUME NEW n, Sound(n), NEW n2, NEW s \in Sessions, NEW k, NEW k2, NEW v0,
           Informs(n, s, k, v0),
           Attended(n2, s) => /\ Attended(n, s) /\ n2.outbox[s] = n.outbox[s]
                              /\ Sub(n2, s) = Sub(n, s) /\ ~ Sub(n, s).on,
           \A v : Fits(n, s, k, v) => Fits(n2, s, k2, v)
    PROVE  Informs(n2, s, k2, v0)
  <1> SUFFICES ASSUME Attended(n2, s) PROVE \E ws, us : Told(n2, s, k2, v0, ws, us)
    BY DEF Informs
  <1>1. PICK ws, us : Told(n, s, k, v0, ws, us)
    BY DEF Informs
  <1>3. Told(n2, s, k2, v0, ws, us)
    BY <1>1 DEF Told
  <1> QED BY <1>3

\* A response that is no snapshot is sent.
LEMMA NeutralSent ==
    ASSUME NEW n, Sound(n), NEW n2, NEW s \in Sessions, NEW k, NEW k2, NEW v0,
           Informs(n, s, k, v0), NEW frame, frame.frame # "event", ~ IsSnapshot(frame),
           Attended(n2, s) => /\ Attended(n, s) /\ n2.outbox[s] = Append(n.outbox[s], frame)
                              /\ Sub(n2, s) = Sub(n, s) /\ Sequence(n2, s) = Sequence(n, s),
           Carries(n, k, n2, k2, s)
    PROVE  Informs(n2, s, k2, v0)
  <1> SUFFICES ASSUME Attended(n2, s) PROVE \E ws, us : Told(n2, s, k2, v0, ws, us)
    BY DEF Informs
  <1> DEFINE q == n.outbox[s]
             q2 == n2.outbox[s]
  <1>1. PICK ws, us : Told(n, s, k, v0, ws, us)
    BY DEF Informs
  <1>2. /\ Len(Sub(n, s).queue) \in Nat /\ Len(q) \in Nat /\ Len(q2) = Len(q) + 1
        /\ DOMAIN q = 1..Len(q) /\ DOMAIN q2 = 1..(Len(q) + 1)
        /\ \A i \in 1..Len(q) : q2[i] = q[i]
        /\ q2[Len(q) + 1] = frame
    BY QueueFacts, AppendFacts
  <1> DEFINE ws2 == [i \in 0..(Len(q) + 1) |-> IF i = Len(q) + 1 THEN ws[Len(q)] ELSE ws[i]]
  <1>3. ws2[0] = v0
    BY <1>1, <1>2 DEF Told
  <1>4. \A i \in DOMAIN q2 : ws2[i] = ReadFrame(ws2[i - 1], q2[i])
    <2> TAKE i \in DOMAIN q2
    <2>1. CASE i = Len(q) + 1
      <3>1. ws2[i] = ws[Len(q)] /\ ws2[i - 1] = ws[Len(q)] /\ q2[i] = frame
        BY <1>2, <2>1
      <3> QED BY <3>1 DEF ReadFrame
    <2>2. CASE i # Len(q) + 1
      <3>1. i \in 1..Len(q)
        BY <1>2, <2>2
      <3>2. ws2[i] = ws[i] /\ ws2[i - 1] = ws[i - 1] /\ q2[i] = q[i]
        BY <1>2, <3>1
      <3> QED BY <1>1, <1>2, <3>1, <3>2 DEF Told
    <2> QED BY <2>1, <2>2
  <1>5. us[0] = ws2[Len(q2)]
    BY <1>1, <1>2 DEF Told
  <1>6. \A i \in 0..Len(q2) : Fits(n2, s, k2, ws2[i])
    BY <1>1, <1>2 DEF Told, Carries
  <1> HIDE DEF ws2
  <1>7. Told(n2, s, k2, v0, ws2, us)
    BY <1>1, <1>2, <1>3, <1>4, <1>5, <1>6 DEF Told, Carries
  <1> QED BY <1>7

\* An event is queued for a subscribed session, or lost with the rest.
LEMMA EventQueued ==
    ASSUME NEW n, Sound(n), NEW n2, NEW s \in Sessions, NEW k, NEW k2, NEW v0,
           Informs(n, s, k, v0), NEW event, event.kind # "resync_required",
           Attended(n2, s) =>
              /\ Attended(n, s) /\ n2.outbox[s] = n.outbox[s] /\ Sub(n, s).on
              /\ Sequence(n2, s) = Sequence(n, s) + 1
              /\ Sub(n2, s) = Queued(Sub(n, s), Stamped(Sequence(n2, s), event)),
           \A v : Fits(n, s, k, v) => Fits(n2, s, k2, v),
           \A v : LET v2 == [Changed(v, event) EXCEPT !.at = Sequence(n2, s)] IN
                  Fits(n, s, k, v) /\ Tracks(n, s, k, v)
                     => /\ Fits(n2, s, k2, v2) /\ Tracks(n2, s, k2, v2)
                        /\ "at" \in DOMAIN Changed(v, event)
    PROVE  Informs(n2, s, k2, v0)
  <1> SUFFICES ASSUME Attended(n2, s) PROVE \E ws, us : Told(n2, s, k2, v0, ws, us)
    BY DEF Informs
  <1> DEFINE u == Sub(n, s)
             u2 == Sub(n2, s)
             stamped == Stamped(Sequence(n2, s), event)
             q == u.queue
  <1>1. PICK ws, us : Told(n, s, k, v0, ws, us)
    BY DEF Informs
  <1>2. /\ SubscriptionOK(u) /\ Len(q) \in Nat /\ IsQueue(q) /\ Sequence(n, s) \in Nat
        /\ DOMAIN q = 1..Len(q) /\ MaxQueuedEvents \in Nat \ {0}
    BY QueueFacts, QueueAssumption
  <1>3. u2 = Queued(u, stamped)
    OBVIOUS
  <1>4. Len(n.outbox[s]) \in Nat
    BY QueueFacts
  <1>5. CASE Len(q) >= MaxQueuedEvents \/ u.resync
    <2>1. u2.queue = <<>> /\ u2.resync
      BY <1>2, <1>3, <1>5 DEF Queued, SubscriptionOK
    <2>2. us[0] = ws[Len(n.outbox[s])] /\ Fits(n2, s, k2, us[0])
      BY <1>1, <1>2 DEF Told
    <2>3. Told(n2, s, k2, v0, ws, us)
      BY <1>1, <2>1, <2>2, <1>4, EmptyFacts DEF Told
    <2> QED BY <2>3
  <1>6. CASE ~ (Len(q) >= MaxQueuedEvents \/ u.resync)
    <2> DEFINE q2 == u2.queue
    <2>1. q2 = Append(q, stamped) /\ ~ u2.resync /\ u2.on
      BY <1>2, <1>3, <1>6 DEF Queued, SubscriptionOK
    <2>2. /\ Len(q2) = Len(q) + 1 /\ DOMAIN q2 = 1..(Len(q) + 1)
          /\ \A i \in 1..Len(q) : q2[i] = q[i]
          /\ q2[Len(q) + 1] = stamped
      BY <1>2, <2>1, AppendFacts
    <2> DEFINE v == us[Len(q)]
               v2 == ReadEvent(v, stamped)
               us2 == [i \in 0..(Len(q) + 1) |-> IF i = Len(q) + 1 THEN v2 ELSE us[i]]
    <2>3. us2[0] = ws[Len(n.outbox[s])]
      BY <1>1, <1>2 DEF Told
    <2>4. \A i \in DOMAIN q2 : us2[i] = ReadEvent(us2[i - 1], q2[i])
      <3> TAKE i \in DOMAIN q2
      <3>1. CASE i = Len(q) + 1
        <4>1. us2[i] = v2 /\ us2[i - 1] = v /\ q2[i] = stamped
          BY <1>2, <2>2, <3>1
        <4> QED BY <4>1
      <3>2. CASE i # Len(q) + 1
        <4>1. i \in 1..Len(q)
          BY <1>2, <2>2, <3>2
        <4>2. us2[i] = us[i] /\ us2[i - 1] = us[i - 1] /\ q2[i] = q[i]
          BY <1>2, <2>2, <4>1
        <4> QED BY <1>1, <1>2, <4>1, <4>2 DEF Told
      <3> QED BY <3>1, <3>2
    <2>5. Fits(n, s, k, v) /\ ViewOK(v)
      BY <1>1, <1>2 DEF Told, Fits
    <2>6. stamped.sequence = Sequence(n2, s) /\ stamped.event = event
      BY DEF Stamped
    <2>7. /\ Fits(n2, s, k2, v2)
          /\ ~ v2.lost => v2.at = Sequence(n2, s) /\ Tracks(n2, s, k2, v2)
      <3>1. CASE v.lost
        BY <2>5, <2>6, <3>1 DEF ReadEvent
      <3>2. CASE ~ v.lost
        <4>1. v.at = Sequence(n, s) /\ Tracks(n, s, k, v)
          BY <1>1, <1>6, <3>2 DEF Told
        <4>2. ~ (Sequence(n2, s) <= v.at)
          BY <1>2, <4>1
        <4>3. v2 = [Changed(v, event) EXCEPT !.at = Sequence(n2, s)]
          BY <2>6, <3>2, <4>2 DEF ReadEvent
        <4>4. Fits(n2, s, k2, v2) /\ Tracks(n2, s, k2, v2) /\ "at" \in DOMAIN Changed(v, event)
          BY <2>5, <4>1, <4>3
        <4> QED BY <4>3, <4>4
      <3> QED BY <3>1, <3>2
    <2> HIDE DEF v2
    <2>8. us2[Len(q2)] = v2
      BY <1>2, <2>2
    <2>9. \A i \in 0..Len(q2) : Fits(n2, s, k2, us2[i])
      BY <1>1, <1>2, <2>2, <2>7 DEF Told
    <2> HIDE DEF us2
    <2>10. Told(n2, s, k2, v0, ws, us2)
      BY <1>1, <1>4, <2>2, <2>3, <2>4, <2>7, <2>8, <2>9 DEF Told
    <2> QED BY <2>10
  <1> QED BY <1>5, <1>6

\* The oldest event of the queue is handed to the transport.
LEMMA EventSent ==
    ASSUME NEW n, Sound(n), NEW n2, NEW s \in Sessions, NEW k, NEW k2, NEW v0,
           Informs(n, s, k, v0),
           Attended(n2, s) =>
              /\ Attended(n, s) /\ ~ Sub(n, s).resync /\ Sub(n, s).queue # <<>>
              /\ n2.outbox[s] = Append(n.outbox[s], [frame |-> "event", event |-> Head(Sub(n, s).queue)])
              /\ Sub(n2, s).queue = Tail(Sub(n, s).queue)
              /\ Sub(n2, s).on = Sub(n, s).on /\ Sub(n2, s).resync = Sub(n, s).resync
              /\ Sequence(n2, s) = Sequence(n, s),
           Carries(n, k, n2, k2, s)
    PROVE  Informs(n2, s, k2, v0)
  <1> SUFFICES ASSUME Attended(n2, s) PROVE \E ws, us : Told(n2, s, k2, v0, ws, us)
    BY DEF Informs
  <1> DEFINE q == n.outbox[s]
             q2 == n2.outbox[s]
             p == Sub(n, s).queue
             p2 == Sub(n2, s).queue
             frame == [frame |-> "event", event |-> Head(p)]
  <1>1. PICK ws, us : Told(n, s, k, v0, ws, us)
    BY DEF Informs
  <1>2. /\ Len(q) \in Nat /\ Len(q2) = Len(q) + 1
        /\ DOMAIN q = 1..Len(q) /\ DOMAIN q2 = 1..(Len(q) + 1)
        /\ \A i \in 1..Len(q) : q2[i] = q[i]
        /\ q2[Len(q) + 1] = frame
    BY QueueFacts, AppendFacts
  <1>3. /\ Len(p) \in Nat \ {0} /\ Len(p2) = Len(p) - 1 /\ Head(p) = p[1]
        /\ DOMAIN p = 1..Len(p) /\ DOMAIN p2 = 1..(Len(p) - 1)
        /\ \A i \in 1..(Len(p) - 1) : p2[i] = p[i + 1]
    BY QueueFacts, TailFacts, Zenon
  <1> DEFINE ws2 == [i \in 0..(Len(q) + 1) |-> IF i = Len(q) + 1 THEN us[1] ELSE ws[i]]
             us2 == [i \in 0..(Len(p) - 1) |-> us[i + 1]]
  <1>4. ws2[0] = v0
    BY <1>1, <1>2 DEF Told
  <1>5. us[1] = ReadEvent(ws[Len(q)], Head(p))
    <2>1. 1 \in DOMAIN p /\ us[0] = ws[Len(q)]
      BY <1>1, <1>3 DEF Told
    <2> QED BY <1>1, <1>3, <2>1 DEF Told
  <1>6. \A i \in DOMAIN q2 : ws2[i] = ReadFrame(ws2[i - 1], q2[i])
    <2> TAKE i \in DOMAIN q2
    <2>1. CASE i = Len(q) + 1
      <3>1. ws2[i] = us[1] /\ ws2[i - 1] = ws[Len(q)] /\ q2[i] = frame
        BY <1>2, <2>1
      <3> QED BY <1>5, <3>1 DEF ReadFrame
    <2>2. CASE i # Len(q) + 1
      <3>1. i \in 1..Len(q)
        BY <1>2, <2>2
      <3>2. ws2[i] = ws[i] /\ ws2[i - 1] = ws[i - 1] /\ q2[i] = q[i]
        BY <1>2, <3>1
      <3> QED BY <1>1, <1>2, <3>1, <3>2 DEF Told
    <2> QED BY <2>1, <2>2
  <1>7. us2[0] = ws2[Len(q2)] /\ us2[Len(p2)] = us[Len(p)]
    BY <1>2, <1>3
  <1>8. \A i \in DOMAIN p2 : us2[i] = ReadEvent(us2[i - 1], p2[i])
    <2> TAKE i \in DOMAIN p2
    <2>1. i + 1 \in DOMAIN p /\ us2[i] = us[i + 1] /\ us2[i - 1] = us[i] /\ p2[i] = p[i + 1]
      BY <1>3
    <2>2. us[i + 1] = ReadEvent(us[(i + 1) - 1], p[i + 1])
      BY <1>1, <2>1 DEF Told
    <2>3. (i + 1) - 1 = i
      BY <1>3
    <2> QED BY <2>1, <2>2, <2>3
  <1>9. \A i \in 0..Len(q2) : Fits(n2, s, k2, ws2[i])
    BY <1>1, <1>2, <1>3 DEF Told, Carries
  <1>10. \A i \in 0..Len(p2) : Fits(n2, s, k2, us2[i])
    BY <1>1, <1>3 DEF Told, Carries
  <1> HIDE DEF ws2, us2
  <1>11. Fits(n, s, k, us[Len(p)])
    BY <1>1, <1>3 DEF Told
  <1>12. Told(n2, s, k2, v0, ws2, us2)
    BY <1>1, <1>4, <1>6, <1>7, <1>8, <1>9, <1>10, <1>11 DEF Told, Carries
  <1> QED BY <1>12

\* A session is told that it has missed events.
LEMMA ResyncSent ==
    ASSUME NEW n, Sound(n), NEW n2, NEW s \in Sessions, NEW k, NEW k2, NEW v0,
           Informs(n, s, k, v0), NEW stamped, stamped.event.kind = "resync_required",
           Attended(n2, s) =>
              /\ Attended(n, s)
              /\ n2.outbox[s] = Append(n.outbox[s], [frame |-> "event", event |-> stamped])
              /\ Sub(n2, s).queue = <<>>,
           Carries(n, k, n2, k2, s)
    PROVE  Informs(n2, s, k2, v0)
  <1> SUFFICES ASSUME Attended(n2, s) PROVE \E ws, us : Told(n2, s, k2, v0, ws, us)
    BY DEF Informs
  <1> DEFINE q == n.outbox[s]
             q2 == n2.outbox[s]
             frame == [frame |-> "event", event |-> stamped]
  <1>1. PICK ws, us : Told(n, s, k, v0, ws, us)
    BY DEF Informs
  <1>2. /\ Len(q) \in Nat /\ Len(q2) = Len(q) + 1
        /\ DOMAIN q = 1..Len(q) /\ DOMAIN q2 = 1..(Len(q) + 1)
        /\ \A i \in 1..Len(q) : q2[i] = q[i]
        /\ q2[Len(q) + 1] = frame
    BY QueueFacts, AppendFacts
  <1> DEFINE v == ws[Len(q)]
             lost == [v EXCEPT !.lost = TRUE]
             ws2 == [i \in 0..(Len(q) + 1) |-> IF i = Len(q) + 1 THEN lost ELSE ws[i]]
             us2 == [i \in {0} |-> lost]
  <1>3. Fits(n, s, k, v)
    BY <1>1, <1>2 DEF Told
  <1>4. Fits(n2, s, k2, v)
    BY <1>3 DEF Carries
  <1>5. Fits(n2, s, k2, lost) /\ lost.lost
    BY <1>4, Zenon DEF Fits, ViewOK, ViewFields, Knows, Agrees
  <1>6. ReadFrame(v, frame) = lost
    BY DEF ReadFrame, ReadEvent
  <1> HIDE DEF lost
  <1>7. ws2[0] = v0
    BY <1>1, <1>2 DEF Told
  <1>8. \A i \in DOMAIN q2 : ws2[i] = ReadFrame(ws2[i - 1], q2[i])
    <2> TAKE i \in DOMAIN q2
    <2>1. CASE i = Len(q) + 1
      <3>1. ws2[i] = lost /\ ws2[i - 1] = v /\ q2[i] = frame
        BY <1>2, <2>1
      <3> QED BY <1>6, <3>1
    <2>2. CASE i # Len(q) + 1
      <3>1. i \in 1..Len(q)
        BY <1>2, <2>2
      <3>2. ws2[i] = ws[i] /\ ws2[i - 1] = ws[i - 1] /\ q2[i] = q[i]
        BY <1>2, <3>1
      <3> QED BY <1>1, <1>2, <3>1, <3>2 DEF Told
    <2> QED BY <2>1, <2>2
  <1>9. \A i \in 0..Len(q2) : Fits(n2, s, k2, ws2[i])
    BY <1>1, <1>2, <1>5 DEF Told, Carries
  <1>10. us2[0] = ws2[Len(q2)] /\ us2[0] = lost
    BY <1>2
  <1> HIDE DEF ws2, us2
  <1>11. Told(n2, s, k2, v0, ws2, us2)
    BY <1>5, <1>7, <1>8, <1>9, <1>10, EmptyFacts DEF Told
  <1> QED BY <1>11

\* The companion reads a frame.
LEMMA FrameRead ==
    ASSUME NEW n, Sound(n), NEW n2, NEW s \in Sessions, NEW k, NEW v0,
           Informs(n, s, k, v0), n.outbox[s] # <<>>,
           Attended(n2, s) => /\ Attended(n, s) /\ n2.outbox[s] = Tail(n.outbox[s])
                              /\ Sub(n2, s) = Sub(n, s) /\ Sequence(n2, s) = Sequence(n, s),
           Carries(n, k, n2, k, s)
    PROVE  Informs(n2, s, k, ReadFrame(v0, Head(n.outbox[s])))
  <1> DEFINE q == n.outbox[s]
             q2 == n2.outbox[s]
             v1 == ReadFrame(v0, Head(q))
  <1> SUFFICES ASSUME Attended(n2, s) PROVE \E ws, us : Told(n2, s, k, v1, ws, us)
    BY DEF Informs
  <1>1. PICK ws, us : Told(n, s, k, v0, ws, us)
    BY DEF Informs
  <1>2. /\ Len(q) \in Nat \ {0} /\ Len(q2) = Len(q) - 1 /\ Head(q) = q[1]
        /\ DOMAIN q = 1..Len(q) /\ DOMAIN q2 = 1..(Len(q) - 1)
        /\ \A i \in 1..(Len(q) - 1) : q2[i] = q[i + 1]
    BY QueueFacts, TailFacts, Zenon
  <1>3. Len(Sub(n, s).queue) \in Nat
    BY QueueFacts
  <1> DEFINE ws2 == [i \in 0..(Len(q) - 1) |-> ws[i + 1]]
  <1>4. ws2[0] = v1
    <2>1. 1 \in DOMAIN q /\ ws[0] = v0
      BY <1>1, <1>2 DEF Told
    <2>2. ws[1] = ReadFrame(ws[0], q[1])
      BY <1>1, <2>1 DEF Told
    <2> QED BY <1>2, <2>1, <2>2
  <1>5. \A i \in DOMAIN q2 : ws2[i] = ReadFrame(ws2[i - 1], q2[i])
    <2> TAKE i \in DOMAIN q2
    <2>1. i + 1 \in DOMAIN q /\ ws2[i] = ws[i + 1] /\ ws2[i - 1] = ws[i] /\ q2[i] = q[i + 1]
      BY <1>2
    <2>2. ws[i + 1] = ReadFrame(ws[(i + 1) - 1], q[i + 1])
      BY <1>1, <2>1 DEF Told
    <2>3. (i + 1) - 1 = i
      BY <1>2
    <2> QED BY <2>1, <2>2, <2>3
  <1>6. us[0] = ws2[Len(q2)]
    BY <1>1, <1>2 DEF Told
  <1>7. \A i \in 0..Len(q2) : Fits(n2, s, k, ws2[i])
    BY <1>1, <1>2 DEF Told, Carries
  <1> HIDE DEF ws2, v1
  <1>8. Told(n2, s, k, v1, ws2, us)
    BY <1>1, <1>3, <1>4, <1>5, <1>6, <1>7 DEF Told, Carries
  <1> QED BY <1>8

\* A snapshot is sent.  It overtakes the events that are queued: they are older.
LEMMA SnapshotSent ==
    ASSUME NEW n, Sound(n), NEW n2, NEW s \in Sessions, NEW k, NEW k2, NEW v0,
           Informs(n, s, k, v0), NEW frame, IsSnapshot(frame),
           Attended(n2, s) =>
              /\ Attended(n, s) /\ n2.outbox[s] = Append(n.outbox[s], frame)
              /\ Sub(n2, s).queue = Sub(n, s).queue \/ Sub(n2, s).queue = <<>>
              /\ Sequence(n2, s) = Sequence(n, s)
              /\ ViewOf(frame.outcome).at = Sequence(n, s)
              /\ Fits(n2, s, k2, ViewOf(frame.outcome)) /\ Tracks(n2, s, k2, ViewOf(frame.outcome)),
           \A v : Fits(n, s, k, v) => Fits(n2, s, k2, v)
    PROVE  Informs(n2, s, k2, v0)
  <1> SUFFICES ASSUME Attended(n2, s) PROVE \E ws, us : Told(n2, s, k2, v0, ws, us)
    BY DEF Informs
  <1> DEFINE q == n.outbox[s]
             q2 == n2.outbox[s]
             p2 == Sub(n2, s).queue
             shown == ViewOf(frame.outcome)
  <1>1. PICK ws, us : Told(n, s, k, v0, ws, us)
    BY DEF Informs
  <1>2. /\ Len(q) \in Nat /\ Len(q2) = Len(q) + 1
        /\ DOMAIN q = 1..Len(q) /\ DOMAIN q2 = 1..(Len(q) + 1)
        /\ \A i \in 1..Len(q) : q2[i] = q[i]
        /\ q2[Len(q) + 1] = frame
    BY QueueFacts, AppendFacts
  <1>3. /\ Len(p2) \in Nat /\ DOMAIN p2 = 1..Len(p2) /\ Sequence(n, s) \in Nat
        /\ \A i \in DOMAIN p2 : /\ p2[i].sequence \in 0..Sequence(n, s)
                                /\ p2[i].event.kind # "resync_required"
    BY QueueFacts, EmptyFacts
  <1> DEFINE ws2 == [i \in 0..(Len(q) + 1) |-> IF i = Len(q) + 1 THEN shown ELSE ws[i]]
             us2 == [i \in 0..Len(p2) |-> shown]
  <1>4. ReadFrame(ws[Len(q)], frame) = shown
    BY DEF ReadFrame, IsSnapshot
  <1>5. ~ shown.lost /\ shown.at = Sequence(n, s)
    BY DEF ViewOf
  <1>6. \A i \in DOMAIN p2 : ReadEvent(shown, p2[i]) = shown
    BY <1>3, <1>5 DEF ReadEvent
  <1>7. Fits(n2, s, k2, shown) /\ Tracks(n2, s, k2, shown)
    OBVIOUS
  <1> HIDE DEF shown
  <1>8. ws2[0] = v0
    BY <1>1, <1>2 DEF Told
  <1>9. \A i \in DOMAIN q2 : ws2[i] = ReadFrame(ws2[i - 1], q2[i])
    <2> TAKE i \in DOMAIN q2
    <2>1. CASE i = Len(q) + 1
      <3>1. ws2[i] = shown /\ ws2[i - 1] = ws[Len(q)] /\ q2[i] = frame
        BY <1>2, <2>1
      <3> QED BY <1>4, <3>1
    <2>2. CASE i # Len(q) + 1
      <3>1. i \in 1..Len(q)
        BY <1>2, <2>2
      <3>2. ws2[i] = ws[i] /\ ws2[i - 1] = ws[i - 1] /\ q2[i] = q[i]
        BY <1>2, <3>1
      <3> QED BY <1>1, <1>2, <3>1, <3>2 DEF Told
    <2> QED BY <2>1, <2>2
  <1>10. \A i \in 0..Len(q2) : Fits(n2, s, k2, ws2[i])
    BY <1>1, <1>2, <1>7 DEF Told
  <1>11. us2[0] = ws2[Len(q2)] /\ us2[Len(p2)] = shown
    BY <1>2, <1>3
  <1>12. \A i \in DOMAIN p2 : us2[i] = ReadEvent(us2[i - 1], p2[i])
    BY <1>3, <1>6
  <1>13. \A i \in 0..Len(p2) : Fits(n2, s, k2, us2[i])
    BY <1>7
  <1> HIDE DEF ws2, us2
  <1>14. Told(n2, s, k2, v0, ws2, us2)
    BY <1>5, <1>7, <1>8, <1>9, <1>10, <1>11, <1>12, <1>13 DEF Told
  <1> QED BY <1>14

\* A session that has just been opened knows nothing.
LEMMA JustOpened ==
    ASSUME NEW n2, NEW s \in Sessions, NEW k, NEW frame,
           frame.frame # "event", ~ IsSnapshot(frame),
           Attended(n2, s) => /\ n2.outbox[s] = <<frame>> \/ n2.outbox[s] = <<>>
                              /\ Sub(n2, s).queue = <<>> /\ ~ Sub(n2, s).on
    PROVE  Informs(n2, s, k, NoView)
  <1> SUFFICES ASSUME Attended(n2, s) PROVE \E ws, us : Told(n2, s, k, NoView, ws, us)
    BY DEF Informs
  <1> DEFINE ws == [i \in 0..1 |-> NoView]
  <1>1. Fits(n2, s, k, NoView)
    BY Zenon DEF NoView, Fits, ViewOK, ViewFields, Knows, NoShadow
  <1>2. ReadFrame(NoView, frame) = NoView
    BY DEF ReadFrame
  <1> DEFINE q == n2.outbox[s]
  <1>3. /\ Len(q) \in {0, 1} /\ DOMAIN q \subseteq {1}
        /\ \A i \in DOMAIN q : q[i] = frame
    <2>1. CASE q = <<>>
      BY <2>1, EmptyFacts
    <2>2. CASE q = <<frame>>
      <3>1. Len(<<frame>>) = 1 /\ DOMAIN <<frame>> = {1} /\ <<frame>>[1] = frame
        OBVIOUS
      <3> QED BY <2>2, <3>1
    <2> QED BY <2>1, <2>2
  <1>4. ws[0] = NoView /\ ws[1] = NoView
    OBVIOUS
  <1> HIDE DEF ws
  <1>5. \A i \in DOMAIN q : ws[i] = ReadFrame(ws[i - 1], q[i])
    BY <1>2, <1>3, <1>4
  <1>6. ws[Len(q)] = NoView /\ \A i \in 0..Len(q) : ws[i] = NoView
    <2>1. CASE Len(q) = 0
      BY <1>4, <2>1
    <2>2. CASE Len(q) = 1
      <3>1. 0..1 = {0, 1}
        OBVIOUS
      <3> QED BY <1>4, <2>2, <3>1
    <2> QED BY <1>3, <2>1, <2>2
  <1> HIDE DEF q
  <1>7. Told(n2, s, k, NoView, ws, ws)
    BY <1>1, <1>4, <1>5, <1>6, EmptyFacts DEF Told, q
  <1> QED BY <1>7

(* ---- Events that are published ---- *)
\* The same desktop, and the same to be seen of it.
SameFace(n, n2) ==
    /\ n2.desk = n.desk /\ n2.focus = n.focus /\ n2.current = n.current /\ n2.drag = n.drag
    /\ n2.shadow = n.shadow /\ n2.shownFocus = n.shownFocus
    /\ n2.shownWorkspace = n.shownWorkspace
    /\ n2.matchers = n.matchers /\ n2.link = n.link
    /\ n2.agents.visibility = n.agents.visibility
    /\ n2.agents.generation = n.agents.generation
    /\ OpenSessions(n2.agents) = OpenSessions(n.agents)
    /\ \A s \in OpenSessions(n.agents) : n2.agents.sessions[s].grant = n.agents.sessions[s].grant

\* The same on its way to the sessions.
SameTraffic(n, n2) ==
    /\ n2.link = n.link /\ n2.outbox = n.outbox
    /\ OpenSessions(n2.agents) = OpenSessions(n.agents)
    /\ \A s \in OpenSessions(n.agents) :
          Sub(n2, s) = Sub(n, s) /\ Sequence(n2, s) = Sequence(n, s)

\* What may be known of a desktop does not depend on what is on its way.
LEMMA FaceCarries ==
    ASSUME NEW n, NEW n2, SameFace(n, n2), NEW k, NEW s, s \in OpenSessions(n.agents)
    PROVE  Carries(n, k, n2, k, s)
  <1>1. \A c : Perceives(n2.agents, s, c) <=> Perceives(n.agents, s, c)
    BY DEF SameFace, Perceives
  <1>2. \A c : Readable(n2, s, c) = Readable(n, s, c)
    BY DEF SameFace, Readable
  <1>3. \A c, v, F : Agrees(n2, s, c, v, F) <=> Agrees(n, s, c, v, F)
    BY <1>2 DEF Agrees, SameFace
  <1>4. \A c, v : Knows(n2, s, k, c, v) <=> Knows(n, s, k, c, v)
    BY <1>1, <1>3 DEF Knows, SameFace, Managed
  <1>5. \A c, v : Follows(n2, s, k, c, v) <=> Follows(n, s, k, c, v)
    BY <1>1, <1>3 DEF Follows, SameFace
  <1>6. \A v : FollowsFocus(n2, s, k, v) <=> FollowsFocus(n, s, k, v)
    BY <1>1 DEF FollowsFocus, SameFace
  <1>7. \A v : FollowsWorkspace(n2, s, k, v) <=> FollowsWorkspace(n, s, k, v)
    BY DEF FollowsWorkspace, SameFace
  <1> QED BY <1>4, <1>5, <1>6, <1>7 DEF Carries, Fits, Tracks

\* The invariant after a change that tells nobody anything.
LEMMA QuietKeeps ==
    ASSUME NEW n, NEW k, Ok(n, k), NEW n2, Sound(n2), NEW k2, Lively(n2, k2.lives),
           k2.view = k.view, SameTraffic(n, n2),
           \A s \in OpenSessions(n.agents) : Carries(n, k, n2, k2, s)
    PROVE  Ok(n2, k2)
  <1> SUFFICES ASSUME NEW s \in Sessions
               PROVE  Linked(n2, s, k2.view[s]) /\ Informs(n2, s, k2, k2.view[s])
    BY DEF Ok
  <1>1. Linked(n2, s, k2.view[s])
    BY DEF Ok, Linked, SameTraffic
  <1>2. CASE s \in OpenSessions(n.agents)
    <2>1. Attended(n2, s) => /\ Attended(n, s) /\ n2.outbox[s] = n.outbox[s]
                             /\ Sub(n2, s) = Sub(n, s) /\ Sequence(n2, s) = Sequence(n, s)
      BY <1>2 DEF SameTraffic, Attended, Held
    <2>2. Informs(n2, s, k2, k.view[s])
      BY <1>2, <2>1, SameChannel DEF Ok
    <2> QED BY <1>1, <2>2
  <1>3. CASE s \notin OpenSessions(n.agents)
    BY <1>1, <1>3 DEF Informs, Attended, SameTraffic
  <1> QED BY <1>2, <1>3

\* One more event is queued, or the backlog dropped.
LEMMA QueuedFacts ==
    ASSUME NEW x, SubscriptionOK(x), x.on, NEW y \in Nat, NEW event,
           event.kind # "resync_required",
           \A i \in DOMAIN x.queue : /\ x.queue[i].sequence \in 0..y
                                     /\ x.queue[i].event.kind # "resync_required"
    PROVE  LET x2 == Queued(x, Stamped(y + 1, event))
           IN  /\ SubscriptionOK(x2)
               /\ \A i \in DOMAIN x2.queue : /\ x2.queue[i].sequence \in 0..(y + 1)
                                             /\ x2.queue[i].event.kind # "resync_required"
  <1> DEFINE stamped == Stamped(y + 1, event)
             x2 == Queued(x, stamped)
             q == x.queue
  <1>1. Len(q) \in Nat /\ DOMAIN q = 1..Len(q) /\ MaxQueuedEvents \in Nat \ {0}
    BY AppendFacts, QueueAssumption DEF SubscriptionOK
  <1>2. CASE Len(q) >= MaxQueuedEvents
    <2>1. x2 = [x EXCEPT !.dropped = @ + Len(q) + 1, !.queue = <<>>, !.resync = TRUE]
      BY <1>2 DEF Queued
    <2>2. /\ DOMAIN x2 = DOMAIN x /\ x2.on = x.on /\ x2.kinds = x.kinds
          /\ x2.resync \in BOOLEAN /\ x2.resync
          /\ x2.queue = <<>> /\ x2.dropped = x.dropped + Len(q) + 1
      BY <2>1, Zenon DEF SubscriptionOK
    <2> HIDE DEF x2
    <2>3. SubscriptionOK(x2)
      BY <1>1, <2>2, EmptyFacts DEF SubscriptionOK
    <2>4. DOMAIN x2.queue = {}
      BY <2>2, EmptyFacts
    <2> QED BY <2>3, <2>4 DEF x2
  <1>3. CASE ~ (Len(q) >= MaxQueuedEvents) /\ x.resync
    <2>1. x2 = [x EXCEPT !.dropped = @ + 1]
      BY <1>3 DEF Queued
    <2>2. /\ DOMAIN x2 = DOMAIN x /\ x2.on = x.on /\ x2.kinds = x.kinds /\ x2.resync = x.resync
          /\ x2.queue = <<>> /\ x2.dropped = x.dropped + 1
      BY <1>3, <2>1, Zenon DEF SubscriptionOK
    <2> HIDE DEF x2
    <2>3. SubscriptionOK(x2)
      BY <1>1, <2>2, EmptyFacts DEF SubscriptionOK
    <2>4. DOMAIN x2.queue = {}
      BY <2>2, EmptyFacts
    <2> QED BY <2>3, <2>4 DEF x2
  <1>4. CASE ~ (Len(q) >= MaxQueuedEvents) /\ ~ x.resync
    <2>1. x2 = [x EXCEPT !.queue = Append(@, stamped)]
      BY <1>4 DEF Queued
    <2>2. /\ DOMAIN x2 = DOMAIN x /\ x2.on = x.on /\ x2.kinds = x.kinds /\ x2.resync = x.resync
          /\ x2.queue = Append(q, stamped) /\ x2.dropped = x.dropped
      BY <2>1, Zenon DEF SubscriptionOK
    <2>3. SubscriptionOK(x2)
      <3> HIDE DEF x2
      <3> QED BY <1>4, <2>2, AppendFacts DEF SubscriptionOK
    <2>4. stamped.sequence = y + 1 /\ stamped.event = event
      BY DEF Stamped
    <2> HIDE DEF x2, stamped
    <2>5. ASSUME NEW i \in DOMAIN x2.queue
          PROVE  x2.queue[i].sequence \in 0..(y + 1) /\ x2.queue[i].event.kind # "resync_required"
      <3>1. i \in 1..(Len(q) + 1)
        BY <2>2, AppendFacts DEF SubscriptionOK
      <3>2. CASE i = Len(q) + 1
        <4>1. x2.queue[i] = stamped
          BY <2>2, <3>2, AppendFacts DEF SubscriptionOK
        <4> QED BY <2>4, <4>1
      <3>3. CASE i \in 1..Len(q)
        <4>1. x2.queue[i] = q[i]
          BY <2>2, <3>3, AppendFacts DEF SubscriptionOK
        <4>2. q[i].sequence \in 0..y /\ q[i].event.kind # "resync_required"
          BY <1>1, <3>3
        <4>3. q[i].sequence \in 0..(y + 1)
          BY <4>2
        <4> QED BY <4>1, <4>2, <4>3
      <3> QED BY <1>1, <3>1, <3>2, <3>3
    <2> QED BY <2>3, <2>5 DEF x2, stamped
  <1> QED BY <1>2, <1>3, <1>4

\* Those who are told of a subject.
Observes(n, s, subject) == subject = NoClient \/ Perceives(n.agents, s, subject)

\* What emitting an event does: nothing is to be seen that was not, the sequences of those
\* who may know move, and the subscribed ones of them are told.
LEMMA EmitFacts ==
    ASSUME NEW n, Sound(n), NEW kind, NEW subject, NEW event,
           \A s \in OpenSessions(n.agents) : event[s].kind # "resync_required"
    PROVE  LET n2 == Emit(n, kind, subject, event)
           IN  /\ Sound(n2) /\ SameFace(n, n2) /\ n2.outbox = n.outbox
               /\ \A s \in OpenSessions(n.agents) :
                     IF Observes(n, s, subject)
                     THEN /\ Sequence(n2, s) = Sequence(n, s) + 1
                          /\ Sub(n2, s) = IF Sub(n, s).on
                                          THEN Queued(Sub(n, s), Stamped(Sequence(n, s) + 1, event[s]))
                                          ELSE Sub(n, s)
                     ELSE n2.agents.sessions[s] = n.agents.sessions[s]
  <1> DEFINE a == n.agents
             b == TouchObservers(a, subject)
             told == [s \in Subscribers(b, kind, subject) |-> event[s]]
             d == Publish(b, told)
             n2 == Emit(n, kind, subject, event)
  <1>1. AgentsOK(a)
    BY DEF Sound
  <1>2. /\ DOMAIN b = DOMAIN a /\ b.visibility = a.visibility /\ b.generation = a.generation
        /\ OpenSessions(b) = OpenSessions(a)
        /\ \A s \in OpenSessions(a) :
              b.sessions[s] = IF Observes(n, s, subject)
                              THEN Counted(a.sessions[s]) ELSE a.sessions[s]
    <2>1. DOMAIN b = DOMAIN a /\ b.visibility = a.visibility /\ b.generation = a.generation
      BY <1>1 DEF TouchObservers, AgentsOK
    <2>2. DOMAIN b.sessions = DOMAIN a.sessions
      BY <1>1 DEF TouchObservers, AgentsOK
    <2>3. \A s \in DOMAIN a.sessions :
             b.sessions[s] = IF s \in Observers(a, subject)
                             THEN Counted(a.sessions[s]) ELSE a.sessions[s]
      BY <1>1 DEF TouchObservers, AgentsOK
    <2>4. \A s \in DOMAIN a.sessions : s \in Observers(a, subject) <=> Observes(n, s, subject)
      BY DEF Observers, Observes, OpenSessions
    <2> HIDE DEF b
    <2> QED BY <2>1, <2>2, <2>3, <2>4 DEF OpenSessions
  <1> HIDE DEF b
  <1>3. \A s \in OpenSessions(a) :
           /\ DOMAIN b.sessions[s] = DOMAIN a.sessions[s]
           /\ b.sessions[s].grant = a.sessions[s].grant
           /\ b.sessions[s].subscription = a.sessions[s].subscription
           /\ b.sessions[s].sequence =
                 IF Observes(n, s, subject) THEN Sequence(n, s) + 1 ELSE Sequence(n, s)
    BY <1>1, <1>2, Zenon DEF AgentsOK, SessionOK, Sequence, Counted
  <1>4. \A s \in OpenSessions(a) :
           s \in Subscribers(b, kind, subject) <=> Observes(n, s, subject) /\ Sub(n, s).on
    <2> TAKE s \in OpenSessions(a)
    <2>1. Wants(b.sessions[s].subscription, kind)
      BY <1>1, <1>3 DEF Wants, AgentsOK, SessionOK, SubscriptionOK
    <2>2. Perceives(b, s, subject) <=> Perceives(a, s, subject)
      BY <1>2, <1>3 DEF Perceives
    <2> QED BY <1>2, <1>3, <2>1, <2>2 DEF Subscribers, Observers, Observes, Sub
  <1>5. /\ DOMAIN d = DOMAIN a /\ d.visibility = a.visibility /\ d.generation = a.generation
        /\ OpenSessions(d) = OpenSessions(a)
        /\ \A s \in OpenSessions(a) :
              d.sessions[s] =
                IF s \in DOMAIN told /\ b.sessions[s].subscription.on
                THEN Notified(b.sessions[s], told[s]) ELSE b.sessions[s]
    <2> HIDE DEF told
    <2>1. DOMAIN d = DOMAIN b /\ d.visibility = b.visibility /\ d.generation = b.generation
      BY <1>1, <1>2 DEF Publish, AgentsOK
    <2>2. DOMAIN d.sessions = DOMAIN b.sessions
      BY <1>1, <1>2 DEF Publish, AgentsOK
    <2>3. \A s \in DOMAIN b.sessions :
             d.sessions[s] =
                IF s \in DOMAIN told /\ b.sessions[s].subscription.on
                THEN Notified(b.sessions[s], told[s]) ELSE b.sessions[s]
      BY <1>1, <1>2 DEF Publish, AgentsOK
    <2> HIDE DEF d
    <2> QED BY <1>2, <2>1, <2>2, <2>3 DEF OpenSessions
  <1>6. \A s \in OpenSessions(a) :
           d.sessions[s] =
             IF Observes(n, s, subject) /\ Sub(n, s).on
             THEN [b.sessions[s] EXCEPT
                      !.subscription = Queued(Sub(n, s), Stamped(Sequence(n, s) + 1, event[s]))]
             ELSE b.sessions[s]
    <2> TAKE s \in OpenSessions(a)
    <2>1. CASE Observes(n, s, subject) /\ Sub(n, s).on
      BY <1>2, <1>3, <1>4, <1>5, <2>1, Zenon DEF Sub, Notified
    <2>2. CASE ~ (Observes(n, s, subject) /\ Sub(n, s).on)
      <3>1. s \notin DOMAIN told
        BY <1>4, <2>2
      <3> QED BY <1>5, <2>2, <3>1
    <2> QED BY <2>1, <2>2
  <1> HIDE DEF d, told
  <1>7. \A s \in OpenSessions(a) :
           /\ DOMAIN d.sessions[s] = DOMAIN a.sessions[s]
           /\ d.sessions[s].grant = a.sessions[s].grant
           /\ IF Observes(n, s, subject)
              THEN /\ d.sessions[s].sequence = Sequence(n, s) + 1
                   /\ d.sessions[s].subscription =
                         IF Sub(n, s).on
                         THEN Queued(Sub(n, s), Stamped(Sequence(n, s) + 1, event[s]))
                         ELSE Sub(n, s)
              ELSE d.sessions[s] = a.sessions[s]
    <2> TAKE s \in OpenSessions(a)
    <2>1. DOMAIN a.sessions[s] = {"grant", "status", "subscription", "sequence"}
      BY <1>1 DEF AgentsOK, SessionOK
    <2>2. CASE Observes(n, s, subject) /\ Sub(n, s).on
      BY <1>3, <1>6, <2>1, <2>2, Zenon
    <2>3. CASE Observes(n, s, subject) /\ ~ Sub(n, s).on
      BY <1>3, <1>6, <2>1, <2>3, Zenon DEF Sub
    <2>4. CASE ~ Observes(n, s, subject)
      BY <1>2, <1>6, <2>1, <2>4, Zenon
    <2> QED BY <2>2, <2>3, <2>4
  <1>8. n2 = [CancelSemanticsAbout(n, subject) EXCEPT !.agents = d]
    BY DEF Emit, d, told, b
  <1>9. /\ DOMAIN n2 = DOMAIN n /\ n2.agents = d
        /\ n2.desk = n.desk /\ n2.focus = n.focus /\ n2.current = n.current /\ n2.drag = n.drag
        /\ n2.shadow = n.shadow /\ n2.shownFocus = n.shownFocus
        /\ n2.shownWorkspace = n.shownWorkspace /\ n2.matchers = n.matchers /\ n2.link = n.link
        /\ n2.outbox = n.outbox /\ n2.text = n.text /\ n2.observations = n.observations
        /\ n2.semantics = {}
    BY <1>8 DEF CancelSemanticsAbout, Sound, ManagerFields
  <1> HIDE DEF n2
  <1>10. SameFace(n, n2)
    BY <1>5, <1>7, <1>9 DEF SameFace
  <1>11. AgentsOK(d)
    <2>1. \A s \in OpenSessions(a) : SessionOK(d.sessions[s])
      <3> TAKE s \in OpenSessions(a)
      <3>1. SessionOK(a.sessions[s])
        BY <1>1 DEF AgentsOK
      <3>2. CASE Observes(n, s, subject) /\ Sub(n, s).on
        <4>1. /\ SubscriptionOK(Queued(Sub(n, s), Stamped(Sequence(n, s) + 1, event[s])))
              /\ \A i \in DOMAIN Queued(Sub(n, s), Stamped(Sequence(n, s) + 1, event[s])).queue :
                    LET x == Queued(Sub(n, s), Stamped(Sequence(n, s) + 1, event[s])).queue[i] IN
                    x.sequence \in 0..(Sequence(n, s) + 1) /\ x.event.kind # "resync_required"
          BY <3>1, <3>2, QueuedFacts, Zenon DEF SessionOK, Sub, Sequence
        <4> DEFINE x == d.sessions[s]
                   u == Queued(Sub(n, s), Stamped(Sequence(n, s) + 1, event[s]))
        <4>2. /\ DOMAIN x = DOMAIN a.sessions[s] /\ x.grant = a.sessions[s].grant
              /\ x.sequence = Sequence(n, s) + 1 /\ x.subscription = u
          BY <1>7, <3>2
        <4>3. Sequence(n, s) \in Nat
          BY <3>1 DEF SessionOK, Sequence
        <4> HIDE DEF x, u
        <4>4. SessionOK(x)
          BY <3>1, <4>1, <4>2, <4>3 DEF SessionOK, u
        <4> QED BY <4>4 DEF x
      <3>3. CASE Observes(n, s, subject) /\ ~ Sub(n, s).on
        <4> DEFINE x == d.sessions[s]
        <4>1. /\ DOMAIN x = DOMAIN a.sessions[s] /\ x.grant = a.sessions[s].grant
              /\ x.sequence = Sequence(n, s) + 1 /\ x.subscription = Sub(n, s)
          BY <1>7, <3>3
        <4>2. Sequence(n, s) \in Nat /\ SubscriptionOK(Sub(n, s))
          BY <3>1 DEF SessionOK, Sequence, Sub
        <4>3. DOMAIN Sub(n, s).queue = {}
          BY <3>3, <4>2, EmptyFacts DEF SubscriptionOK
        <4> HIDE DEF x
        <4>4. SessionOK(x)
          BY <3>1, <4>1, <4>2, <4>3 DEF SessionOK
        <4> QED BY <4>4 DEF x
      <3>4. CASE ~ Observes(n, s, subject)
        BY <1>7, <3>1, <3>4
      <3> QED BY <3>2, <3>3, <3>4
    <2> QED BY <1>1, <1>5, <2>1 DEF AgentsOK
  <1>12. Sound(n2)
    <2>1. DeskOK(n2)
      BY <1>9 DEF Sound, DeskOK, Managed
    <2>2. Scoping(n2)
      BY <1>5, <1>7, <1>9 DEF Sound, Scoping, Managed
    <2> QED BY <1>9, <1>11, <2>1, <2>2 DEF Sound
  <1>13. \A s \in OpenSessions(a) :
            Sequence(n2, s) = d.sessions[s].sequence /\ Sub(n2, s) = d.sessions[s].subscription
    BY <1>9 DEF Sequence, Sub
  <1> QED BY <1>7, <1>9, <1>10, <1>12, <1>13 DEF n2

\* The view of somebody who has read one more event.
Next1(v, event, at) == [Changed(v, event) EXCEPT !.at = at]

\* The invariant after a change that is published.
LEMMA EmitKeeps ==
    ASSUME NEW n0, NEW k0, Ok(n0, k0), NEW n, Sound(n), NEW k, Lively(n, k.lives),
           k.view = k0.view, SameTraffic(n0, n),
           NEW kind, NEW subject, NEW event,
           \A s \in OpenSessions(n.agents) : event[s].kind # "resync_required",
           \A s \in OpenSessions(n.agents) : \A v :
              /\ Fits(n0, s, k0, v) => Fits(n, s, k, v)
              /\ Fits(n0, s, k0, v) /\ Tracks(n0, s, k0, v) =>
                    IF Observes(n, s, subject)
                    THEN /\ "at" \in DOMAIN Changed(v, event[s])
                         /\ Fits(n, s, k, Next1(v, event[s], Sequence(n, s) + 1))
                         /\ Tracks(n, s, k, Next1(v, event[s], Sequence(n, s) + 1))
                    ELSE Tracks(n, s, k, v)
    PROVE  LET n2 == Emit(n, kind, subject, event)
           IN  Ok(n2, k) /\ SameFace(n, n2) /\ n2.outbox = n.outbox
  <1> DEFINE n2 == Emit(n, kind, subject, event)
  <1>1. /\ Sound(n2) /\ SameFace(n, n2) /\ n2.outbox = n.outbox
        /\ \A s \in OpenSessions(n.agents) :
              IF Observes(n, s, subject)
              THEN /\ Sequence(n2, s) = Sequence(n, s) + 1
                   /\ Sub(n2, s) = IF Sub(n, s).on
                                   THEN Queued(Sub(n, s), Stamped(Sequence(n, s) + 1, event[s]))
                                   ELSE Sub(n, s)
              ELSE n2.agents.sessions[s] = n.agents.sessions[s]
    BY EmitFacts
  <1> HIDE DEF n2
  <1>2. Lively(n2, k.lives)
    BY <1>1 DEF Lively, SameFace, Managed
  <1>3. ASSUME NEW s \in Sessions
        PROVE  Linked(n2, s, k.view[s]) /\ Informs(n2, s, k, k.view[s])
    <2>1. Linked(n2, s, k.view[s])
      BY <1>1 DEF Ok, Linked, SameTraffic, SameFace
    <2>2. CASE s \notin OpenSessions(n.agents)
      BY <1>1, <2>1, <2>2 DEF Informs, Attended, SameFace
    <2>3. CASE s \in OpenSessions(n.agents)
      <3>1. Attended(n2, s) => /\ Attended(n0, s) /\ n2.outbox[s] = n0.outbox[s]
                               /\ Sub(n, s) = Sub(n0, s) /\ Sequence(n, s) = Sequence(n0, s)
        BY <1>1, <2>3 DEF SameTraffic, SameFace, Attended, Held
      <3>2. \A v : /\ Fits(n, s, k, v) => Fits(n2, s, k, v)
                   /\ Fits(n, s, k, v) /\ Tracks(n, s, k, v) => Tracks(n2, s, k, v)
        BY <1>1, <2>3, FaceCarries DEF Carries
      <3>3. \A v : Fits(n0, s, k0, v) => Fits(n2, s, k, v)
        BY <2>3, <3>2
      <3>4. Sound(n0) /\ Informs(n0, s, k0, k.view[s])
        BY DEF Ok
      <3>5. CASE ~ Observes(n, s, subject)
        <4>1. Attended(n2, s) => Sub(n2, s) = Sub(n0, s) /\ Sequence(n2, s) = Sequence(n0, s)
          BY <1>1, <2>3, <3>1, <3>5 DEF Sub, Sequence
        <4>2. Carries(n0, k0, n2, k, s)
          BY <2>3, <3>2, <3>3, <3>5 DEF Carries
        <4> QED BY <2>1, <3>1, <3>4, <4>1, <4>2, SameChannel
      <3>6. CASE Observes(n, s, subject) /\ ~ Sub(n, s).on
        <4>1. Attended(n2, s) => Sub(n2, s) = Sub(n0, s) /\ ~ Sub(n0, s).on
          BY <1>1, <2>3, <3>1, <3>6
        <4> QED BY <2>1, <3>1, <3>3, <3>4, <4>1, Unsubscribed
      <3>7. CASE Observes(n, s, subject) /\ Sub(n, s).on
        <4>1. Attended(n2, s) =>
                 /\ Sub(n0, s).on /\ Sequence(n2, s) = Sequence(n0, s) + 1
                 /\ Sub(n2, s) = Queued(Sub(n0, s), Stamped(Sequence(n2, s), event[s]))
          BY <1>1, <2>3, <3>1, <3>7
        <4>2. Sequence(n2, s) = Sequence(n, s) + 1
          BY <1>1, <2>3, <3>7
        <4>3. \A v : LET v2 == [Changed(v, event[s]) EXCEPT !.at = Sequence(n2, s)] IN
                     Fits(n0, s, k0, v) /\ Tracks(n0, s, k0, v)
                        => /\ Fits(n2, s, k, v2) /\ Tracks(n2, s, k, v2)
                           /\ "at" \in DOMAIN Changed(v, event[s])
          BY <2>3, <3>2, <3>7, <4>2 DEF Next1
        <4> QED BY <2>1, <2>3, <3>1, <3>3, <3>4, <4>1, <4>3, EventQueued, Zenon
      <3> QED BY <3>5, <3>6, <3>7
    <2> QED BY <2>2, <2>3
  <1> QED BY <1>1, <1>2, <1>3 DEF Ok, n2

\* Telling everybody something that is no news of the desktop.
LEMMA NoticeKeeps ==
    ASSUME NEW n, NEW k, Ok(n, k), NEW kind, NEW event,
           \A s \in OpenSessions(n.agents) : event[s].kind \in {"human_activity", "session_control"}
    PROVE  LET n2 == Emit(n, kind, NoClient, event)
           IN  Ok(n2, k) /\ SameFace(n, n2) /\ n2.outbox = n.outbox
  <1>1. Sound(n) /\ Lively(n, k.lives) /\ SameTraffic(n, n)
    BY DEF Ok, SameTraffic
  <1>2. ASSUME NEW s \in OpenSessions(n.agents), NEW v, Fits(n, s, k, v)
        PROVE  LET v2 == Next1(v, event[s], Sequence(n, s) + 1)
               IN  /\ "at" \in DOMAIN Changed(v, event[s])
                   /\ Fits(n, s, k, v2) /\ (Tracks(n, s, k, v) => Tracks(n, s, k, v2))
    <2>1. Changed(v, event[s]) = v
      BY DEF Changed
    <2>2. Sequence(n, s) \in Nat
      BY <1>1 DEF Sound, AgentsOK, SessionOK, Sequence
    <2> DEFINE v2 == [v EXCEPT !.at = Sequence(n, s) + 1]
    <2>3. /\ DOMAIN v2 = DOMAIN v /\ v2.lost = v.lost /\ v2.clients = v.clients
          /\ v2.focus = v.focus /\ v2.current = v.current /\ v2.at = Sequence(n, s) + 1
      BY <1>2 DEF Fits, ViewOK, ViewFields
    <2> HIDE DEF v2
    <2>4. Fits(n, s, k, v2)
      BY <1>2, <2>2, <2>3 DEF Fits, ViewOK, Knows, Agrees
    <2>5. Tracks(n, s, k, v) => Tracks(n, s, k, v2)
      BY <2>3 DEF Tracks, Follows, Agrees, FollowsFocus, FollowsWorkspace
    <2>6. "at" \in DOMAIN v
      BY <1>2 DEF Fits, ViewOK, ViewFields
    <2> QED BY <2>1, <2>4, <2>5, <2>6 DEF v2, Next1
  <1>3. \A s \in OpenSessions(n.agents) : event[s].kind # "resync_required"
    OBVIOUS
  <1>4. \A s \in OpenSessions(n.agents) : \A v :
              /\ Fits(n, s, k, v) => Fits(n, s, k, v)
              /\ Fits(n, s, k, v) /\ Tracks(n, s, k, v) =>
                    IF Observes(n, s, NoClient)
                    THEN /\ "at" \in DOMAIN Changed(v, event[s])
                         /\ Fits(n, s, k, Next1(v, event[s], Sequence(n, s) + 1))
                         /\ Tracks(n, s, k, Next1(v, event[s], Sequence(n, s) + 1))
                    ELSE Tracks(n, s, k, v)
    BY <1>2
  <1> QED BY <1>1, <1>3, <1>4, EmitKeeps

\* What is left of a session's queue when its oldest event is taken.
LEMMA PoppedFacts ==
    ASSUME NEW n, Sound(n), NEW s \in OpenSessions(n.agents), HasEvents(n.agents, s)
    PROVE  LET a2 == PopEvent(n.agents, s)
               u == Sub(n, s)
               u2 == a2.sessions[s].subscription
           IN  /\ AgentsOK(a2) /\ a2.visibility = n.agents.visibility
               /\ a2.generation = n.agents.generation /\ OpenSessions(a2) = OpenSessions(n.agents)
               /\ \A t \in OpenSessions(n.agents) \ {s} : a2.sessions[t] = n.agents.sessions[t]
               /\ a2.sessions[s].grant = n.agents.sessions[s].grant
               /\ a2.sessions[s].sequence = Sequence(n, s)
               /\ u2.on = u.on /\ u2.resync \in BOOLEAN /\ ~ u2.resync
               /\ u2.queue = IF u.resync THEN <<>> ELSE Tail(u.queue)
               /\ ~ u.resync => u.queue # <<>>
  <1> DEFINE a == n.agents
             x == a.sessions[s]
             u == x.subscription
             u2 == Popped(u)
             x2 == [x EXCEPT !.subscription = u2]
             a2 == PopEvent(a, s)
  <1>1. AgentsOK(a) /\ SessionOK(x) /\ SubscriptionOK(u)
    BY DEF Sound, AgentsOK, SessionOK
  <1>2. ~ u.resync => u.queue # <<>>
    BY DEF HasEvents
  <1>3. /\ DOMAIN a2 = DOMAIN a /\ a2.visibility = a.visibility /\ a2.generation = a.generation
        /\ DOMAIN a2.sessions = DOMAIN a.sessions
        /\ \A t \in OpenSessions(a) \ {s} : a2.sessions[t] = a.sessions[t]
        /\ a2.sessions[s] = x2
    BY <1>1 DEF PopEvent, AgentsOK, OpenSessions
  <1>4. DOMAIN x2 = DOMAIN x /\ x2.grant = x.grant /\ x2.sequence = x.sequence /\ x2.subscription = u2
    BY <1>1 DEF SessionOK
  <1> HIDE DEF a2, x2
  <1>5. /\ u2.on = u.on /\ u2.resync \in BOOLEAN /\ ~ u2.resync /\ SubscriptionOK(u2)
        /\ u2.queue = IF u.resync THEN <<>> ELSE Tail(u.queue)
    <2>1. CASE u.resync
      <3>1. u2 = [u EXCEPT !.resync = FALSE, !.dropped = 0, !.queue = <<>>]
        BY <2>1 DEF Popped
      <3>2. /\ DOMAIN u2 = DOMAIN u /\ u2.on = u.on /\ u2.kinds = u.kinds /\ u2.dropped = 0
            /\ u2.queue = <<>> /\ u2.resync \in BOOLEAN /\ ~ u2.resync
        BY <1>1, <3>1 DEF SubscriptionOK
      <3> HIDE DEF u2
      <3>3. SubscriptionOK(u2)
        BY <1>1, <3>2, EmptyFacts DEF SubscriptionOK
      <3> QED BY <2>1, <3>2, <3>3
    <2>2. CASE ~ u.resync
      <3>1. u2 = [u EXCEPT !.queue = Tail(@)]
        BY <2>2 DEF Popped
      <3>2. /\ DOMAIN u2 = DOMAIN u /\ u2.on = u.on /\ u2.kinds = u.kinds /\ u2.dropped = u.dropped
            /\ u2.queue = Tail(u.queue) /\ u2.resync = u.resync
        BY <1>1, <3>1 DEF SubscriptionOK
      <3> HIDE DEF u2
      <3>3. IsQueue(u2.queue)
        <4>1. IsQueue(u.queue) /\ u.queue # <<>>
          BY <1>1, <1>2, <2>2 DEF SubscriptionOK
        <4>2. IsQueue(Tail(u.queue))
          BY <4>1, TailFacts, Zenon
        <4> QED BY <3>2, <4>2
      <3>4. SubscriptionOK(u2)
        BY <1>1, <1>2, <2>2, <3>2, <3>3 DEF SubscriptionOK
      <3> QED BY <1>1, <2>2, <3>2, <3>4, Zenon DEF SubscriptionOK
    <2> QED BY <2>1, <2>2
  <1>6. \A i \in DOMAIN u2.queue : u2.queue[i].sequence \in 0..x.sequence
                                   /\ u2.queue[i].event.kind # "resync_required"
    <2>1. CASE u.resync
      BY <1>5, <2>1, EmptyFacts
    <2>2. CASE ~ u.resync
      <3>1. /\ Len(u.queue) \in Nat \ {0} /\ DOMAIN u.queue = 1..Len(u.queue)
            /\ DOMAIN u2.queue = 1..(Len(u.queue) - 1)
            /\ \A i \in 1..(Len(u.queue) - 1) : u2.queue[i] = u.queue[i + 1]
        <4>1. IsQueue(u.queue) /\ u.queue # <<>>
          BY <1>1, <1>2, <2>2 DEF SubscriptionOK
        <4>2. u2.queue = Tail(u.queue)
          BY <1>5, <2>2
        <4> QED BY <4>1, <4>2, TailFacts
      <3>2. ASSUME NEW i \in DOMAIN u2.queue
            PROVE  i + 1 \in DOMAIN u.queue /\ u2.queue[i] = u.queue[i + 1]
        <4>1. i \in 1..(Len(u.queue) - 1)
          BY <3>1, Zenon
        <4>2. i + 1 \in 1..Len(u.queue)
          BY <3>1, <4>1
        <4> QED BY <3>1, <4>1, <4>2, Zenon
      <3> QED BY <1>1, <3>2 DEF SessionOK
    <2> QED BY <2>1, <2>2
  <1> HIDE DEF u2
  <1>7. SessionOK(x2)
    BY <1>1, <1>4, <1>5, <1>6, Zenon DEF SessionOK
  <1>8. AgentsOK(a2)
    BY <1>1, <1>3, <1>7 DEF AgentsOK, OpenSessions
  <1> QED BY <1>2, <1>3, <1>4, <1>5, <1>8 DEF a2, Sub, Sequence, OpenSessions

(* ---- Events on their way ---- *)
\* Only what is on its way to one session changes.
LEMMA OneChannel ==
    ASSUME NEW n, NEW k, Ok(n, k), NEW n2, Sound(n2), SameFace(n, n2),
           NEW s \in OpenSessions(n.agents),
           \A t \in Sessions \ {s} : n2.outbox[t] = n.outbox[t],
           \A t \in OpenSessions(n.agents) \ {s} : n2.agents.sessions[t] = n.agents.sessions[t],
           Informs(n2, s, k, k.view[s])
    PROVE  Ok(n2, k)
  <1>1. Lively(n2, k.lives)
    BY DEF Ok, Lively, SameFace, Managed
  <1>2. ASSUME NEW t \in Sessions
        PROVE  Linked(n2, t, k.view[t]) /\ Informs(n2, t, k, k.view[t])
    <2>1. CASE t = s
      BY <2>1 DEF Ok, Linked, SameFace
    <2>2. CASE t # s
      <3>1. Linked(n2, t, k.view[t])
        BY <2>2 DEF Ok, Linked, SameFace
      <3>2. CASE t \in OpenSessions(n.agents)
        <4>1. Attended(n2, t) => /\ Attended(n, t) /\ n2.outbox[t] = n.outbox[t]
                                 /\ Sub(n2, t).on = Sub(n, t).on
                                 /\ Sub(n2, t).resync = Sub(n, t).resync
                                 /\ Sub(n2, t).queue = Sub(n, t).queue
                                 /\ Sequence(n2, t) = Sequence(n, t)
          BY <2>2, <3>2 DEF SameFace, Attended, Held, Sub, Sequence
        <4>2. Carries(n, k, n2, k, t)
          BY <3>2, FaceCarries
        <4> QED BY <3>1, <4>1, <4>2, SameChannel DEF Ok
      <3>3. CASE t \notin OpenSessions(n.agents)
        BY <3>1, <3>3 DEF Informs, Attended, SameFace
      <3> QED BY <3>2, <3>3
    <2> QED BY <2>1, <2>2
  <1> QED BY <1>1, <1>2 DEF Ok

\* Only the state of the agents and what is on its way has changed.
LEMMA StillSound ==
    ASSUME NEW n, Sound(n), NEW n2, DOMAIN n2 = DOMAIN n, SameFace(n, n2),
           AgentsOK(n2.agents), DOMAIN n2.outbox = Sessions,
           \A s \in Sessions : IsQueue(n2.outbox[s]),
           n2.text = n.text, n2.observations = n.observations, n2.semantics = n.semantics
    PROVE  Sound(n2)
  <1>1. DeskOK(n2)
    BY DEF Sound, SameFace, DeskOK, Managed
  <1>2. Scoping(n2)
    BY DEF Sound, SameFace, Scoping, Managed
  <1> QED BY <1>1, <1>2 DEF Sound, SameFace

\* An event that is handed to the transport stays on its way.
LEMMA DeliveredKeeps ==
    ASSUME NEW n, NEW k, Ok(n, k), NEW s \in OpenSessions(n.agents), HasEvents(n.agents, s)
    PROVE  Ok(Delivered(n, s), k) /\ SameFace(n, Delivered(n, s))
  <1> DEFINE event == NextEvent(n.agents, s)
             frame == [frame |-> "event", event |-> event]
             a2 == PopEvent(n.agents, s)
             n2 == Delivered(n, s)
             u == Sub(n, s)
  <1>1. Sound(n) /\ s \in Sessions /\ AgentsOK(n.agents) /\ SubscriptionOK(u)
    BY Zenon DEF Ok, Sound, AgentsOK, SessionOK, Sub
  <1>2. /\ AgentsOK(a2) /\ a2.visibility = n.agents.visibility
        /\ a2.generation = n.agents.generation /\ OpenSessions(a2) = OpenSessions(n.agents)
        /\ \A t \in OpenSessions(n.agents) \ {s} : a2.sessions[t] = n.agents.sessions[t]
        /\ a2.sessions[s].grant = n.agents.sessions[s].grant
        /\ a2.sessions[s].sequence = Sequence(n, s)
        /\ a2.sessions[s].subscription.on = u.on
        /\ a2.sessions[s].subscription.resync \in BOOLEAN
        /\ ~ a2.sessions[s].subscription.resync
        /\ a2.sessions[s].subscription.queue = IF u.resync THEN <<>> ELSE Tail(u.queue)
        /\ ~ u.resync => u.queue # <<>>
    BY <1>1, PoppedFacts
  <1> HIDE DEF a2
  <1>3. /\ DOMAIN n2 = DOMAIN n /\ n2.agents = a2
        /\ n2.outbox = [n.outbox EXCEPT ![s] = Append(@, frame)]
        /\ n2.desk = n.desk /\ n2.focus = n.focus /\ n2.current = n.current /\ n2.drag = n.drag
        /\ n2.shadow = n.shadow /\ n2.shownFocus = n.shownFocus
        /\ n2.shownWorkspace = n.shownWorkspace /\ n2.matchers = n.matchers /\ n2.link = n.link
        /\ n2.text = n.text /\ n2.observations = n.observations /\ n2.semantics = n.semantics
    BY <1>1 DEF Delivered, Sound, ManagerFields, a2
  <1> HIDE DEF n2
  <1>4. SameFace(n, n2)
    BY <1>2, <1>3 DEF SameFace
  <1>5. /\ DOMAIN n2.outbox = Sessions /\ n2.outbox[s] = Append(n.outbox[s], frame)
        /\ \A t \in Sessions \ {s} : n2.outbox[t] = n.outbox[t]
    BY <1>1, <1>3 DEF Sound
  <1>6. \A t \in Sessions : IsQueue(n2.outbox[t])
    <2> HIDE DEF frame
    <2>1. IsQueue(n2.outbox[s])
      BY <1>1, <1>5, AppendFacts DEF Sound
    <2> QED BY <1>1, <1>5, <2>1, Zenon DEF Sound
  <1>7. Sound(n2)
    BY <1>1, <1>2, <1>3, <1>4, <1>5, <1>6, StillSound, Zenon
  <1>8. Carries(n, k, n2, k, s)
    BY <1>4, FaceCarries
  <1>9. Attended(n2, s) => Attended(n, s)
    BY <1>4 DEF SameFace, Attended, Held
  <1>10. /\ Sub(n2, s).on = u.on /\ Sub(n2, s).resync \in BOOLEAN /\ ~ Sub(n2, s).resync
         /\ Sub(n2, s).queue = IF u.resync THEN <<>> ELSE Tail(u.queue)
         /\ Sequence(n2, s) = Sequence(n, s)
    BY <1>2, <1>3 DEF Sub, Sequence
  <1>11. Informs(n, s, k, k.view[s])
    BY <1>1 DEF Ok
  <1>12. Informs(n2, s, k, k.view[s])
    <2>1. CASE u.resync
      <3>1. event.event.kind = "resync_required"
        BY <2>1 DEF NextEvent, Stamped, ResyncRequired, Sub
      <3> HIDE DEF event
      <3> QED BY <1>1, <1>5, <1>8, <1>9, <1>10, <1>11, <2>1, <3>1, ResyncSent
    <2>2. CASE ~ u.resync
      <3>1. event = Head(u.queue)
        BY <2>2 DEF NextEvent, Sub
      <3>2. Sub(n2, s).resync = u.resync
        BY <1>1, <1>10, <2>2 DEF SubscriptionOK
      <3> HIDE DEF event
      <3> QED BY <1>1, <1>2, <1>5, <1>8, <1>9, <1>10, <1>11, <2>2, <3>1, <3>2, EventSent, Zenon
    <2> QED BY <2>1, <2>2
  <1>13. Ok(n2, k)
    BY <1>2, <1>3, <1>4, <1>5, <1>7, <1>12, OneChannel
  <1> QED BY <1>4, <1>13 DEF n2

\* An event that is not accepted is put back where it was.
LEMMA UndeliveredKeeps ==
    ASSUME NEW n, NEW k, Ok(n, k), NEW s \in OpenSessions(n.agents), HasEvents(n.agents, s)
    PROVE  Ok(Undelivered(n, s), k) /\ SameFace(n, Undelivered(n, s))
  <1> DEFINE event == NextEvent(n.agents, s)
             a1 == PopEvent(n.agents, s)
             a2 == RequeueEvent(a1, s, event)
             n2 == Undelivered(n, s)
             u == Sub(n, s)
             u1 == a1.sessions[s].subscription
             u2 == a2.sessions[s].subscription
  <1>1. /\ Sound(n) /\ s \in Sessions /\ AgentsOK(n.agents)
        /\ SessionOK(n.agents.sessions[s]) /\ SubscriptionOK(u)
    BY Zenon DEF Ok, Sound, AgentsOK, SessionOK, Sub
  <1>2. /\ AgentsOK(a1) /\ a1.visibility = n.agents.visibility
        /\ a1.generation = n.agents.generation /\ OpenSessions(a1) = OpenSessions(n.agents)
        /\ \A t \in OpenSessions(n.agents) \ {s} : a1.sessions[t] = n.agents.sessions[t]
        /\ a1.sessions[s].grant = n.agents.sessions[s].grant
        /\ a1.sessions[s].sequence = Sequence(n, s)
        /\ u1.on = u.on /\ u1.resync \in BOOLEAN /\ ~ u1.resync
        /\ u1.queue = IF u.resync THEN <<>> ELSE Tail(u.queue)
        /\ ~ u.resync => u.queue # <<>>
    BY <1>1, PoppedFacts
  <1> HIDE DEF a1
  <1>3. SessionOK(a1.sessions[s]) /\ SubscriptionOK(u1)
    BY <1>2, Zenon DEF AgentsOK, SessionOK
  <1>4. /\ DOMAIN a2 = DOMAIN a1 /\ a2.visibility = a1.visibility /\ a2.generation = a1.generation
        /\ DOMAIN a2.sessions = DOMAIN a1.sessions
        /\ \A t \in OpenSessions(a1) \ {s} : a2.sessions[t] = a1.sessions[t]
        /\ a2.sessions[s] = [a1.sessions[s] EXCEPT !.subscription = Requeued(u1, event)]
    BY <1>2, Zenon DEF RequeueEvent, AgentsOK, OpenSessions
  <1> HIDE DEF a2
  <1>5. /\ DOMAIN a2.sessions[s] = DOMAIN a1.sessions[s]
        /\ a2.sessions[s].grant = a1.sessions[s].grant
        /\ a2.sessions[s].sequence = a1.sessions[s].sequence
        /\ u2 = Requeued(u1, event)
    BY <1>3, <1>4 DEF SessionOK
  <1>6. /\ u2.on = u.on /\ u2.resync = u.resync /\ u2.queue = u.queue /\ SubscriptionOK(u2)
    <2>1. CASE u.resync
      <3>1. event.event.kind = "resync_required" /\ event.event.dropped = u.dropped
        BY <2>1 DEF NextEvent, Stamped, ResyncRequired, Sub
      <3>2. u2 = [u1 EXCEPT !.resync = TRUE, !.dropped = u.dropped]
        BY <1>5, <3>1 DEF Requeued, Missing
      <3>3. /\ DOMAIN u2 = DOMAIN u1 /\ u2.on = u1.on /\ u2.kinds = u1.kinds /\ u2.dropped = u.dropped
            /\ u2.resync \in BOOLEAN /\ u2.resync /\ u2.queue = u1.queue
        BY <1>3, <3>2 DEF SubscriptionOK
      <3>4. u1.queue = <<>> /\ u.queue = <<>> /\ u1.on
        BY <1>1, <1>2, <2>1 DEF SubscriptionOK
      <3> HIDE DEF u2, u1
      <3>5. SubscriptionOK(u2)
        BY <1>1, <1>3, <3>3, <3>4 DEF SubscriptionOK
      <3> QED BY <1>1, <1>2, <2>1, <3>3, <3>4, <3>5 DEF SubscriptionOK
    <2>2. CASE ~ u.resync
      <3>1. IsQueue(u.queue) /\ u.queue # <<>> /\ event = Head(u.queue)
        BY <1>1, <1>2, <2>2 DEF NextEvent, Sub, SubscriptionOK
      <3>2. /\ 1 \in DOMAIN u.queue /\ event = u.queue[1]
            /\ <<event>> \o Tail(u.queue) = u.queue
        BY <3>1, TailFacts
      <3>3. event.event.kind # "resync_required"
        BY <1>1, <3>2, Zenon DEF SessionOK, Sub
      <3> HIDE DEF event
      <3>4. u2 = [u1 EXCEPT !.queue = <<event>> \o @]
        BY <1>5, <3>3 DEF Requeued
      <3>5. /\ DOMAIN u2 = DOMAIN u1 /\ u2.on = u1.on /\ u2.kinds = u1.kinds /\ u2.dropped = u1.dropped
            /\ u2.resync = u1.resync /\ u2.queue = u.queue
        BY <1>2, <1>3, <2>2, <3>2, <3>4 DEF SubscriptionOK
      <3> HIDE DEF u2, u1
      <3>6. SubscriptionOK(u2)
        BY <1>1, <1>2, <1>3, <2>2, <3>5 DEF SubscriptionOK
      <3> QED BY <1>1, <1>2, <1>3, <2>2, <3>5, <3>6 DEF SubscriptionOK
    <2> QED BY <2>1, <2>2
  <1> HIDE DEF u2, u1
  <1>7. AgentsOK(a2)
    <2>1. SessionOK(a2.sessions[s])
      BY <1>1, <1>2, <1>3, <1>5, <1>6, Zenon DEF SessionOK, Sub, Sequence, u2
    <2> QED BY <1>2, <1>4, <2>1 DEF AgentsOK, OpenSessions
  <1>8. /\ DOMAIN n2 = DOMAIN n /\ n2.agents = a2
        /\ n2.outbox = n.outbox
        /\ n2.desk = n.desk /\ n2.focus = n.focus /\ n2.current = n.current /\ n2.drag = n.drag
        /\ n2.shadow = n.shadow /\ n2.shownFocus = n.shownFocus
        /\ n2.shownWorkspace = n.shownWorkspace /\ n2.matchers = n.matchers /\ n2.link = n.link
        /\ n2.text = n.text /\ n2.observations = n.observations /\ n2.semantics = n.semantics
    BY <1>1 DEF Undelivered, Sound, ManagerFields, a2, a1
  <1> HIDE DEF n2
  <1>9. SameFace(n, n2)
    BY <1>2, <1>4, <1>5, <1>8, Zenon DEF SameFace, OpenSessions
  <1>10. Sound(n2)
    BY <1>1, <1>7, <1>8, <1>9, StillSound, Zenon DEF Sound
  <1>11. Carries(n, k, n2, k, s)
    BY <1>9, FaceCarries
  <1>12. Attended(n2, s) => /\ Attended(n, s) /\ n2.outbox[s] = n.outbox[s]
                            /\ Sub(n2, s).on = u.on /\ Sub(n2, s).resync = u.resync
                            /\ Sub(n2, s).queue = u.queue /\ Sequence(n2, s) = Sequence(n, s)
    BY <1>2, <1>5, <1>6, <1>8, <1>9 DEF SameFace, Attended, Held, Sub, Sequence, u2
  <1>13. Informs(n, s, k, k.view[s])
    BY <1>1 DEF Ok
  <1>14. Informs(n2, s, k, k.view[s])
    BY <1>1, <1>11, <1>12, <1>13, SameChannel
  <1>15. \A t \in OpenSessions(n.agents) \ {s} : n2.agents.sessions[t] = n.agents.sessions[t]
    BY <1>2, <1>4, <1>8
  <1>16. Ok(n2, k)
    BY <1>8, <1>9, <1>10, <1>14, <1>15, OneChannel
  <1> QED BY <1>9, <1>16 DEF n2

\* A desktop looks like itself.
LEMMA SameFaceRefl ==
    ASSUME NEW n PROVE SameFace(n, n)
  BY DEF SameFace

\* Looking the same is transitive.
LEMMA SameFaceTrans ==
    ASSUME NEW n, NEW n2, NEW n3, SameFace(n, n2), SameFace(n2, n3)
    PROVE  SameFace(n, n3)
  BY DEF SameFace

\* The invariant is kept, and the desktop and what is to be seen of it are as they were.
Kept(n, k, n2) == Ok(n2, k) /\ SameFace(n, n2)

\* Handing the events of one session to the transport, and those of all.
Forwarding ==
    INSTANCE FoldFacts WITH
        Op <- LAMBDA env, i, n :
                  IF HasEvents(n.agents, env.session) /\ Accepts(n, env.session)
                  THEN Delivered(n, env.session) ELSE n,
        Pick <- LAMBDA T : CHOOSE i \in T : TRUE,
        Holds <- LAMBDA env, i, n : Kept(env.first, env.known, n)

\* flush_agent_events for one session keeps the invariant.
LEMMA FlushSessionKeeps ==
    ASSUME NEW n, NEW k, Ok(n, k), NEW s \in OpenSessions(n.agents)
    PROVE  Kept(n, k, FlushSession(n, s))
  <1> DEFINE env == [first |-> n, session |-> s, known |-> k]
             last == Forwarding!Loop(env, n, WriterQueue)
  <1>1. env.first = n /\ env.session = s /\ env.known = k
    OBVIOUS
  <1>2. FlushSession(n, s) = IF HasEvents(last.agents, s) THEN Undelivered(last, s) ELSE last
    BY DEF FlushSession, Forwarding!Loop
  <1> HIDE DEF env
  <1>3. ASSUME NEW n1, Kept(n, k, n1)
        PROVE  Kept(n, k, IF HasEvents(n1.agents, s) /\ Accepts(n1, s) THEN Delivered(n1, s) ELSE n1)
    <2>1. CASE HasEvents(n1.agents, s)
      <3>1. Ok(n1, k) /\ SameFace(n, n1) /\ s \in OpenSessions(n1.agents)
        BY <1>3 DEF Kept, SameFace
      <3>2. Ok(Delivered(n1, s), k) /\ SameFace(n1, Delivered(n1, s))
        BY <2>1, <3>1, DeliveredKeeps
      <3>3. Kept(n, k, Delivered(n1, s))
        BY <3>1, <3>2, SameFaceTrans DEF Kept
      <3> QED BY <1>3, <3>3
    <2>2. CASE ~ HasEvents(n1.agents, s)
      BY <1>3, <2>2
    <2> QED BY <2>1, <2>2
  <1>4. Kept(n, k, last)
    <2>1. WriterQueue \in Nat
      BY WriterAssumption
    <2>2. Kept(env.first, env.known, n)
      BY <1>1, SameFaceRefl DEF Kept
    <2>3. \A i \in 1..WriterQueue : \A n1 : Kept(env.first, env.known, n1) =>
              Kept(env.first, env.known,
                   IF HasEvents(n1.agents, env.session) /\ Accepts(n1, env.session)
                   THEN Delivered(n1, env.session) ELSE n1)
      BY <1>1, <1>3
    <2>4. Kept(env.first, env.known, last)
      BY <2>1, <2>2, <2>3, Forwarding!LoopKeeps
    <2> QED BY <1>1, <2>4
  <1> HIDE DEF last
  <1>5. Ok(last, k) /\ SameFace(n, last) /\ s \in OpenSessions(last.agents)
    BY <1>4 DEF Kept, SameFace
  <1>6. HasEvents(last.agents, s) => Kept(n, k, Undelivered(last, s))
    BY <1>5, UndeliveredKeeps, SameFaceTrans DEF Kept
  <1> QED BY <1>2, <1>4, <1>6

Flushing ==
    INSTANCE FoldFacts WITH
        Op <- LAMBDA env, s, n : FlushSession(n, s),
        Pick <- LAMBDA T : CHOOSE s \in T : TRUE,
        Holds <- LAMBDA env, T, n : Kept(env.first, env.known, n)

\* flush_agent_events keeps the invariant.
LEMMA FlushEventsKeeps ==
    ASSUME NEW n, NEW k, Ok(n, k)
    PROVE  Kept(n, k, FlushEvents(n))
  <1> DEFINE sessions == OpenSessions(n.agents)
             env == [first |-> n, known |-> k]
  <1>0. sessions \subseteq Sessions
    BY DEF Ok, Sound, AgentsOK
  <1>1. Flushing!IsFiniteSet(sessions)
    <2>1. IsFiniteSet(sessions)
      BY <1>0, FiniteAssumption, FS_Subset
    <2> QED BY <2>1 DEF IsFiniteSet, Flushing!IsFiniteSet
  <1>2. Flushing!Picks(sessions)
    BY DEF Flushing!Picks
  <1>3. env.first = n /\ env.known = k
    OBVIOUS
  <1>4. FlushEvents(n) = Flushing!Fold(env, n, sessions)
    BY DEF FlushEvents, FoldSet, MapThenFoldSet, Flushing!Fold
  <1> HIDE DEF env
  <1>5. Kept(env.first, env.known, n)
    BY <1>3, SameFaceRefl DEF Kept
  <1>6. ASSUME NEW T \in SUBSET sessions, NEW n1, T # {}, Kept(n, k, n1)
        PROVE  Kept(n, k, FlushSession(n1, CHOOSE s \in T : TRUE))
    <2> DEFINE s == CHOOSE s \in T : TRUE
    <2>1. Ok(n1, k) /\ SameFace(n, n1) /\ s \in OpenSessions(n1.agents)
      BY <1>6 DEF Kept, SameFace
    <2>2. Kept(n1, k, FlushSession(n1, s))
      BY <2>1, FlushSessionKeeps
    <2> QED BY <2>1, <2>2, SameFaceTrans DEF Kept
  <1>7. \A T \in SUBSET sessions : \A n1 :
           T # {} /\ Kept(env.first, env.known, n1) =>
              Kept(env.first, env.known, FlushSession(n1, CHOOSE s \in T : TRUE))
    BY <1>3, <1>6
  <1> HIDE DEF sessions
  <1>8. Kept(env.first, env.known, Flushing!Fold(env, n, sessions))
    BY <1>1, <1>2, <1>5, <1>7, Flushing!FoldKeeps
  <1> QED BY <1>3, <1>4, <1>8

(* ---- What a step changes for one session ---- *)
\* Nothing changes but for one session.
ElseSame(n, n2, s) ==
    /\ n2.desk = n.desk /\ n2.focus = n.focus /\ n2.current = n.current /\ n2.drag = n.drag
    /\ n2.shadow = n.shadow /\ n2.shownFocus = n.shownFocus
    /\ n2.shownWorkspace = n.shownWorkspace
    /\ n2.agents.visibility = n.agents.visibility
    /\ n2.agents.generation = n.agents.generation
    /\ \A t \in Sessions \ {s} :
          /\ n2.link[t] = n.link[t] /\ n2.outbox[t] = n.outbox[t]
          /\ t \in OpenSessions(n2.agents) <=> t \in OpenSessions(n.agents)
          /\ t \in OpenSessions(n.agents) => n2.agents.sessions[t] = n.agents.sessions[t]

\* The same to be seen, whatever the transport has done.
SameSights(n, n2) ==
    /\ n2.desk = n.desk /\ n2.focus = n.focus /\ n2.current = n.current /\ n2.drag = n.drag
    /\ n2.shadow = n.shadow /\ n2.shownFocus = n.shownFocus
    /\ n2.shownWorkspace = n.shownWorkspace
    /\ n2.agents.visibility = n.agents.visibility

\* The same is known of all sessions but one.
SameKnown(k, k2, s) ==
    /\ k2.lives = k.lives /\ k2.client = k.client /\ k2.fields = k.fields /\ k2.pending = k.pending
    /\ \A t \in Sessions \ {s} :
          k2.view[t] = k.view[t] /\ k2.doubt[t] = k.doubt[t] /\ k2.ever[t] = k.ever[t]

\* The invariant but for one session.
OkBut(n, k, but) ==
    /\ Sound(n)
    /\ Lively(n, k.lives)
    /\ \A s \in Sessions \ but : Linked(n, s, k.view[s]) /\ Informs(n, s, k, k.view[s])

\* The invariant of all sessions but one and of that one make the invariant.
LEMMA ElseJoins ==
    ASSUME NEW n, NEW k, NEW s, OkBut(n, k, {s}), NEW n2, Sound(n2), ElseSame(n, n2, s),
           NEW k2, SameKnown(k, k2, s),
           s \in Sessions => Linked(n2, s, k2.view[s]) /\ Informs(n2, s, k2, k2.view[s])
    PROVE  Ok(n2, k2)
  <1>1. Lively(n2, k2.lives)
    BY DEF OkBut, Lively, ElseSame, SameKnown, Managed
  <1>2. ASSUME NEW t \in Sessions, t # s
        PROVE  Linked(n2, t, k2.view[t]) /\ Informs(n2, t, k2, k2.view[t])
    <2>1. Linked(n2, t, k2.view[t])
      BY <1>2 DEF OkBut, Linked, ElseSame, SameKnown
    <2>2. CASE t \in OpenSessions(n.agents)
      <3>1. Attended(n2, t) => /\ Attended(n, t) /\ n2.outbox[t] = n.outbox[t]
                               /\ Sub(n2, t).on = Sub(n, t).on
                               /\ Sub(n2, t).resync = Sub(n, t).resync
                               /\ Sub(n2, t).queue = Sub(n, t).queue
                               /\ Sequence(n2, t) = Sequence(n, t)
        BY <1>2, <2>2 DEF ElseSame, Attended, Held, Sub, Sequence
      <3>2. Carries(n, k, n2, k2, t)
        <4>1. \A c : Perceives(n2.agents, t, c) <=> Perceives(n.agents, t, c)
          BY <1>2, <2>2 DEF ElseSame, Perceives
        <4>2. \A c : Readable(n2, t, c) = Readable(n, t, c)
          BY <1>2, <2>2 DEF ElseSame, Readable
        <4>3. \A c, v, F : Agrees(n2, t, c, v, F) <=> Agrees(n, t, c, v, F)
          BY <4>2 DEF Agrees, ElseSame
        <4>4. \A c : Asked(k2, c) = Asked(k, c)
          BY DEF Asked, SameKnown
        <4>5. \A c, v : Knows(n2, t, k2, c, v) <=> Knows(n, t, k, c, v)
          BY <1>2, <4>1, <4>3, <4>4 DEF Knows, ElseSame, SameKnown, Managed
        <4>6. \A c, v : Follows(n2, t, k2, c, v) <=> Follows(n, t, k, c, v)
          BY <1>2, <4>1, <4>3, <4>4 DEF Follows, ElseSame, SameKnown
        <4>7. \A v : FollowsFocus(n2, t, k2, v) <=> FollowsFocus(n, t, k, v)
          BY <1>2, <4>1 DEF FollowsFocus, ElseSame, SameKnown
        <4>8. \A v : FollowsWorkspace(n2, t, k2, v) <=> FollowsWorkspace(n, t, k, v)
          BY <1>2 DEF FollowsWorkspace, ElseSame, SameKnown
        <4> QED BY <4>5, <4>6, <4>7, <4>8 DEF Carries, Fits, Tracks
      <3>3. Sound(n) /\ Informs(n, t, k, k2.view[t])
        BY <1>2 DEF OkBut, SameKnown
      <3> QED BY <2>1, <3>1, <3>2, <3>3, SameChannel
    <2>3. CASE t \notin OpenSessions(n.agents)
      BY <1>2, <2>1, <2>3 DEF Informs, Attended, ElseSame
    <2> QED BY <2>2, <2>3
  <1> QED BY <1>1, <1>2 DEF Ok

\* The invariant after a step that changes what is known of one session.
LEMMA ElseKeeps ==
    ASSUME NEW n, NEW k, Ok(n, k), NEW n2, Sound(n2), NEW s, ElseSame(n, n2, s),
           NEW k2, SameKnown(k, k2, s),
           s \in Sessions => Linked(n2, s, k2.view[s]) /\ Informs(n2, s, k2, k2.view[s])
    PROVE  Ok(n2, k2)
  BY ElseJoins DEF Ok, OkBut

\* A frame that tells nothing of the desktop is sent to a session that was greeted.
LEMMA SendKeeps ==
    ASSUME NEW n, NEW k, Ok(n, k), NEW s \in Sessions, n.link[s] = "greeted",
           NEW frame, frame.frame # "event", ~ IsSnapshot(frame)
    PROVE  /\ Ok(Send(n, s, frame), k) /\ SameSights(n, Send(n, s, frame))
           /\ Send(n, s, frame).agents = n.agents
  <1> DEFINE n2 == Send(n, s, frame)
  <1>1. Sound(n) /\ Held(n, s)
    BY DEF Ok, Held
  <1>2. CASE HasRoom(n, s)
    <2>1. n2 = [n EXCEPT !.outbox[s] = Append(@, frame)]
      BY <1>1, <1>2 DEF Send
    <2> HIDE DEF n2
    <2>2. /\ DOMAIN n2 = DOMAIN n /\ n2.outbox = [n.outbox EXCEPT ![s] = Append(@, frame)]
          /\ n2.agents = n.agents
          /\ n2.desk = n.desk /\ n2.focus = n.focus /\ n2.current = n.current /\ n2.drag = n.drag
          /\ n2.shadow = n.shadow /\ n2.shownFocus = n.shownFocus
          /\ n2.shownWorkspace = n.shownWorkspace /\ n2.matchers = n.matchers /\ n2.link = n.link
          /\ n2.text = n.text /\ n2.observations = n.observations /\ n2.semantics = n.semantics
      BY <1>1, <2>1 DEF Sound, ManagerFields
    <2>3. /\ DOMAIN n2.outbox = Sessions /\ n2.outbox[s] = Append(n.outbox[s], frame)
          /\ \A t \in Sessions \ {s} : n2.outbox[t] = n.outbox[t]
      BY <1>1, <2>2 DEF Sound
    <2>4. \A t \in Sessions : IsQueue(n2.outbox[t])
      <3>1. IsQueue(n2.outbox[s])
        BY <1>1, <2>3, AppendFacts DEF Sound
      <3> QED BY <1>1, <2>3, <3>1, Zenon DEF Sound
    <2>5. SameFace(n, n2)
      BY <2>2 DEF SameFace
    <2>6. Sound(n2)
      BY <1>1, <2>2, <2>3, <2>4, <2>5, StillSound, Zenon DEF Sound
    <2>7. Attended(n2, s) => /\ Attended(n, s) /\ Sub(n2, s) = Sub(n, s)
                             /\ Sequence(n2, s) = Sequence(n, s)
      BY <2>2 DEF Attended, Held, Sub, Sequence
    <2>8. CASE s \in OpenSessions(n.agents)
      <3>1. Carries(n, k, n2, k, s)
        BY <2>5, <2>8, FaceCarries
      <3>2. Informs(n2, s, k, k.view[s])
        BY <1>1, <2>3, <2>7, <3>1, NeutralSent DEF Ok
      <3>3. Ok(n2, k)
        BY <2>2, <2>3, <2>5, <2>6, <2>8, <3>2, OneChannel
      <3> QED BY <2>2, <3>3, <2>5 DEF n2, SameFace, SameSights
    <2>9. CASE s \notin OpenSessions(n.agents)
      <3>1. ElseSame(n, n2, s) /\ SameKnown(k, k, s)
        BY <2>2, <2>3 DEF ElseSame, SameKnown
      <3>2. Linked(n2, s, k.view[s])
        BY <2>2 DEF Linked
      <3>3. Informs(n2, s, k, k.view[s])
        BY <2>2, <2>9 DEF Informs, Attended
      <3>4. Ok(n2, k)
        BY <2>6, <3>1, <3>2, <3>3, ElseKeeps
      <3> QED BY <2>2, <3>4, <2>5 DEF n2, SameFace, SameSights
    <2> QED BY <2>8, <2>9
  <1>3. CASE ~ HasRoom(n, s)
    <2> DEFINE kept == n.outbox[s]
    <2>1. n2 = [n EXCEPT !.link[s] = "ending", !.outbox[s] = kept]
      BY <1>1, <1>3 DEF Send, CloseLink
    <2> HIDE DEF n2
    <2>2. /\ DOMAIN n2 = DOMAIN n /\ n2.outbox = [n.outbox EXCEPT ![s] = kept]
          /\ n2.agents = n.agents
          /\ n2.desk = n.desk /\ n2.focus = n.focus /\ n2.current = n.current /\ n2.drag = n.drag
          /\ n2.shadow = n.shadow /\ n2.shownFocus = n.shownFocus
          /\ n2.shownWorkspace = n.shownWorkspace /\ n2.matchers = n.matchers
          /\ n2.link = [n.link EXCEPT ![s] = "ending"]
          /\ n2.text = n.text /\ n2.observations = n.observations /\ n2.semantics = n.semantics
      BY <1>1, <2>1 DEF Sound, ManagerFields
    <2>2a. DOMAIN n2.outbox = Sessions /\ \A t \in Sessions : n2.outbox[t] = n.outbox[t]
      BY <1>1, <2>2 DEF Sound
    <2>3. Sound(n2)
      BY <1>1, <2>2, <2>2a DEF Sound, DeskOK, Managed, Scoping
    <2>4. n2.link[s] = "ending" /\ \A t \in Sessions \ {s} : n2.link[t] = n.link[t]
      BY <1>1, <2>2 DEF Sound
    <2>5. ElseSame(n, n2, s) /\ SameKnown(k, k, s)
      BY <2>2, <2>2a, <2>4 DEF ElseSame, SameKnown
    <2>6. Linked(n2, s, k.view[s]) /\ Informs(n2, s, k, k.view[s])
      BY <2>4 DEF Linked, Informs, Attended, Held
    <2>7. Ok(n2, k)
      BY <2>3, <2>5, <2>6, ElseKeeps
    <2>8. SameSights(n, n2)
      BY <2>2 DEF SameSights
    <2> QED BY <2>2, <2>7, <2>8 DEF n2
  <1> QED BY <1>2, <1>3

\* A session goes.
LEMMA CloseSessionKeeps ==
    ASSUME NEW n, NEW k, Ok(n, k), NEW s \in Sessions
    PROVE  LET n2 == CloseSession(n, s)
           IN  /\ Ok(n2, k) /\ SameSights(n, n2) /\ n2.outbox = n.outbox /\ n2.link = n.link
               /\ DOMAIN n2 = DOMAIN n
               /\ OpenSessions(n2.agents) = OpenSessions(n.agents) \ {s}
               /\ \A t \in OpenSessions(n2.agents) : n2.agents.sessions[t] = n.agents.sessions[t]
  <1> DEFINE n2 == CloseSession(n, s)
             a == n.agents
             a2 == Close(a, s)
  <1>1. Sound(n) /\ AgentsOK(a)
    BY DEF Ok, Sound
  <1>2. /\ DOMAIN a2 = DOMAIN a /\ a2.visibility = a.visibility /\ a2.generation = a.generation
        /\ DOMAIN a2.sessions = DOMAIN a.sessions \ {s}
        /\ \A t \in DOMAIN a.sessions \ {s} : a2.sessions[t] = a.sessions[t]
    BY <1>1 DEF Close, AgentsOK
  <1> HIDE DEF a2
  <1>3. AgentsOK(a2)
    BY <1>1, <1>2 DEF AgentsOK, OpenSessions
  <1>4. /\ DOMAIN n2 = DOMAIN n /\ n2.outbox = n.outbox /\ n2.agents = a2
        /\ n2.desk = n.desk /\ n2.focus = n.focus /\ n2.current = n.current /\ n2.drag = n.drag
        /\ n2.shadow = n.shadow /\ n2.shownFocus = n.shownFocus
        /\ n2.shownWorkspace = n.shownWorkspace /\ n2.link = n.link
        /\ n2.matchers = [n.matchers EXCEPT ![s] = Clients]
        /\ n2.text = NoText /\ n2.observations = {} /\ n2.semantics = {}
    <2>1. n.text = NoText /\ n.observations = {} /\ n.semantics = {} /\ ~ n.text.on
      BY <1>1 DEF Sound, NoText
    <2>2. n2 = [n EXCEPT !.text = NoText,
                         !.observations = {} \ OfSession({}, s),
                         !.semantics = {} \ OfSession({}, s),
                         !.agents = a2,
                         !.matchers[s] = Clients,
                         !.consented = @ \ {s}]
      BY <2>1 DEF CloseSession, a2
    <2> HIDE DEF n2
    <2> QED BY <1>1, <2>2 DEF Sound, ManagerFields, a2
  <1> HIDE DEF n2
  <1>5. n2.matchers \in [Sessions -> SUBSET Clients]
        /\ \A t \in Sessions \ {s} : n2.matchers[t] = n.matchers[t]
    BY <1>1, <1>4 DEF Sound
  <1>6. Sound(n2)
    <2>1. DeskOK(n2)
      BY <1>1, <1>4 DEF Sound, DeskOK, Managed
    <2>2. Scoping(n2)
      BY <1>1, <1>2, <1>4, <1>5 DEF Sound, Scoping, Managed, OpenSessions, AgentsOK
    <2> QED BY <1>1, <1>3, <1>4, <1>5, <2>1, <2>2 DEF Sound
  <1>7. ElseSame(n, n2, s) /\ SameKnown(k, k, s)
    BY <1>2, <1>4 DEF ElseSame, SameKnown, OpenSessions
  <1>8. Linked(n2, s, k.view[s]) /\ Informs(n2, s, k, k.view[s])
    BY <1>2, <1>4 DEF Ok, Linked, Informs, Attended, OpenSessions
  <1>9. Ok(n2, k)
    BY <1>6, <1>7, <1>8, ElseKeeps
  <1> QED BY <1>2, <1>4, <1>9 DEF n2, SameSights, OpenSessions

\* A session that the transport has lost.
LEMMA DisconnectKeeps ==
    ASSUME NEW n, NEW k, Ok(n, k), NEW s \in Sessions
    PROVE  LET n2 == [CloseSession(n, s) EXCEPT !.link[s] = "gone", !.outbox[s] = <<>>]
           IN  Ok(n2, k) /\ SameSights(n, n2)
  <1> DEFINE n1 == CloseSession(n, s)
             n2 == [n1 EXCEPT !.link[s] = "gone", !.outbox[s] = <<>>]
  <1>1. Ok(n1, k) /\ SameSights(n, n1)
    BY CloseSessionKeeps
  <1> HIDE DEF n1
  <1>2. Sound(n1)
    BY <1>1 DEF Ok
  <1>3. /\ DOMAIN n2 = DOMAIN n1 /\ n2.agents = n1.agents
        /\ n2.outbox = [n1.outbox EXCEPT ![s] = <<>>]
        /\ n2.desk = n1.desk /\ n2.focus = n1.focus /\ n2.current = n1.current /\ n2.drag = n1.drag
        /\ n2.shadow = n1.shadow /\ n2.shownFocus = n1.shownFocus
        /\ n2.shownWorkspace = n1.shownWorkspace /\ n2.link = [n1.link EXCEPT ![s] = "gone"]
        /\ n2.matchers = n1.matchers
        /\ n2.text = n1.text /\ n2.observations = n1.observations /\ n2.semantics = n1.semantics
    BY <1>2 DEF Sound, ManagerFields
  <1> HIDE DEF n2
  <1>4. /\ DOMAIN n2.outbox = Sessions /\ n2.outbox[s] = <<>>
        /\ DOMAIN n2.link = Sessions /\ n2.link[s] = "gone"
        /\ \A t \in Sessions \ {s} : n2.outbox[t] = n1.outbox[t] /\ n2.link[t] = n1.link[t]
    BY <1>2, <1>3 DEF Sound
  <1>5. \A t \in Sessions : IsQueue(n2.outbox[t])
    BY <1>2, <1>4, EmptyFacts DEF Sound
  <1>6. Sound(n2)
    BY <1>2, <1>3, <1>4, <1>5 DEF Sound, DeskOK, Managed, Scoping
  <1>7. ElseSame(n1, n2, s) /\ SameKnown(k, k, s)
    BY <1>3, <1>4 DEF ElseSame, SameKnown
  <1>8. Linked(n2, s, k.view[s]) /\ Informs(n2, s, k, k.view[s])
    BY <1>4 DEF Linked, Informs, Attended, Held
  <1>9. Ok(n2, k)
    BY <1>1, <1>6, <1>7, <1>8, ElseKeeps
  <1>10. SameSights(n, n2)
    BY <1>1, <1>3 DEF SameSights
  <1> QED BY <1>9, <1>10 DEF n2, n1

\* A session that has broken the protocol.
LEMMA FaultKeeps ==
    ASSUME NEW n, NEW k, Ok(n, k), NEW s \in Sessions
    PROVE  Ok(Fault(n, s), k) /\ SameSights(n, Fault(n, s))
  <1> DEFINE n1 == CloseLink(n, s)
             box == IF HasRoom(n, s) THEN Append(n.outbox[s], [frame |-> "goodbye"]) ELSE n.outbox[s]
  <1>1. Sound(n)
    BY DEF Ok
  <1>2. Ok(n1, k) /\ SameSights(n, n1)
    <2>1. CASE Held(n, s)
      <3>1. n1 = [n EXCEPT !.link[s] = "ending", !.outbox[s] = box]
        BY <2>1 DEF CloseLink
      <3>2. IsQueue(box)
        BY <1>1, AppendFacts DEF Sound
      <3> HIDE DEF n1, box
      <3>3. /\ DOMAIN n1 = DOMAIN n /\ n1.agents = n.agents
            /\ n1.outbox = [n.outbox EXCEPT ![s] = box]
            /\ n1.desk = n.desk /\ n1.focus = n.focus /\ n1.current = n.current /\ n1.drag = n.drag
            /\ n1.shadow = n.shadow /\ n1.shownFocus = n.shownFocus
            /\ n1.shownWorkspace = n.shownWorkspace /\ n1.link = [n.link EXCEPT ![s] = "ending"]
            /\ n1.matchers = n.matchers
            /\ n1.text = n.text /\ n1.observations = n.observations /\ n1.semantics = n.semantics
        BY <1>1, <3>1 DEF Sound, ManagerFields
      <3>4. /\ DOMAIN n1.outbox = Sessions /\ n1.outbox[s] = box
            /\ DOMAIN n1.link = Sessions /\ n1.link[s] = "ending"
            /\ \A t \in Sessions \ {s} : n1.outbox[t] = n.outbox[t] /\ n1.link[t] = n.link[t]
        BY <1>1, <3>3 DEF Sound
      <3>5. \A t \in Sessions : IsQueue(n1.outbox[t])
        BY <1>1, <3>2, <3>4 DEF Sound
      <3>6. Sound(n1)
        BY <1>1, <3>3, <3>4, <3>5 DEF Sound, DeskOK, Managed, Scoping
      <3>7. ElseSame(n, n1, s) /\ SameKnown(k, k, s)
        BY <3>3, <3>4 DEF ElseSame, SameKnown
      <3>8. Linked(n1, s, k.view[s]) /\ Informs(n1, s, k, k.view[s])
        BY <3>4 DEF Linked, Informs, Attended, Held
      <3>9. Ok(n1, k)
        BY <3>6, <3>7, <3>8, ElseKeeps
      <3> QED BY <3>3, <3>9 DEF SameSights
    <2>2. CASE ~ Held(n, s)
      BY <2>2 DEF CloseLink, SameSights
    <2> QED BY <2>1, <2>2
  <1> HIDE DEF n1
  <1>3. Ok(CloseSession(n1, s), k) /\ SameSights(n1, CloseSession(n1, s))
    BY <1>2, CloseSessionKeeps
  <1> QED BY <1>2, <1>3 DEF Fault, SameSights, n1

\* A connection that is not greeted knows nothing.
LEMMA ConnectKeeps ==
    ASSUME NEW n, NEW k, Ok(n, k), NEW s \in Sessions, n.link[s] = "none"
    PROVE  LET n2 == [n EXCEPT !.link[s] = "connected"]
           IN  Ok(n2, k) /\ SameSights(n, n2)
  <1> DEFINE n2 == [n EXCEPT !.link[s] = "connected"]
  <1>1. Sound(n)
    BY DEF Ok
  <1>2. /\ DOMAIN n2 = DOMAIN n /\ n2.agents = n.agents /\ n2.outbox = n.outbox
        /\ n2.desk = n.desk /\ n2.focus = n.focus /\ n2.current = n.current /\ n2.drag = n.drag
        /\ n2.shadow = n.shadow /\ n2.shownFocus = n.shownFocus
        /\ n2.shownWorkspace = n.shownWorkspace /\ n2.link = [n.link EXCEPT ![s] = "connected"]
        /\ n2.matchers = n.matchers
        /\ n2.text = n.text /\ n2.observations = n.observations /\ n2.semantics = n.semantics
    BY <1>1 DEF Sound, ManagerFields
  <1> HIDE DEF n2
  <1>3. /\ DOMAIN n2.link = Sessions /\ n2.link[s] = "connected"
        /\ \A t \in Sessions \ {s} : n2.link[t] = n.link[t]
    BY <1>1, <1>2 DEF Sound
  <1>4. Sound(n2)
    BY <1>1, <1>2, <1>3 DEF Sound, DeskOK, Managed, Scoping
  <1>5. ElseSame(n, n2, s) /\ SameKnown(k, k, s)
    BY <1>2, <1>3 DEF ElseSame, SameKnown
  <1>6. Linked(n2, s, k.view[s]) /\ Informs(n2, s, k, k.view[s])
    BY <1>2, <1>3 DEF Ok, Linked, Informs, Attended, Held
  <1>7. Ok(n2, k)
    BY <1>4, <1>5, <1>6, ElseKeeps
  <1> QED BY <1>2, <1>7 DEF n2, SameSights

(* ---- Clients that are registered ---- *)
\* What a register of clients changes: those in `who` have become known to the sessions
\* whose grant is for clients like them, and perhaps more private.
Registered(n, n2, who) ==
    /\ DOMAIN n2 = DOMAIN n /\ AgentsOK(n2.agents)
    /\ n2.desk = n.desk /\ n2.focus = n.focus /\ n2.current = n.current /\ n2.drag = n.drag
    /\ n2.shadow = n.shadow /\ n2.shownFocus = n.shownFocus
    /\ n2.shownWorkspace = n.shownWorkspace
    /\ n2.matchers = n.matchers /\ n2.link = n.link /\ n2.outbox = n.outbox
    /\ n2.text = n.text /\ n2.observations = n.observations /\ n2.semantics = n.semantics
    /\ OpenSessions(n2.agents) = OpenSessions(n.agents)
    /\ \A c \in Clients :
          /\ n2.agents.generation[c] =
                IF c \in who /\ n.agents.generation[c] = 0 THEN 1 ELSE n.agents.generation[c]
          /\ n.agents.visibility[c] = "hidden" => n2.agents.visibility[c] = "hidden"
          /\ c \notin who => n2.agents.visibility[c] = n.agents.visibility[c]
    /\ \A s \in OpenSessions(n.agents) :
          LET x == n.agents.sessions[s]
              x2 == n2.agents.sessions[s]
          IN  /\ x2.subscription = x.subscription /\ x2.sequence = x.sequence
              /\ x2.status = x.status
              /\ x2.grant.capabilities = x.grant.capabilities
              /\ x2.grant.scoped = x.grant.scoped
              /\ \A c \in Clients :
                    Covers(x2.grant, c) <=> Covers(x.grant, c) \/ (c \in who /\ c \in n.matchers[s])

\* The shape of a manager, whatever its desktop.
Sane(n) == DOMAIN n = ManagerFields /\ AgentsOK(n.agents)

\* Registering a client registers it and no other.
LEMMA RegisterFacts ==
    ASSUME NEW n, Sane(n), NEW c \in Clients
    PROVE  Registered(n, Register(n, c), {c})
  <1> DEFINE inScope == {s \in Sessions : c \in n.matchers[s]}
             rule == Rule[n.desk[c].title]
             a == n.agents
             a2 == ObserveClient(a, c, rule, inScope)
             n2 == Register(n, c)
  <1>1. AgentsOK(a) /\ c \in Clients
    BY DEF Sane
  <1>2. n2 = [n EXCEPT !.agents = a2]
    BY DEF Register
  <1>3. \A s \in OpenSessions(a) : s \in inScope <=> c \in n.matchers[s]
    BY <1>1 DEF AgentsOK
  <1> HIDE DEF n2, rule, inScope
  <1>4. /\ DOMAIN a2 = DOMAIN a
        /\ a2.visibility = [a.visibility EXCEPT ![c] = MorePrivate(@, rule)]
        /\ a2.generation = [a.generation EXCEPT ![c] = IF @ = 0 THEN 1 ELSE @]
        /\ DOMAIN a2.sessions = DOMAIN a.sessions
        /\ \A s \in DOMAIN a.sessions :
              a2.sessions[s] = IF s \in inScope THEN Including(a.sessions[s], c) ELSE a.sessions[s]
    BY <1>1 DEF ObserveClient, AgentsOK
  <1> HIDE DEF a2
  <1>5. a2.visibility \in [Clients -> Visibilities]
    BY <1>1, <1>4 DEF AgentsOK, MorePrivate, Visibilities
  <1>6. a2.generation \in [Clients -> Nat]
    BY <1>1, <1>4 DEF AgentsOK
  <1>7. ASSUME NEW s \in OpenSessions(a)
        PROVE  LET x == a.sessions[s]
                   x2 == a2.sessions[s]
               IN  /\ SessionOK(x2)
                   /\ x2.subscription = x.subscription /\ x2.sequence = x.sequence
                   /\ x2.status = x.status
                   /\ x2.grant.capabilities = x.grant.capabilities
                   /\ x2.grant.scoped = x.grant.scoped
                   /\ \A d \in Clients :
                         Covers(x2.grant, d) <=> Covers(x.grant, d) \/ (d \in {c} /\ d \in n.matchers[s])
    <2> DEFINE x == a.sessions[s]
               x2 == a2.sessions[s]
               grant == Include(x.grant, c)
    <2>1. SessionOK(x)
      BY <1>1 DEF AgentsOK
    <2>2. CASE s \notin inScope
      <3>1. x2 = x
        BY <1>4, <2>2 DEF OpenSessions
      <3>2. c \notin n.matchers[s]
        BY <1>3, <2>2
      <3> QED BY <2>1, <3>1, <3>2
    <2>3. CASE s \in inScope
      <3>1. x2 = [x EXCEPT !.grant = grant]
        BY <1>4, <2>3 DEF Including, OpenSessions
      <3>2. DOMAIN x2 = DOMAIN x /\ x2.subscription = x.subscription
            /\ x2.sequence = x.sequence /\ x2.status = x.status /\ x2.grant = grant
        BY <2>1, <3>1 DEF SessionOK
      <3>3. /\ grant \in Grants /\ grant.capabilities = x.grant.capabilities
            /\ grant.scoped = x.grant.scoped
            /\ \A d \in Clients : Covers(grant, d) <=> Covers(x.grant, d) \/ d = c
        <4>1. x.grant \in Grants
          BY <2>1 DEF SessionOK
        <4> DEFINE g == x.grant
        <4> HIDE DEF g
        <4>2. g \in Grants
          BY <4>1 DEF g
        <4>3. CASE g.scoped
          <5>1. grant = [g EXCEPT !.scope = @ \cup {c}]
            BY <4>3 DEF Include, g
          <5> QED BY <4>2, <4>3, <5>1, Zenon DEF Grants, Covers, g
        <4>4. CASE ~ g.scoped
          <5>1. grant = g
            BY <4>4 DEF Include, g
          <5> QED BY <4>2, <4>4, <5>1 DEF Covers, g
        <4> QED BY <4>3, <4>4
      <3>4. c \in n.matchers[s]
        BY <1>3, <2>3
      <3> HIDE DEF grant, x2, x
      <3>5. SessionOK(x2)
        BY <2>1, <3>2, <3>3 DEF SessionOK
      <3> QED BY <3>2, <3>3, <3>4, <3>5 DEF x, x2
    <2> QED BY <2>2, <2>3
  <1>8. AgentsOK(a2)
    BY <1>1, <1>4, <1>5, <1>6, <1>7 DEF AgentsOK, OpenSessions
  <1>9. /\ DOMAIN n2 = DOMAIN n /\ n2.agents = a2
        /\ n2.desk = n.desk /\ n2.focus = n.focus /\ n2.current = n.current /\ n2.drag = n.drag
        /\ n2.shadow = n.shadow /\ n2.shownFocus = n.shownFocus
        /\ n2.shownWorkspace = n.shownWorkspace
        /\ n2.matchers = n.matchers /\ n2.link = n.link /\ n2.outbox = n.outbox
        /\ n2.text = n.text /\ n2.observations = n.observations /\ n2.semantics = n.semantics
    BY <1>2 DEF Sane, ManagerFields
  <1>10. \A d \in Clients :
          /\ a2.generation[d] = IF d \in {c} /\ a.generation[d] = 0 THEN 1 ELSE a.generation[d]
          /\ a.visibility[d] = "hidden" => a2.visibility[d] = "hidden"
          /\ d \notin {c} => a2.visibility[d] = a.visibility[d]
    BY <1>1, <1>4 DEF AgentsOK, MorePrivate
  <1> QED BY <1>4, <1>7, <1>8, <1>9, <1>10, Zenon DEF Registered, OpenSessions, n2

\* Registering nobody.
LEMMA RegisteredRefl ==
    ASSUME NEW n, Sane(n) PROVE Registered(n, n, {})
  BY DEF Registered, Sane

\* Registering some, then others.
LEMMA RegisteredTrans ==
    ASSUME NEW n, NEW n2, NEW n3, NEW who, NEW more,
           Registered(n, n2, who), Registered(n2, n3, more)
    PROVE  Registered(n, n3, who \cup more)
  <1>1. \A c \in Clients :
          /\ n3.agents.generation[c] =
                IF c \in who \cup more /\ n.agents.generation[c] = 0 THEN 1 ELSE n.agents.generation[c]
          /\ n.agents.visibility[c] = "hidden" => n3.agents.visibility[c] = "hidden"
          /\ c \notin who \cup more => n3.agents.visibility[c] = n.agents.visibility[c]
    BY DEF Registered
  <1>2. \A s \in OpenSessions(n.agents) :
          LET x == n.agents.sessions[s]
              x3 == n3.agents.sessions[s]
          IN  /\ x3.subscription = x.subscription /\ x3.sequence = x.sequence
              /\ x3.status = x.status
              /\ x3.grant.capabilities = x.grant.capabilities
              /\ x3.grant.scoped = x.grant.scoped
              /\ \A c \in Clients :
                    Covers(x3.grant, c) <=>
                        Covers(x.grant, c) \/ (c \in who \cup more /\ c \in n.matchers[s])
    BY DEF Registered
  <1> QED BY <1>1, <1>2 DEF Registered

\* Registering all clients.
Registering ==
    INSTANCE FoldFacts WITH
        Op <- LAMBDA env, c, n : Register(n, c),
        Pick <- LAMBDA T : CHOOSE c \in T : TRUE,
        Holds <- LAMBDA n0, T, n : Registered(n0, n, T)

\* RegisterAll registers the clients that are managed.
LEMMA RegisterAllFacts ==
    ASSUME NEW n, Sane(n)
    PROVE  Registered(n, RegisterAll(n), {c \in Clients : Managed(n, c)})
  <1> DEFINE all == {c \in Clients : Managed(n, c)}
  <1>1. Registering!IsFiniteSet(all)
    <2>1. IsFiniteSet(all)
      BY FiniteAssumption, FS_Subset
    <2> QED BY <2>1 DEF IsFiniteSet, Registering!IsFiniteSet
  <1>2. Registering!Picks(all)
    BY DEF Registering!Picks
  <1>3. Registered(n, n, {})
    BY RegisteredRefl
  <1>4. ASSUME NEW T \in SUBSET all, NEW n1, T # {},
               Registered(n, n1, T \ {CHOOSE c \in T : TRUE})
        PROVE  Registered(n, Register(n1, CHOOSE c \in T : TRUE), T)
    <2> DEFINE c == CHOOSE c \in T : TRUE
    <2>1. c \in T /\ c \in Clients
      BY <1>4
    <2>2. Sane(n1)
      BY <1>4 DEF Registered, Sane
    <2> HIDE DEF c
    <2>3. Registered(n1, Register(n1, c), {c})
      BY <2>1, <2>2, RegisterFacts
    <2>4. Registered(n, n1, T \ {c})
      BY <1>4 DEF c
    <2>5. (T \ {c}) \cup {c} = T
      BY <2>1
    <2>6. Registered(n, Register(n1, c), (T \ {c}) \cup {c})
      BY <2>3, <2>4, RegisteredTrans
    <2>7. Registered(n, Register(n1, c), T)
      BY <2>5, <2>6
    <2> QED BY <2>7 DEF c
  <1>5. RegisterAll(n) = Registering!Fold(n, n, all)
    BY DEF RegisterAll, FoldSet, MapThenFoldSet, Registering!Fold
  <1> HIDE DEF all
  <1>6. Registered(n, Registering!Fold(n, n, all), all)
    BY <1>1, <1>2, <1>3, <1>4, Registering!FoldKeeps
  <1> QED BY <1>5, <1>6 DEF all

\* What the focus was said to be is a client that was announced.
FocusKnown(n) ==
    n.shownFocus # NoClient => n.shownFocus \in Clients /\ n.shadow[n.shownFocus].known

\* Nothing is to be seen of an announced client that was not, unless it is in doubt.
SameAnnounced(n, n2, s, excepted) ==
    \A c \in Clients \ excepted :
        n.shadow[c].known /\ Perceives(n2.agents, s, c)
           => Perceives(n.agents, s, c) /\ Readable(n2, s, c) = Readable(n, s, c)

\* Clients live on or are given up.
LivesOn(n, n2, k, k2) ==
    \A c \in Clients :
        \/ k2.lives[c] > k.lives[c]
        \/ /\ k2.lives[c] = k.lives[c]
           /\ Managed(n, c) => /\ Managed(n2, c)
                               /\ n2.agents.generation[c] >= n.agents.generation[c]

\* More is in doubt.
DoubtGrows(k, k2, s) ==
    /\ k2.client = k.client /\ k2.fields = k.fields /\ k.pending \subseteq k2.pending
    /\ k.doubt[s] \subseteq k2.doubt[s] /\ k.ever[s] \subseteq k2.ever[s]
    /\ k2.doubt[s] \subseteq k2.ever[s]

\* What may be known stays so when nothing is to be seen that was not, but for what is
\* in doubt from now on.
LEMMA SightCarries ==
    ASSUME NEW n, NEW n2, NEW k, NEW k2, NEW s,
           AgentsOK(n.agents), AgentsOK(n2.agents),
           n2.shadow = n.shadow, n2.shownFocus = n.shownFocus, n2.shownWorkspace = n.shownWorkspace,
           DoubtGrows(k, k2, s), LivesOn(n, n2, k, k2),
           k.lives \in [Clients -> Nat], k2.lives \in [Clients -> Nat],
           SameAnnounced(n, n2, s, k2.doubt[s]),
           FocusKnown(n) \/ "focus" \in k2.pending
    PROVE  Carries(n, k, n2, k2, s)
  <1>1. \A c : Asked(k2, c) = Asked(k, c)
    BY DEF Asked, DoubtGrows
  <1>2. ASSUME NEW c \in Clients, NEW v, NEW F, n.shadow[c].known, Perceives(n2.agents, s, c),
               c \notin k2.doubt[s], Agrees(n, s, c, v, F)
        PROVE  Agrees(n2, s, c, v, F)
    BY <1>2 DEF SameAnnounced, Agrees
  <1>3. ASSUME NEW v, NEW c \in Clients, ViewOK(v), Knows(n, s, k, c, v)
        PROVE  Knows(n2, s, k2, c, v)
    <2>1. SUFFICES ASSUME c \notin k2.ever[s], v.clients[c].known, ~ (v.clients[c].life < k2.lives[c])
          PROVE  /\ Managed(n2, c) /\ n2.shadow[c].known
                 /\ v.clients[c].life = k2.lives[c]
                 /\ v.clients[c].generation <= n2.agents.generation[c]
                 /\ (v.clients[c].generation = n2.agents.generation[c] /\ Perceives(n2.agents, s, c)
                       => Agrees(n2, s, c, v, Asked(k2, c)))
      BY DEF Knows
    <2>2. c \notin k.ever[s] /\ c \notin k2.doubt[s]
      BY <2>1 DEF DoubtGrows
    <2>3. /\ v.clients[c].life \in Nat /\ v.clients[c].generation \in Nat
          /\ n.agents.generation[c] \in Nat /\ n2.agents.generation[c] \in Nat
          /\ k.lives[c] \in Nat /\ k2.lives[c] \in Nat
      BY <1>3, <2>1 DEF ViewOK, AgentsOK
    <2>4. ~ (v.clients[c].life < k.lives[c])
      BY <2>1, <2>3 DEF LivesOn
    <2>5. /\ Managed(n, c) /\ n.shadow[c].known
          /\ v.clients[c].life = k.lives[c]
          /\ v.clients[c].generation <= n.agents.generation[c]
          /\ v.clients[c].generation = n.agents.generation[c] /\ Perceives(n.agents, s, c)
                => Agrees(n, s, c, v, Asked(k, c))
      BY <1>3, <2>1, <2>2, <2>4 DEF Knows
    <2>6. /\ k2.lives[c] = k.lives[c] /\ Managed(n2, c)
          /\ n2.agents.generation[c] >= n.agents.generation[c]
      BY <2>1, <2>3, <2>5 DEF LivesOn
    <2>7. v.clients[c].generation <= n2.agents.generation[c]
      BY <2>3, <2>5, <2>6
    <2>8. ASSUME v.clients[c].generation = n2.agents.generation[c], Perceives(n2.agents, s, c)
          PROVE  Agrees(n2, s, c, v, Asked(k2, c))
      <3>1. v.clients[c].generation = n.agents.generation[c]
        BY <2>3, <2>5, <2>6, <2>8
      <3>2. Perceives(n.agents, s, c)
        BY <2>2, <2>5, <2>8 DEF SameAnnounced
      <3> QED BY <1>1, <1>2, <2>2, <2>5, <2>8, <3>1, <3>2
    <2> QED BY <2>5, <2>6, <2>7, <2>8
  <1>4. ASSUME NEW v, NEW c \in Clients, Follows(n, s, k, c, v)
        PROVE  Follows(n2, s, k2, c, v)
    BY <1>1, <1>2, <1>4 DEF Follows, DoubtGrows, SameAnnounced
  <1>5. ASSUME NEW v, FollowsFocus(n, s, k, v)
        PROVE  FollowsFocus(n2, s, k2, v)
    BY <1>5 DEF FollowsFocus, DoubtGrows, SameAnnounced, FocusKnown
  <1>6. ASSUME NEW v, FollowsWorkspace(n, s, k, v)
        PROVE  FollowsWorkspace(n2, s, k2, v)
    BY <1>6 DEF FollowsWorkspace, DoubtGrows
  <1> QED BY <1>3, <1>4, <1>5, <1>6 DEF Carries, Fits, Tracks

\* More is known to be in doubt.
LEMMA DoubtKeeps ==
    ASSUME NEW n, NEW k, Ok(n, k), NEW k2, k2.view = k.view, k2.lives = k.lives,
           k.lives \in [Clients -> Nat],
           \A s \in Sessions : DoubtGrows(k, k2, s), FocusKnown(n) \/ "focus" \in k2.pending
    PROVE  Ok(n, k2)
  <1>1. Sound(n) /\ Lively(n, k2.lives) /\ SameTraffic(n, n) /\ AgentsOK(n.agents)
    BY DEF Ok, SameTraffic, Sound
  <1>2. ASSUME NEW s \in OpenSessions(n.agents)
        PROVE  Carries(n, k, n, k2, s)
    <2>1. s \in Sessions
      BY <1>1 DEF AgentsOK
    <2>2. LivesOn(n, n, k, k2)
      BY <1>1 DEF LivesOn, AgentsOK
    <2>3. SameAnnounced(n, n, s, k2.doubt[s])
      BY DEF SameAnnounced
    <2> QED BY <1>1, <2>1, <2>2, <2>3, SightCarries
  <1> QED BY <1>1, <1>2, QuietKeeps

\* The desktop moves: windows change, and may be given up.
DeskMoved(n, n2) ==
    /\ DOMAIN n2 = DOMAIN n /\ n2.agents = n.agents
    /\ n2.shadow = n.shadow /\ n2.shownFocus = n.shownFocus
    /\ n2.shownWorkspace = n.shownWorkspace
    /\ n2.matchers = n.matchers /\ n2.link = n.link /\ n2.outbox = n.outbox
    /\ n2.text = n.text /\ n2.observations = n.observations /\ n2.semantics = n.semantics

\* A move of the desktop that nobody has been told of yet keeps the invariant.
LEMMA DeskKeeps ==
    ASSUME NEW n, NEW k, Ok(n, k), NEW n2, DeskMoved(n, n2), DeskOK(n2),
           NEW k2, k2.view = k.view, \A s \in Sessions : DoubtGrows(k, k2, s),
           k.lives \in [Clients -> Nat], k2.lives \in [Clients -> Nat],
           \A c \in Clients :
              \/ Managed(n, c) /\ ~ Managed(n2, c) /\ k2.lives[c] > k.lives[c]
              \/ /\ Managed(n, c) <=> Managed(n2, c)
                 /\ k2.lives[c] = k.lives[c]
                 /\ Managed(n2, c) => n2.desk[c].life = n.desk[c].life,
           FocusKnown(n) \/ "focus" \in k2.pending
    PROVE  Ok(n2, k2)
  <1>1. Sound(n) /\ Lively(n, k.lives) /\ AgentsOK(n.agents)
    BY DEF Ok, Sound
  <1>2. Sound(n2)
    BY <1>1 DEF Sound, DeskMoved, Scoping
  <1>3. Lively(n2, k2.lives)
    BY <1>1 DEF Lively, DeskMoved
  <1>4. SameTraffic(n, n2)
    BY DEF SameTraffic, DeskMoved, Sub, Sequence
  <1>5. LivesOn(n, n2, k, k2)
    BY <1>1 DEF LivesOn, DeskMoved, AgentsOK
  <1>6. ASSUME NEW s \in OpenSessions(n.agents)
        PROVE  Carries(n, k, n2, k2, s)
    <2>1. s \in Sessions
      BY <1>1 DEF AgentsOK
    <2>2. SameAnnounced(n, n2, s, k2.doubt[s])
      BY DEF SameAnnounced, DeskMoved, Readable
    <2> QED BY <1>1, <1>5, <2>1, <2>2, SightCarries DEF DeskMoved
  <1> QED BY <1>2, <1>3, <1>4, <1>6, QuietKeeps

\* What comes before a register: new sessions, grants and scopes; a client that appears.
Prepared(n, n1, new) ==
    /\ DOMAIN n1 = DOMAIN n
    /\ n1.shadow = n.shadow /\ n1.shownFocus = n.shownFocus
    /\ n1.shownWorkspace = n.shownWorkspace /\ n1.link = n.link /\ n1.outbox = n.outbox
    /\ n1.text = n.text /\ n1.observations = n.observations /\ n1.semantics = n.semantics
    /\ n1.agents.visibility = n.agents.visibility
    /\ n1.agents.generation = n.agents.generation
    /\ OpenSessions(n1.agents) = OpenSessions(n.agents) \cup new
    /\ \A s \in OpenSessions(n.agents) :
          /\ n1.agents.sessions[s].subscription = n.agents.sessions[s].subscription
          /\ n1.agents.sessions[s].sequence = n.agents.sessions[s].sequence
    /\ AgentsOK(n1.agents)
    /\ n1.matchers \in [Sessions -> SUBSET Clients]
    /\ DeskOK(n1)

\* A register keeps the invariant of the sessions that were there.
LEMMA RegisteredKeeps ==
    ASSUME NEW n, NEW k, Ok(n, k), NEW n1, NEW new, new \cap OpenSessions(n.agents) = {},
           Prepared(n, n1, new), NEW n2, NEW who, Registered(n1, n2, who),
           NEW k2, k2.view = k.view, k2.lives = k.lives, k.lives \in [Clients -> Nat],
           \A s \in Sessions : DoubtGrows(k, k2, s), FocusKnown(n) \/ "focus" \in k2.pending,
           \A c \in Clients : /\ Managed(n, c) => Managed(n1, c)
                              /\ Managed(n1, c) => Managed(n, c) \/ c \in who
                              /\ Managed(n1, c) => n1.desk[c].life = k.lives[c],
           \A s \in OpenSessions(n1.agents), c \in Clients :
              Managed(n1, c) /\ c \in n1.matchers[s] =>
                  c \in who \/ Covers(n1.agents.sessions[s].grant, c),
           \A s \in OpenSessions(n.agents) : SameAnnounced(n, n2, s, k2.doubt[s])
    PROVE  OkBut(n2, k2, new)
  <1>1. Sound(n) /\ Lively(n, k.lives) /\ AgentsOK(n.agents)
    BY DEF Ok, Sound
  <1>2. /\ DOMAIN n2 = DOMAIN n /\ AgentsOK(n2.agents)
        /\ n2.desk = n1.desk /\ n2.focus = n1.focus
        /\ n2.shadow = n.shadow /\ n2.shownFocus = n.shownFocus
        /\ n2.shownWorkspace = n.shownWorkspace
        /\ n2.matchers = n1.matchers /\ n2.link = n.link /\ n2.outbox = n.outbox
        /\ n2.text = n.text /\ n2.observations = n.observations /\ n2.semantics = n.semantics
        /\ OpenSessions(n2.agents) = OpenSessions(n.agents) \cup new
        /\ \A c \in Clients : Managed(n2, c) <=> Managed(n1, c)
    BY DEF Registered, Prepared, Managed
  <1>3. Sound(n2)
    <2>1. DeskOK(n2)
      BY <1>2 DEF Prepared, DeskOK
    <2>2. Scoping(n2)
      BY <1>2 DEF Scoping, Registered
    <2> QED BY <1>1, <1>2, <2>1, <2>2 DEF Sound, Prepared
  <1>4. Lively(n2, k2.lives)
    <2> SUFFICES ASSUME NEW c \in Clients, Managed(n2, c)
                 PROVE  n2.desk[c].life = k2.lives[c] /\ n2.agents.generation[c] > 0
      BY DEF Lively
    <2>1. n2.desk[c].life = k2.lives[c]
      BY <1>2
    <2>2. n1.agents.generation[c] \in Nat /\ n1.agents.generation[c] = n.agents.generation[c]
      BY DEF Prepared, AgentsOK
    <2>3. c \in who \/ n.agents.generation[c] > 0
      BY <1>1, <1>2 DEF Lively
    <2>4. n2.agents.generation[c] =
             IF c \in who /\ n1.agents.generation[c] = 0 THEN 1 ELSE n1.agents.generation[c]
      BY DEF Registered
    <2> QED BY <2>1, <2>2, <2>3, <2>4
  <1>5. ASSUME NEW s \in Sessions \ new
        PROVE  Linked(n2, s, k2.view[s]) /\ Informs(n2, s, k2, k2.view[s])
    <2>1. Linked(n2, s, k2.view[s])
      BY <1>2 DEF Ok, Linked
    <2>2. CASE s \in OpenSessions(n.agents)
      <3>1. LivesOn(n, n2, k, k2)
        <4> SUFFICES ASSUME NEW c \in Clients, Managed(n, c)
                     PROVE  Managed(n2, c) /\ n2.agents.generation[c] >= n.agents.generation[c]
          BY DEF LivesOn
        <4>1. n1.agents.generation[c] \in Nat /\ n1.agents.generation[c] = n.agents.generation[c]
          BY DEF Prepared, AgentsOK
        <4>2. n2.agents.generation[c] =
                 IF c \in who /\ n1.agents.generation[c] = 0 THEN 1 ELSE n1.agents.generation[c]
          BY DEF Registered
        <4> QED BY <1>2, <4>1, <4>2
      <3>2. Carries(n, k, n2, k2, s)
        BY <1>1, <1>2, <2>2, <3>1, SightCarries
      <3>3. Attended(n2, s) => /\ Attended(n, s) /\ n2.outbox[s] = n.outbox[s]
                               /\ Sub(n2, s) = Sub(n, s) /\ Sequence(n2, s) = Sequence(n, s)
        BY <1>2, <2>2 DEF Attended, Held, Sub, Sequence, Registered, Prepared
      <3>4. Informs(n, s, k, k2.view[s])
        BY DEF Ok
      <3> QED BY <1>1, <2>1, <3>2, <3>3, <3>4, SameChannel
    <2>3. CASE s \notin OpenSessions(n.agents)
      BY <1>2, <2>1, <2>3 DEF Informs, Attended
    <2> QED BY <2>2, <2>3
  <1> QED BY <1>3, <1>4, <1>5 DEF OkBut

(* ---- One client is announced ---- *)
\* What reading the change of a field does to a view.
LEMMA FieldRead ==
    ASSUME NEW v, ViewOK(v), NEW event, event.client \in Clients, event.generation \in Nat \ {0},
           NEW field \in AllFields, Changed(v, event) = WithField(v, event, field),
           NEW at \in Nat
    PROVE  LET v2 == Next1(v, event, at)
               c == event.client
           IN  /\ "at" \in DOMAIN Changed(v, event)
               /\ ViewOK(v2) /\ v2.focus = v.focus /\ v2.current = v.current
               /\ \A d \in Clients \ {c} : v2.clients[d] = v.clients[d]
               /\ v.clients[c].known <=> v2.clients[c].known
               /\ v.clients[c].known =>
                     /\ v2.clients[c].life = v.clients[c].life
                     /\ v2.clients[c].generation = event.generation
                     /\ v2.clients[c][field] = event.value
                     /\ \A other \in AllFields \ {field} :
                           v2.clients[c][other] = v.clients[c][other]
  <1> DEFINE c == event.client
             w == WithField(v, event, field)
             x == v.clients[c]
             v2 == [w EXCEPT !.at = at]
             x2 == [[x EXCEPT ![field] = event.value] EXCEPT !.generation = event.generation]
  <1>1. CASE ~ x.known
    <2>1. w = v
      BY <1>1 DEF WithField
    <2>2. /\ DOMAIN v2 = DOMAIN v /\ v2.at = at /\ v2.lost = v.lost /\ v2.clients = v.clients
          /\ v2.focus = v.focus /\ v2.current = v.current
      BY <2>1 DEF ViewOK, ViewFields
    <2> HIDE DEF v2
    <2>3. ViewOK(v2)
      BY <2>2 DEF ViewOK
    <2>4. "at" \in DOMAIN w
      BY <2>1 DEF ViewOK, ViewFields
    <2> QED BY <1>1, <2>2, <2>3, <2>4 DEF v2, Next1
  <1>2. CASE x.known
    <2>1. DOMAIN x = KnownFields /\ x.life \in Nat
      BY <1>2 DEF ViewOK
    <2>2. w = [[v EXCEPT !.clients[c][field] = event.value]
                  EXCEPT !.clients[c].generation = event.generation]
      BY <1>2 DEF WithField
    <2>3. /\ DOMAIN w = DOMAIN v /\ w.lost = v.lost /\ w.focus = v.focus /\ w.current = v.current
          /\ DOMAIN w.clients = Clients
          /\ \A d \in Clients \ {c} : w.clients[d] = v.clients[d]
          /\ w.clients[c] = x2
      BY <2>2, Zenon DEF ViewOK, ViewFields
    <2> HIDE DEF w
    <2>4. /\ DOMAIN v2 = DOMAIN v /\ v2.at = at /\ v2.lost = v.lost /\ v2.clients = w.clients
          /\ v2.focus = v.focus /\ v2.current = v.current
      BY <2>3, Zenon DEF ViewOK, ViewFields
    <2> HIDE DEF v2
    <2>5. /\ DOMAIN x2 = KnownFields /\ x2.known = x.known /\ x2.life = x.life
          /\ x2.generation = event.generation /\ x2[field] = event.value
          /\ \A other \in AllFields \ {field} : x2[other] = x[other]
      BY <2>1, Zenon DEF KnownFields, AllFields
    <2> HIDE DEF x2
    <2>6. ViewOK(v2)
      <3> SUFFICES ASSUME NEW d \in Clients
                   PROVE  /\ v2.clients[d].known \in BOOLEAN
                          /\ v2.clients[d].known => /\ DOMAIN v2.clients[d] = KnownFields
                                                    /\ v2.clients[d].life \in Nat
                                                    /\ v2.clients[d].generation \in Nat \ {0}
        BY <2>3, <2>4 DEF ViewOK
      <3>1. CASE d = c
        BY <1>2, <2>1, <2>3, <2>4, <2>5, <3>1, Zenon DEF ViewOK
      <3>2. CASE d # c
        BY <2>3, <2>4, <3>2 DEF ViewOK
      <3> QED BY <3>1, <3>2
    <2>7. "at" \in DOMAIN w
      BY <2>3 DEF ViewOK, ViewFields
    <2>8. /\ v2.clients[c].known /\ v2.clients[c].life = x.life
          /\ v2.clients[c].generation = event.generation
          /\ v2.clients[c][field] = event.value
          /\ \A other \in AllFields \ {field} : v2.clients[c][other] = x[other]
      BY <1>2, <2>3, <2>4, <2>5, Zenon
    <2>9. \A d \in Clients \ {c} : v2.clients[d] = v.clients[d]
      BY <2>3, <2>4
    <2>10. v2 = Next1(v, event, at) /\ w = Changed(v, event)
      BY DEF v2, Next1, w
    <2> HIDE DEF x
    <2> QED BY <1>2, <2>4, <2>6, <2>7, <2>8, <2>9, <2>10 DEF x
  <1> QED BY <1>1, <1>2

\* The same knowledge, in the middle of the announcements about a client.
Amid(k, c, fields, pending) ==
    [lives |-> k.lives, doubt |-> k.doubt, ever |-> k.ever, view |-> k.view,
     client |-> c, fields |-> fields, pending |-> pending]

\* The kind of the event that announces a field.
KindOf(field) ==
    IF field = "title" THEN "title_changed"
    ELSE IF field = "state" THEN "state_changed" ELSE "geometry_changed"

\* The new value of a field, as a session may read it.
TrueValue(n, s, c, field) ==
    IF field = "title" THEN Readable(n, s, c) ELSE n.shadow[c][field]

\* Touch counts a change of one client.
LEMMA TouchFacts ==
    ASSUME NEW n, Sound(n), NEW c \in Clients
    PROVE  LET n2 == [n EXCEPT !.agents = Touch(@, c)]
           IN  /\ Sound(n2) /\ SameTraffic(n, n2)
               /\ DOMAIN n2 = DOMAIN n
               /\ n2.desk = n.desk /\ n2.focus = n.focus /\ n2.current = n.current
               /\ n2.drag = n.drag /\ n2.shadow = n.shadow /\ n2.shownFocus = n.shownFocus
               /\ n2.shownWorkspace = n.shownWorkspace
               /\ n2.matchers = n.matchers
               /\ n2.agents.visibility = n.agents.visibility
               /\ n2.agents.sessions = n.agents.sessions
               /\ n2.agents.generation[c] = n.agents.generation[c] + 1
               /\ \A d \in Clients \ {c} : n2.agents.generation[d] = n.agents.generation[d]
  <1> DEFINE a == n.agents
             a2 == Touch(a, c)
             n2 == [n EXCEPT !.agents = a2]
  <1>1. AgentsOK(a)
    BY DEF Sound
  <1>2. /\ DOMAIN a2 = DOMAIN a /\ a2.visibility = a.visibility /\ a2.sessions = a.sessions
        /\ a2.generation = [a.generation EXCEPT ![c] = @ + 1]
    BY <1>1 DEF Touch, AgentsOK
  <1> HIDE DEF a2
  <1>3. /\ a2.generation \in [Clients -> Nat] /\ a2.generation[c] = a.generation[c] + 1
        /\ \A d \in Clients \ {c} : a2.generation[d] = a.generation[d]
    BY <1>1, <1>2 DEF AgentsOK
  <1>4. AgentsOK(a2)
    BY <1>1, <1>2, <1>3 DEF AgentsOK, OpenSessions
  <1>5. /\ DOMAIN n2 = DOMAIN n /\ n2.agents = a2
        /\ n2.desk = n.desk /\ n2.focus = n.focus /\ n2.current = n.current /\ n2.drag = n.drag
        /\ n2.shadow = n.shadow /\ n2.shownFocus = n.shownFocus
        /\ n2.shownWorkspace = n.shownWorkspace
        /\ n2.matchers = n.matchers /\ n2.link = n.link /\ n2.outbox = n.outbox
        /\ n2.text = n.text /\ n2.observations = n.observations /\ n2.semantics = n.semantics
    BY DEF Sound, ManagerFields
  <1> HIDE DEF n2
  <1>6. Sound(n2)
    BY <1>2, <1>4, <1>5 DEF Sound, DeskOK, Managed, Scoping, OpenSessions
  <1>7. SameTraffic(n, n2)
    BY <1>2, <1>5 DEF SameTraffic, Sub, Sequence, OpenSessions
  <1> QED BY <1>2, <1>3, <1>5, <1>6, <1>7 DEF n2, a2

\* One field of a client is announced.
LEMMA AnnounceKeeps ==
    ASSUME NEW n, NEW k, NEW c \in Clients, NEW fields, NEW pending,
           NEW field \in AllFields, NEW value,
           Ok(n, Amid(k, c, fields, pending)), Ghost(k),
           Managed(n, c), n.shadow[c].known,
           \A s \in OpenSessions(n.agents) : value[s] = TrueValue(n, s, c, field)
    PROVE  LET n2 == Announce(n, c, KindOf(field), value)
           IN  /\ Ok(n2, Amid(k, c, fields \cup {field}, pending))
               /\ n2.outbox = n.outbox
               /\ SameFace([n EXCEPT !.agents = Touch(@, c)], n2)
  <1> DEFINE k1 == Amid(k, c, fields, pending)
             k2 == Amid(k, c, fields \cup {field}, pending)
             kind == KindOf(field)
             n1 == [n EXCEPT !.agents = Touch(@, c)]
             g == Generation(n1.agents, c)
             event == [s \in OpenSessions(n.agents) |->
                         [kind |-> kind, client |-> c, value |-> value[s], generation |-> g]]
             n2 == Announce(n, c, kind, value)
  <1>1. n2 = Emit(n1, kind, c, event)
    BY DEF Announce
  <1>2. Sound(n) /\ Lively(n, k.lives) /\ AgentsOK(n.agents)
    BY DEF Ok, Sound, Amid
  <1>3. /\ Sound(n1) /\ SameTraffic(n, n1)
        /\ n1.desk = n.desk /\ n1.shadow = n.shadow /\ n1.shownFocus = n.shownFocus
        /\ n1.shownWorkspace = n.shownWorkspace
        /\ n1.agents.visibility = n.agents.visibility
        /\ n1.agents.sessions = n.agents.sessions
        /\ n1.agents.generation[c] = n.agents.generation[c] + 1
        /\ \A d \in Clients \ {c} : n1.agents.generation[d] = n.agents.generation[d]
    BY <1>2, TouchFacts
  <1> HIDE DEF n1
  <1>4. n.agents.generation \in [Clients -> Nat] /\ n1.agents.generation \in [Clients -> Nat]
    BY <1>2, <1>3 DEF AgentsOK, Sound
  <1>5. g = n1.agents.generation[c] /\ g \in Nat \ {0}
    BY <1>3, <1>4 DEF Generation
  <1>6. OpenSessions(n1.agents) = OpenSessions(n.agents)
    BY <1>3 DEF OpenSessions
  <1>7. /\ k1.lives = k.lives /\ k2.lives = k.lives /\ k1.ever = k.ever /\ k2.ever = k.ever
        /\ k1.doubt = k.doubt /\ k2.doubt = k.doubt /\ k1.view = k.view /\ k2.view = k.view
        /\ k1.pending = pending /\ k2.pending = pending /\ k1.client = c /\ k2.client = c
        /\ k1.fields = fields /\ k2.fields = fields \cup {field}
    BY DEF Amid
  <1>8. \A s \in OpenSessions(n.agents) :
           /\ event[s].kind = kind /\ event[s].client = c /\ event[s].value = value[s]
           /\ event[s].generation = g
    OBVIOUS
  <1>9. kind # "resync_required"
    BY DEF KindOf
  <1>10. \A s, d : Perceives(n1.agents, s, d) <=> Perceives(n.agents, s, d)
    BY <1>3, <1>6 DEF Perceives
  <1>11. \A s, d : Readable(n1, s, d) = Readable(n, s, d)
    BY <1>3 DEF Readable
  <1>12. \A s, d, v, F : Agrees(n1, s, d, v, F) <=> Agrees(n, s, d, v, F)
    BY <1>3, <1>11 DEF Agrees
  <1>13. \A d \in Clients \ {c} : Asked(k1, d) = AllFields /\ Asked(k2, d) = AllFields
    BY <1>7 DEF Asked
  <1>14. Asked(k1, c) = fields /\ Asked(k2, c) = fields \cup {field}
    BY <1>7 DEF Asked
  <1> HIDE DEF event, k1, k2, g, kind
  <1>15. ASSUME NEW s \in OpenSessions(n.agents), NEW v, Fits(n, s, k1, v)
         PROVE  Fits(n1, s, k2, v)
    <2> SUFFICES ASSUME NEW d \in Clients PROVE Knows(n1, s, k2, d, v)
      BY <1>15 DEF Fits
    <2>1. Knows(n, s, k1, d, v) /\ ViewOK(v)
      BY <1>15 DEF Fits
    <2>2. CASE d # c
      BY <1>3, <1>7, <1>10, <1>12, <1>13, <2>1, <2>2 DEF Knows, Managed
    <2>3. CASE d = c
      <3>1. v.clients[c].known => v.clients[c].generation \in Nat
        BY <2>1 DEF ViewOK
      <3> QED BY <1>3, <1>4, <1>7, <2>1, <2>3, <3>1 DEF Knows, Managed
    <2> QED BY <2>2, <2>3
  <1>16. ASSUME NEW s \in OpenSessions(n.agents), NEW v, Fits(n, s, k1, v), Tracks(n, s, k1, v),
                ~ Perceives(n.agents, s, c)
         PROVE  Tracks(n1, s, k2, v)
    <2>1. ASSUME NEW d \in Clients PROVE Follows(n1, s, k2, d, v)
      <3>1. Follows(n, s, k1, d, v)
        BY <1>16 DEF Tracks
      <3>2. CASE d # c
        BY <1>3, <1>7, <1>10, <1>12, <1>13, <3>1, <3>2 DEF Follows
      <3>3. CASE d = c
        BY <1>3, <1>10, <1>16, <3>3 DEF Follows
      <3> QED BY <3>2, <3>3
    <2>2. FollowsFocus(n1, s, k2, v) /\ FollowsWorkspace(n1, s, k2, v)
      BY <1>3, <1>7, <1>10, <1>16 DEF Tracks, FollowsFocus, FollowsWorkspace
    <2> QED BY <2>1, <2>2 DEF Tracks
  <1>17. ASSUME NEW s \in OpenSessions(n.agents), NEW v, Fits(n, s, k1, v), Tracks(n, s, k1, v)
         PROVE  LET v2 == Next1(v, event[s], Sequence(n1, s) + 1)
                IN  "at" \in DOMAIN Changed(v, event[s]) /\ Fits(n1, s, k2, v2) /\ Tracks(n1, s, k2, v2)
    <2> DEFINE at == Sequence(n1, s) + 1
               v2 == Next1(v, event[s], at)
    <2>1. at \in Nat
      BY <1>3, <1>6 DEF Sound, AgentsOK, SessionOK, Sequence
    <2>2. Changed(v, event[s]) = WithField(v, event[s], field)
      BY <1>8 DEF Changed, KindOf, AllFields, kind
    <2>3. ViewOK(v)
      BY <1>17 DEF Fits
    <2>4. /\ "at" \in DOMAIN Changed(v, event[s])
          /\ ViewOK(v2) /\ v2.focus = v.focus /\ v2.current = v.current
          /\ \A d \in Clients \ {c} : v2.clients[d] = v.clients[d]
          /\ v.clients[c].known <=> v2.clients[c].known
          /\ v.clients[c].known =>
                /\ v2.clients[c].life = v.clients[c].life
                /\ v2.clients[c].generation = g
                /\ v2.clients[c][field] = value[s]
                /\ \A other \in AllFields \ {field} : v2.clients[c][other] = v.clients[c][other]
      BY <1>5, <1>8, <2>1, <2>2, <2>3, FieldRead
    <2> HIDE DEF v2, at
    <2>5. ASSUME v.clients[c].known, Agrees(n, s, c, v, fields)
          PROVE  Agrees(n1, s, c, v2, fields \cup {field})
      <3>1. v2.clients[c][field] = TrueValue(n, s, c, field)
        BY <2>4, <2>5
      <3>2. Agrees(n, s, c, v2, fields \cup {field})
        BY <2>4, <2>5, <3>1 DEF Agrees, TrueValue, AllFields
      <3> QED BY <1>12, <3>2
    <2>6. ASSUME NEW d \in Clients \ {c}
          PROVE  Knows(n1, s, k2, d, v2) /\ Follows(n1, s, k2, d, v2)
      <3>1. Knows(n1, s, k2, d, v)
        BY <1>15, <1>17 DEF Fits
      <3>2. Follows(n, s, k1, d, v)
        BY <1>17 DEF Tracks
      <3>3. \A F : Agrees(n1, s, d, v2, F) <=> Agrees(n1, s, d, v, F)
        BY <2>4 DEF Agrees
      <3>4. Knows(n1, s, k2, d, v2)
        BY <2>4, <3>1, <3>3 DEF Knows
      <3>5. Follows(n1, s, k2, d, v2)
        BY <1>3, <1>7, <1>10, <1>12, <1>13, <2>4, <3>2, <3>3 DEF Follows
      <3> QED BY <3>4, <3>5
    <2>7. Follows(n1, s, k2, c, v2)
      <3>1. Follows(n, s, k1, c, v)
        BY <1>17 DEF Tracks
      <3> QED BY <1>3, <1>7, <1>10, <1>14, <2>4, <2>5, <3>1 DEF Follows
    <2>8. Knows(n1, s, k2, c, v2)
      <3> SUFFICES ASSUME c \notin k.ever[s], v.clients[c].known,
                          ~ (v.clients[c].life < k.lives[c])
                   PROVE  /\ Managed(n1, c) /\ n1.shadow[c].known
                          /\ v2.clients[c].life = k.lives[c]
                          /\ v2.clients[c].generation <= n1.agents.generation[c]
                          /\ (Perceives(n1.agents, s, c) => Agrees(n1, s, c, v2, fields \cup {field}))
        BY <1>7, <1>14, <2>4 DEF Knows
      <3>1. Knows(n, s, k1, c, v) /\ Follows(n, s, k1, c, v)
        BY <1>17 DEF Tracks, Fits
      <3>2. v.clients[c].life = k.lives[c]
        BY <1>7, <3>1 DEF Knows
      <3>3. s \in Sessions
        BY <1>2 DEF AgentsOK
      <3>4. c \notin k.doubt[s]
        BY <3>3 DEF Ghost
      <3>5. Perceives(n1.agents, s, c) => Agrees(n, s, c, v, fields)
        BY <1>7, <1>10, <1>14, <3>1, <3>4 DEF Follows
      <3> QED BY <1>3, <1>4, <1>5, <2>4, <2>5, <3>2, <3>5 DEF Managed
    <2>9. FollowsFocus(n1, s, k2, v2) /\ FollowsWorkspace(n1, s, k2, v2)
      BY <1>3, <1>7, <1>10, <1>17, <2>4 DEF Tracks, FollowsFocus, FollowsWorkspace
    <2>10. Fits(n1, s, k2, v2) /\ Tracks(n1, s, k2, v2)
      BY <2>4, <2>6, <2>7, <2>8, <2>9 DEF Fits, Tracks
    <2> QED BY <2>4, <2>10 DEF v2, at
  <1>18. Lively(n1, k2.lives)
    <2> SUFFICES ASSUME NEW d \in Clients, Managed(n1, d)
                 PROVE  n1.desk[d].life = k.lives[d] /\ n1.agents.generation[d] > 0
      BY <1>7 DEF Lively
    <2>1. n.desk[d].life = k.lives[d] /\ n.agents.generation[d] > 0
      BY <1>2, <1>3 DEF Lively, Managed
    <2> QED BY <1>3, <1>4, <2>1
  <1>19. \A s \in OpenSessions(n1.agents) : event[s].kind # "resync_required"
    BY <1>6, <1>8, <1>9
  <1>20. \A s \in OpenSessions(n1.agents) : \A v :
              /\ Fits(n, s, k1, v) => Fits(n1, s, k2, v)
              /\ Fits(n, s, k1, v) /\ Tracks(n, s, k1, v) =>
                    IF Observes(n1, s, c)
                    THEN /\ "at" \in DOMAIN Changed(v, event[s])
                         /\ Fits(n1, s, k2, Next1(v, event[s], Sequence(n1, s) + 1))
                         /\ Tracks(n1, s, k2, Next1(v, event[s], Sequence(n1, s) + 1))
                    ELSE Tracks(n1, s, k2, v)
    BY <1>6, <1>10, <1>15, <1>16, <1>17 DEF Observes
  <1>21. Ok(n, k1) /\ k2.view = k1.view
    BY <1>7 DEF k1
  <1>22. Ok(n2, k2) /\ SameFace(n1, n2) /\ n2.outbox = n1.outbox
    BY <1>1, <1>3, <1>18, <1>19, <1>20, <1>21, EmitKeeps
  <1>23. n1.outbox = n.outbox
    BY <1>3 DEF SameTraffic
  <1> QED BY <1>22, <1>23 DEF n1, k2, kind

\* All but the shadow and what agents know of clients stays.
Framed(n, n2) ==
    /\ n2.desk = n.desk /\ n2.focus = n.focus /\ n2.current = n.current /\ n2.drag = n.drag
    /\ n2.shownFocus = n.shownFocus /\ n2.shownWorkspace = n.shownWorkspace
    /\ n2.matchers = n.matchers /\ n2.link = n.link /\ n2.outbox = n.outbox
    /\ OpenSessions(n2.agents) = OpenSessions(n.agents)

\* One shadow changes.
LEMMA ShadowFacts ==
    ASSUME NEW n, Sound(n), NEW c \in Clients, NEW x, x.known \in BOOLEAN
    PROVE  LET n1 == [n EXCEPT !.shadow[c] = x]
           IN  /\ Sound(n1) /\ SameTraffic(n, n1) /\ Framed(n, n1) /\ DOMAIN n1 = DOMAIN n
               /\ n1.agents = n.agents
               /\ n1.shadow[c] = x /\ \A d \in Clients \ {c} : n1.shadow[d] = n.shadow[d]
  <1> DEFINE n1 == [n EXCEPT !.shadow[c] = x]
  <1>1. /\ DOMAIN n1 = DOMAIN n /\ n1.agents = n.agents
        /\ n1.desk = n.desk /\ n1.focus = n.focus /\ n1.current = n.current /\ n1.drag = n.drag
        /\ n1.shadow = [n.shadow EXCEPT ![c] = x] /\ n1.shownFocus = n.shownFocus
        /\ n1.shownWorkspace = n.shownWorkspace
        /\ n1.matchers = n.matchers /\ n1.link = n.link /\ n1.outbox = n.outbox
        /\ n1.text = n.text /\ n1.observations = n.observations /\ n1.semantics = n.semantics
    BY DEF Sound, ManagerFields
  <1> HIDE DEF n1
  <1>2. /\ DOMAIN n1.shadow = Clients /\ n1.shadow[c] = x
        /\ \A d \in Clients \ {c} : n1.shadow[d] = n.shadow[d]
    BY <1>1 DEF Sound
  <1>3. Sound(n1)
    BY <1>1, <1>2 DEF Sound, DeskOK, Managed, Scoping
  <1>4. SameTraffic(n, n1) /\ Framed(n, n1)
    BY <1>1 DEF SameTraffic, Framed, Sub, Sequence
  <1> QED BY <1>1, <1>2, <1>3, <1>4 DEF n1

\* What reading that a client is there or is gone does to a view.
LEMMA ClientRead ==
    ASSUME NEW v, ViewOK(v), NEW c \in Clients, NEW event, NEW x, x.known \in BOOLEAN,
           x.known => /\ DOMAIN x = KnownFields /\ x.life \in Nat
                      /\ x.generation \in Nat \ {0},
           Changed(v, event) = [v EXCEPT !.clients[c] = x],
           NEW at \in Nat
    PROVE  LET v2 == Next1(v, event, at)
           IN  /\ "at" \in DOMAIN Changed(v, event)
               /\ ViewOK(v2) /\ v2.focus = v.focus /\ v2.current = v.current
               /\ \A d \in Clients \ {c} : v2.clients[d] = v.clients[d]
               /\ v2.clients[c] = x
  <1> DEFINE w == [v EXCEPT !.clients[c] = x]
             v2 == [w EXCEPT !.at = at]
  <1>1. /\ DOMAIN w = DOMAIN v /\ w.lost = v.lost /\ w.focus = v.focus /\ w.current = v.current
        /\ DOMAIN w.clients = Clients
        /\ \A d \in Clients \ {c} : w.clients[d] = v.clients[d]
        /\ w.clients[c] = x
    BY DEF ViewOK, ViewFields
  <1>2. w = Changed(v, event)
    OBVIOUS
  <1> HIDE DEF w
  <1>3. /\ DOMAIN v2 = DOMAIN v /\ v2.at = at /\ v2.lost = v.lost /\ v2.clients = w.clients
        /\ v2.focus = v.focus /\ v2.current = v.current
    BY <1>1 DEF ViewOK, ViewFields
  <1>4. v2 = Next1(v, event, at)
    BY <1>2 DEF Next1
  <1> HIDE DEF v2
  <1>5. ViewOK(v2)
    BY <1>1, <1>3 DEF ViewOK
  <1>6. "at" \in DOMAIN Changed(v, event)
    BY <1>1, <1>2 DEF ViewOK, ViewFields
  <1> QED BY <1>1, <1>3, <1>4, <1>5, <1>6

\* One client has appeared in the shadow, or gone from it: what is known of the others stays.
LEMMA OthersStay ==
    ASSUME NEW n, NEW n1, NEW c \in Clients, Framed(n, n1), n1.agents = n.agents,
           \A d \in Clients \ {c} : n1.shadow[d] = n.shadow[d],
           NEW s, NEW k, NEW v, NEW v2,
           \A d \in Clients \ {c} : v2.clients[d] = v.clients[d], NEW d \in Clients \ {c}
    PROVE  /\ Knows(n, s, k, d, v) => Knows(n1, s, k, d, v2)
           /\ Follows(n, s, k, d, v) => Follows(n1, s, k, d, v2)
  <1>1. Readable(n1, s, d) = Readable(n, s, d)
    BY DEF Readable
  <1>2. \A F : Agrees(n, s, d, v, F) <=> Agrees(n1, s, d, v2, F)
    BY <1>1 DEF Agrees
  <1>3. Managed(n1, d) <=> Managed(n, d)
    BY DEF Managed, Framed
  <1>4. Perceives(n1.agents, s, d) <=> Perceives(n.agents, s, d)
    OBVIOUS
  <1>5. n1.shadow[d] = n.shadow[d] /\ v2.clients[d] = v.clients[d] /\ n1.agents = n.agents
    OBVIOUS
  <1>6. Knows(n, s, k, d, v) => Knows(n1, s, k, d, v2)
    BY <1>2, <1>3, <1>4, <1>5 DEF Knows
  <1>7. Follows(n, s, k, d, v) => Follows(n1, s, k, d, v2)
    BY <1>2, <1>4, <1>5 DEF Follows
  <1> QED BY <1>6, <1>7

\* A client is seen for the first time.
LEMMA SyncMappedKeeps ==
    ASSUME NEW n, NEW k, Ok(n, k), Ghost(k), k.client = NoClient, NEW c \in Clients,
           Managed(n, c), ~ n.shadow[c].known
    PROVE  LET n2 == SyncMapped(n, c)
           IN  /\ Ok(n2, k) /\ Framed(n, n2)
               /\ n2.shadow[c] = Live(n, c)
               /\ \A d \in Clients \ {c} : n2.shadow[d] = n.shadow[d]
  <1> DEFINE live == Live(n, c)
             n1 == [n EXCEPT !.shadow[c] = live]
             event == [s \in OpenSessions(n.agents) |->
                         [kind |-> "client_mapped", client |-> c, descriptor |-> Descriptor(n, s, c)]]
             n2 == SyncMapped(n, c)
  <1>1. n2 = Emit(n1, "client_mapped", c, event)
    BY DEF SyncMapped
  <1>2. Sound(n) /\ Lively(n, k.lives) /\ AgentsOK(n.agents)
    BY DEF Ok, Sound
  <1>3. live.known /\ live.known \in BOOLEAN /\ live.title = n.desk[c].title
        /\ live.state = ClientState(n, c) /\ live.place = n.desk[c].place
    BY DEF Live
  <1> HIDE DEF live
  <1>4. /\ Sound(n1) /\ SameTraffic(n, n1) /\ Framed(n, n1)
        /\ n1.agents = n.agents
        /\ n1.shadow[c] = live /\ \A d \in Clients \ {c} : n1.shadow[d] = n.shadow[d]
    <2>1. live.known \in BOOLEAN
      BY <1>3
    <2> QED BY <1>2, <2>1, ShadowFacts
  <1> HIDE DEF n1, n2
  <1>5. Lively(n1, k.lives)
    BY <1>2, <1>4 DEF Lively, Framed, Managed
  <1>6. \A s \in OpenSessions(n.agents) :
           /\ event[s].kind = "client_mapped" /\ event[s].client = c
           /\ event[s].descriptor = Descriptor(n, s, c)
    OBVIOUS
  <1> HIDE DEF event
  <1>7. Asked(k, c) = AllFields
    BY NoClientAssumption DEF Asked
  <1>8. ASSUME NEW s \in OpenSessions(n.agents), NEW v, Fits(n, s, k, v)
        PROVE  /\ Fits(n1, s, k, v)
               /\ Tracks(n, s, k, v) /\ ~ Perceives(n.agents, s, c) => Tracks(n1, s, k, v)
    <2>1. ASSUME NEW d \in Clients PROVE Knows(n1, s, k, d, v)
      <3>1. CASE d # c
        BY <1>4, <1>8, <3>1, OthersStay DEF Fits
      <3>2. CASE d = c
        BY <1>8, <3>2 DEF Fits, Knows
      <3> QED BY <3>1, <3>2
    <2>2. ASSUME Tracks(n, s, k, v), ~ Perceives(n.agents, s, c) PROVE Tracks(n1, s, k, v)
      <3>1. ASSUME NEW d \in Clients PROVE Follows(n1, s, k, d, v)
        <4>1. CASE d # c
          BY <1>4, <2>2, <4>1, OthersStay DEF Tracks
        <4>2. CASE d = c
          BY <1>3, <1>4, <2>2, <4>2 DEF Follows
        <4> QED BY <4>1, <4>2
      <3>2. FollowsFocus(n1, s, k, v) /\ FollowsWorkspace(n1, s, k, v)
        BY <1>4, <2>2 DEF Tracks, FollowsFocus, FollowsWorkspace, Framed
      <3> QED BY <3>1, <3>2 DEF Tracks
    <2> QED BY <1>8, <2>1, <2>2 DEF Fits
  <1>9. ASSUME NEW s \in OpenSessions(n.agents), NEW v, Fits(n, s, k, v), Tracks(n, s, k, v)
        PROVE  LET v2 == Next1(v, event[s], Sequence(n1, s) + 1)
               IN  "at" \in DOMAIN Changed(v, event[s]) /\ Fits(n1, s, k, v2) /\ Tracks(n1, s, k, v2)
    <2> DEFINE at == Sequence(n1, s) + 1
               v2 == Next1(v, event[s], at)
               x == Descriptor(n, s, c)
    <2>1. at \in Nat
      BY <1>2, <1>4 DEF AgentsOK, SessionOK, Sequence
    <2>2. n.agents.generation[c] \in Nat \ {0} /\ n.desk[c].life = k.lives[c] /\ k.lives[c] \in Nat
      BY <1>2 DEF AgentsOK, Lively, Ghost
    <2>3. /\ x.known /\ x.known \in BOOLEAN /\ DOMAIN x = KnownFields
          /\ x.life = k.lives[c] /\ x.generation = n.agents.generation[c]
          /\ x.title = ReadableTitle(n, s, c) /\ x.state = ClientState(n, c)
          /\ x.place = n.desk[c].place
      BY <2>2 DEF Descriptor, KnownFields, Generation
    <2>4. Changed(v, event[s]) = [v EXCEPT !.clients[c] = x]
      BY <1>6 DEF Changed
    <2> HIDE DEF x, at
    <2>5. /\ "at" \in DOMAIN Changed(v, event[s])
          /\ ViewOK(v2) /\ v2.focus = v.focus /\ v2.current = v.current
          /\ \A d \in Clients \ {c} : v2.clients[d] = v.clients[d]
          /\ v2.clients[c] = x
      <3>1. ViewOK(v) /\ at \in Nat
        BY <1>9, <2>1 DEF Fits
      <3>2. x.known \in BOOLEAN
        BY <2>3
      <3>3. DOMAIN x = KnownFields /\ x.life \in Nat /\ x.generation \in Nat \ {0}
        BY <2>2, <2>3
      <3> QED BY <3>1, <3>2, <3>3, <2>4, ClientRead
    <2> HIDE DEF v2
    <2>6. Readable(n1, s, c) = ReadableTitle(n, s, c)
      BY <1>3, <1>4 DEF Readable, ReadableTitle
    <2>7. Agrees(n1, s, c, v2, AllFields)
      BY <1>3, <1>4, <2>3, <2>5, <2>6 DEF Agrees
    <2>8. ASSUME NEW d \in Clients PROVE Knows(n1, s, k, d, v2) /\ Follows(n1, s, k, d, v2)
      <3>1. CASE d # c
        <4>1. Knows(n, s, k, d, v) /\ Follows(n, s, k, d, v)
          BY <1>9 DEF Fits, Tracks
        <4> QED BY <1>4, <2>5, <3>1, <4>1, OthersStay
      <3>2. CASE d = c
        <4>1. Knows(n1, s, k, c, v2)
          BY <1>3, <1>4, <1>7, <2>2, <2>3, <2>5, <2>7 DEF Knows, Managed, Framed
        <4>2. Follows(n1, s, k, c, v2)
          BY <1>3, <1>4, <1>7, <2>3, <2>5, <2>7 DEF Follows
        <4> QED BY <3>2, <4>1, <4>2
      <3> QED BY <3>1, <3>2
    <2>9. FollowsFocus(n1, s, k, v2) /\ FollowsWorkspace(n1, s, k, v2)
      BY <1>4, <1>9, <2>5 DEF Tracks, FollowsFocus, FollowsWorkspace, Framed
    <2>10. Fits(n1, s, k, v2) /\ Tracks(n1, s, k, v2)
      BY <2>5, <2>8, <2>9 DEF Fits, Tracks
    <2> QED BY <2>5, <2>10 DEF v2, at
  <1>10. \A s \in OpenSessions(n1.agents) : event[s].kind # "resync_required"
    BY <1>4, <1>6
  <1>11. \A s \in OpenSessions(n1.agents) : \A v :
              /\ Fits(n, s, k, v) => Fits(n1, s, k, v)
              /\ Fits(n, s, k, v) /\ Tracks(n, s, k, v) =>
                    IF Observes(n1, s, c)
                    THEN /\ "at" \in DOMAIN Changed(v, event[s])
                         /\ Fits(n1, s, k, Next1(v, event[s], Sequence(n1, s) + 1))
                         /\ Tracks(n1, s, k, Next1(v, event[s], Sequence(n1, s) + 1))
                    ELSE Tracks(n1, s, k, v)
    BY <1>4, <1>8, <1>9 DEF Observes
  <1>12. Ok(n2, k) /\ SameFace(n1, n2) /\ n2.outbox = n1.outbox
    BY <1>1, <1>4, <1>5, <1>10, <1>11, EmitKeeps
  <1>13. Framed(n, n2) /\ n2.shadow = n1.shadow
    BY <1>4, <1>12 DEF SameFace, Framed
  <1> QED BY <1>4, <1>12, <1>13 DEF n2, live

\* ForgetClient forgets one client.
LEMMA ForgetFacts ==
    ASSUME NEW a, AgentsOK(a), NEW c \in Clients
    PROVE  LET a2 == ForgetClient(a, c)
           IN  /\ AgentsOK(a2) /\ OpenSessions(a2) = OpenSessions(a)
               /\ \A d \in Clients \ {c} : /\ a2.visibility[d] = a.visibility[d]
                                           /\ a2.generation[d] = a.generation[d]
               /\ \A s \in OpenSessions(a) :
                     LET x == a.sessions[s]
                         x2 == a2.sessions[s]
                     IN  /\ x2.subscription = x.subscription /\ x2.sequence = x.sequence
                         /\ x2.grant.capabilities = x.grant.capabilities
                         /\ \A d \in Clients \ {c} : Covers(x2.grant, d) <=> Covers(x.grant, d)
  <1> DEFINE a2 == ForgetClient(a, c)
  <1>1. /\ DOMAIN a2 = DOMAIN a
        /\ a2.visibility = [a.visibility EXCEPT ![c] = "visible"]
        /\ a2.generation = [a.generation EXCEPT ![c] = 0]
        /\ DOMAIN a2.sessions = DOMAIN a.sessions
        /\ \A s \in DOMAIN a.sessions : a2.sessions[s] = Forgetting(a.sessions[s], c)
    BY DEF ForgetClient, AgentsOK
  <1> HIDE DEF a2
  <1>2. /\ a2.visibility \in [Clients -> Visibilities] /\ a2.generation \in [Clients -> Nat]
        /\ \A d \in Clients \ {c} : /\ a2.visibility[d] = a.visibility[d]
                                    /\ a2.generation[d] = a.generation[d]
    BY <1>1 DEF AgentsOK, Visibilities
  <1>3. ASSUME NEW s \in OpenSessions(a)
        PROVE  LET x == a.sessions[s]
                   x2 == a2.sessions[s]
               IN  /\ SessionOK(x2)
                   /\ x2.subscription = x.subscription /\ x2.sequence = x.sequence
                   /\ x2.grant.capabilities = x.grant.capabilities
                   /\ \A d \in Clients \ {c} : Covers(x2.grant, d) <=> Covers(x.grant, d)
    <2> DEFINE x == a.sessions[s]
               x2 == a2.sessions[s]
               grant == Forget(x.grant, c)
    <2>1. SessionOK(x)
      BY DEF AgentsOK
    <2>2. x2 = [x EXCEPT !.grant = grant]
      BY <1>1 DEF Forgetting, OpenSessions
    <2> HIDE DEF x2
    <2>3. /\ DOMAIN x2 = DOMAIN x /\ x2.subscription = x.subscription
          /\ x2.sequence = x.sequence /\ x2.grant = grant
      BY <2>1, <2>2 DEF SessionOK
    <2>4. x.grant \in Grants
      BY <2>1 DEF SessionOK
    <2>5. /\ grant \in Grants /\ grant.capabilities = x.grant.capabilities
          /\ grant.scoped = x.grant.scoped /\ grant.scope = x.grant.scope \ {c}
      <3> DEFINE g == x.grant
      <3> HIDE DEF g
      <3>1. g \in Grants
        BY <2>4 DEF g
      <3>2. grant = [g EXCEPT !.scope = @ \ {c}]
        BY DEF Forget, g
      <3> QED BY <3>1, <3>2 DEF Grants, g
    <2> HIDE DEF grant, x
    <2>6. SessionOK(x2)
      BY <2>1, <2>3, <2>5 DEF SessionOK
    <2>7. \A d \in Clients \ {c} : Covers(grant, d) <=> Covers(x.grant, d)
      BY <2>5 DEF Covers
    <2> QED BY <2>3, <2>5, <2>6, <2>7 DEF x, x2
  <1>4. AgentsOK(a2)
    BY <1>1, <1>2, <1>3 DEF AgentsOK, OpenSessions
  <1> QED BY <1>1, <1>2, <1>3, <1>4 DEF a2, OpenSessions

\* A client that has gone is forgotten.
LEMMA ForgottenKeeps ==
    ASSUME NEW n, NEW k, Ok(n, k), NEW c \in Clients, ~ Managed(n, c), ~ n.shadow[c].known,
           "focus" \in k.pending \/ n.shownFocus = n.focus
    PROVE  LET n2 == [n EXCEPT !.agents = ForgetClient(@, c)]
           IN  /\ Ok(n2, k) /\ Framed(n, n2) /\ n2.shadow = n.shadow
               /\ \A s : \A d \in Clients \ {c} :
                     Perceives(n2.agents, s, d) <=> Perceives(n.agents, s, d)
  <1> DEFINE a == n.agents
             a2 == ForgetClient(a, c)
             n2 == [n EXCEPT !.agents = a2]
  <1>1. Sound(n) /\ Lively(n, k.lives) /\ AgentsOK(a)
    BY DEF Ok, Sound
  <1>2. /\ AgentsOK(a2) /\ OpenSessions(a2) = OpenSessions(a)
        /\ \A d \in Clients \ {c} : /\ a2.visibility[d] = a.visibility[d]
                                    /\ a2.generation[d] = a.generation[d]
        /\ \A s \in OpenSessions(a) :
              LET x == a.sessions[s]
                  x2 == a2.sessions[s]
              IN  /\ x2.subscription = x.subscription /\ x2.sequence = x.sequence
                  /\ x2.grant.capabilities = x.grant.capabilities
                  /\ \A d \in Clients \ {c} : Covers(x2.grant, d) <=> Covers(x.grant, d)
    BY <1>1, ForgetFacts
  <1> HIDE DEF a2
  <1>3. /\ DOMAIN n2 = DOMAIN n /\ n2.agents = a2
        /\ n2.desk = n.desk /\ n2.focus = n.focus /\ n2.current = n.current /\ n2.drag = n.drag
        /\ n2.shadow = n.shadow /\ n2.shownFocus = n.shownFocus
        /\ n2.shownWorkspace = n.shownWorkspace
        /\ n2.matchers = n.matchers /\ n2.link = n.link /\ n2.outbox = n.outbox
        /\ n2.text = n.text /\ n2.observations = n.observations /\ n2.semantics = n.semantics
    BY <1>1 DEF Sound, ManagerFields
  <1> HIDE DEF n2
  <1>4. Sound(n2)
    <2>1. DeskOK(n2)
      BY <1>1, <1>3 DEF Sound, DeskOK, Managed
    <2>2. Scoping(n2)
      BY <1>1, <1>2, <1>3 DEF Sound, Scoping, Managed
    <2> QED BY <1>1, <1>2, <1>3, <2>1, <2>2 DEF Sound
  <1>5. Lively(n2, k.lives)
    BY <1>1, <1>2, <1>3 DEF Lively, Managed
  <1>6. SameTraffic(n, n2) /\ Framed(n, n2)
    BY <1>2, <1>3 DEF SameTraffic, Framed, Sub, Sequence
  <1>7. \A s : \A d \in Clients \ {c} : Perceives(n2.agents, s, d) <=> Perceives(n.agents, s, d)
    BY <1>2, <1>3 DEF Perceives
  <1>8. ASSUME NEW s \in OpenSessions(n.agents)
        PROVE  Carries(n, k, n2, k, s)
    <2>1. \A d \in Clients \ {c} : Readable(n2, s, d) = Readable(n, s, d)
      BY <1>2, <1>3 DEF Readable
    <2>2. \A d \in Clients \ {c} : \A v, F : Agrees(n2, s, d, v, F) <=> Agrees(n, s, d, v, F)
      BY <1>3, <2>1 DEF Agrees
    <2>3. \A d \in Clients : \A v : Knows(n, s, k, d, v) => Knows(n2, s, k, d, v)
      <3> TAKE d \in Clients
      <3> TAKE v
      <3>1. CASE d = c
        BY <3>1 DEF Knows
      <3>2. CASE d # c
        BY <1>2, <1>3, <1>7, <2>2, <3>2 DEF Knows, Managed
      <3> QED BY <3>1, <3>2
    <2>4. \A d \in Clients : \A v : Follows(n, s, k, d, v) => Follows(n2, s, k, d, v)
      <3> TAKE d \in Clients
      <3> TAKE v
      <3>1. CASE d = c
        BY <1>3, <3>1 DEF Follows
      <3>2. CASE d # c
        BY <1>3, <1>7, <2>2, <3>2 DEF Follows
      <3> QED BY <3>1, <3>2
    <2>5. \A v : FollowsFocus(n, s, k, v) => FollowsFocus(n2, s, k, v)
      <3>1. n.shownFocus # c /\ n.shownFocus \in Clients
               => (Perceives(n2.agents, s, n.shownFocus) <=> Perceives(n.agents, s, n.shownFocus))
        BY <1>7
      <3>2. "focus" \notin k.pending => /\ n.shownFocus \in Clients \cup {NoClient}
                                        /\ n.shownFocus # c \/ n.shownFocus = NoClient
        BY <1>1 DEF Sound, DeskOK
      <3> QED BY <1>3, <3>1, <3>2 DEF FollowsFocus
    <2>6. \A v : FollowsWorkspace(n, s, k, v) => FollowsWorkspace(n2, s, k, v)
      BY <1>3 DEF FollowsWorkspace
    <2> QED BY <2>3, <2>4, <2>5, <2>6 DEF Carries, Fits, Tracks
  <1>9. Ok(n2, k)
    BY <1>4, <1>5, <1>6, <1>8, QuietKeeps
  <1>10. n2.shadow = n.shadow
    BY <1>3
  <1> QED BY <1>6, <1>7, <1>9, <1>10 DEF n2, a2

\* A client that has gone: its sessions are told, and it is forgotten.
LEMMA SyncClosedKeeps ==
    ASSUME NEW n, NEW k, Ok(n, k), NEW c \in Clients,
           ~ Managed(n, c), n.shadow[c].known,
           \A s \in OpenSessions(n.agents) : Perceives(n.agents, s, c) \/ c \in k.doubt[s],
           "focus" \in k.pending \/ n.shownFocus = n.focus
    PROVE  LET n3 == SyncClosed(n, c)
           IN  /\ Ok(n3, k) /\ Framed(n, n3)
               /\ n3.shadow[c] = NoShadow
               /\ \A d \in Clients \ {c} : n3.shadow[d] = n.shadow[d]
               /\ \A s : \A d \in Clients \ {c} :
                     Perceives(n3.agents, s, d) <=> Perceives(n.agents, s, d)
  <1> DEFINE n1 == [n EXCEPT !.shadow[c] = NoShadow]
             event == Everyone(n, [kind |-> "client_closed", client |-> c])
             n2 == Emit(n1, "client_closed", c, event)
             n3 == SyncClosed(n, c)
  <1>1. n3 = [n2 EXCEPT !.agents = ForgetClient(@, c)]
    BY DEF SyncClosed
  <1>2. Sound(n) /\ Lively(n, k.lives) /\ AgentsOK(n.agents)
    BY DEF Ok, Sound
  <1>3. /\ Sound(n1) /\ SameTraffic(n, n1) /\ Framed(n, n1)
        /\ n1.agents = n.agents
        /\ n1.shadow[c] = NoShadow /\ \A d \in Clients \ {c} : n1.shadow[d] = n.shadow[d]
    <2>1. NoShadow.known \in BOOLEAN
      BY DEF NoShadow
    <2> QED BY <1>2, <2>1, ShadowFacts
  <1> HIDE DEF n1, n3
  <1>4. Lively(n1, k.lives)
    BY <1>2, <1>3 DEF Lively, Framed, Managed
  <1>5. \A s \in OpenSessions(n.agents) : event[s].kind = "client_closed" /\ event[s].client = c
    BY DEF Everyone
  <1> HIDE DEF event
  <1>6. ASSUME NEW s \in OpenSessions(n.agents), NEW v, Fits(n, s, k, v)
        PROVE  /\ Fits(n1, s, k, v)
               /\ Tracks(n, s, k, v) /\ ~ Perceives(n.agents, s, c) => Tracks(n1, s, k, v)
    <2>1. ASSUME NEW d \in Clients PROVE Knows(n1, s, k, d, v)
      <3>1. CASE d # c
        BY <1>3, <1>6, <3>1, OthersStay DEF Fits
      <3>2. CASE d = c
        BY <1>6, <3>2 DEF Fits, Knows
      <3> QED BY <3>1, <3>2
    <2>2. ASSUME Tracks(n, s, k, v), ~ Perceives(n.agents, s, c) PROVE Tracks(n1, s, k, v)
      <3>1. ASSUME NEW d \in Clients PROVE Follows(n1, s, k, d, v)
        <4>1. CASE d # c
          BY <1>3, <2>2, <4>1, OthersStay DEF Tracks
        <4>2. CASE d = c
          BY <2>2, <4>2 DEF Follows
        <4> QED BY <4>1, <4>2
      <3>2. FollowsFocus(n1, s, k, v) /\ FollowsWorkspace(n1, s, k, v)
        BY <1>3, <2>2 DEF Tracks, FollowsFocus, FollowsWorkspace, Framed
      <3> QED BY <3>1, <3>2 DEF Tracks
    <2> QED BY <1>6, <2>1, <2>2 DEF Fits
  <1>7. ASSUME NEW s \in OpenSessions(n.agents), NEW v, Fits(n, s, k, v), Tracks(n, s, k, v)
        PROVE  LET v2 == Next1(v, event[s], Sequence(n1, s) + 1)
               IN  "at" \in DOMAIN Changed(v, event[s]) /\ Fits(n1, s, k, v2) /\ Tracks(n1, s, k, v2)
    <2> DEFINE at == Sequence(n1, s) + 1
               v2 == Next1(v, event[s], at)
    <2>1. at \in Nat
      BY <1>2, <1>3 DEF AgentsOK, SessionOK, Sequence
    <2>2. Changed(v, event[s]) = [v EXCEPT !.clients[c] = NoShadow]
      BY <1>5 DEF Changed
    <2> HIDE DEF at
    <2>3. /\ "at" \in DOMAIN Changed(v, event[s])
          /\ ViewOK(v2) /\ v2.focus = v.focus /\ v2.current = v.current
          /\ \A d \in Clients \ {c} : v2.clients[d] = v.clients[d]
          /\ v2.clients[c] = NoShadow
      <3>1. ViewOK(v)
        BY <1>7 DEF Fits
      <3>2. NoShadow.known \in BOOLEAN /\ ~ NoShadow.known
        BY DEF NoShadow
      <3> QED BY <2>1, <2>2, <3>1, <3>2, ClientRead
    <2> HIDE DEF v2
    <2>4. ~ v2.clients[c].known /\ ~ n1.shadow[c].known
      BY <1>3, <2>3 DEF NoShadow
    <2>5. ASSUME NEW d \in Clients PROVE Knows(n1, s, k, d, v2) /\ Follows(n1, s, k, d, v2)
      <3>1. CASE d # c
        <4>1. Knows(n, s, k, d, v) /\ Follows(n, s, k, d, v)
          BY <1>7 DEF Fits, Tracks
        <4> QED BY <1>3, <2>3, <3>1, <4>1, OthersStay
      <3>2. CASE d = c
        BY <2>4, <3>2 DEF Knows, Follows
      <3> QED BY <3>1, <3>2
    <2>6. FollowsFocus(n1, s, k, v2) /\ FollowsWorkspace(n1, s, k, v2)
      BY <1>3, <1>7, <2>3 DEF Tracks, FollowsFocus, FollowsWorkspace, Framed
    <2>7. Fits(n1, s, k, v2) /\ Tracks(n1, s, k, v2)
      BY <2>3, <2>5, <2>6 DEF Fits, Tracks
    <2> QED BY <2>3, <2>7 DEF v2, at
  <1>8. \A s \in OpenSessions(n1.agents) : event[s].kind # "resync_required"
    BY <1>3, <1>5
  <1>9. \A s \in OpenSessions(n1.agents) : \A v :
              /\ Fits(n, s, k, v) => Fits(n1, s, k, v)
              /\ Fits(n, s, k, v) /\ Tracks(n, s, k, v) =>
                    IF Observes(n1, s, c)
                    THEN /\ "at" \in DOMAIN Changed(v, event[s])
                         /\ Fits(n1, s, k, Next1(v, event[s], Sequence(n1, s) + 1))
                         /\ Tracks(n1, s, k, Next1(v, event[s], Sequence(n1, s) + 1))
                    ELSE Tracks(n1, s, k, v)
    BY <1>3, <1>6, <1>7 DEF Observes
  <1>10. Ok(n2, k) /\ SameFace(n1, n2) /\ n2.outbox = n1.outbox
    BY <1>3, <1>4, <1>8, <1>9, EmitKeeps
  <1> HIDE DEF n2
  <1>11. Framed(n, n2) /\ n2.shadow = n1.shadow
    BY <1>3, <1>10 DEF SameFace, Framed
  <1>12. /\ ~ Managed(n2, c) /\ ~ n2.shadow[c].known
         /\ "focus" \in k.pending \/ n2.shownFocus = n2.focus
    BY <1>3, <1>11 DEF Framed, Managed, NoShadow
  <1>13. /\ Ok(n3, k) /\ Framed(n2, n3) /\ n3.shadow = n2.shadow
         /\ \A s : \A d \in Clients \ {c} :
               Perceives(n3.agents, s, d) <=> Perceives(n2.agents, s, d)
    BY <1>1, <1>10, <1>12, ForgottenKeeps
  <1>14. \A s, d : Perceives(n2.agents, s, d) <=> Perceives(n.agents, s, d)
    BY <1>3, <1>10 DEF SameFace, Perceives
  <1>15. Framed(n, n3)
    BY <1>11, <1>13 DEF Framed
  <1> QED BY <1>3, <1>11, <1>13, <1>14, <1>15 DEF n3

\* A client is as the shadow has it; the place of one that is dragged may be behind.
Met(n, c) ==
    /\ n.shadow[c].known
    /\ n.shadow[c].title = n.desk[c].title
    /\ n.shadow[c].state = ClientState(n, c)
    /\ ~ n.drag.on => n.shadow[c].place = n.desk[c].place

\* A client is in the shadow while the announcements about it are under way.
Announcing(n, k, c, fields, pending) ==
    /\ Ok(n, Amid(k, c, fields, pending)) /\ Ghost(k)
    /\ Managed(n, c) /\ n.shadow[c].known

\* Before that.
Comparing(n, k, c) ==
    /\ Ok(n, k) /\ Ghost(k) /\ k.client = NoClient
    /\ Managed(n, c) /\ n.shadow[c].known
    /\ "focus" \in k.pending \/ n.shownFocus = n.focus

\* These fields are as they were.
Retains(n, c, x, who, fields) ==
    /\ fields \subseteq AllFields
    /\ "title" \in fields => who = {} /\ x.title = n.shadow[c].title
    /\ "state" \in fields => x.state = n.shadow[c].state
    /\ "place" \in fields => x.place = n.shadow[c].place

\* After the client has been noted in the shadow.
Noted(n, k, c, x, fields, n2) ==
    /\ Announcing(n2, k, c, fields, k.pending) /\ Framed(n, n2)
    /\ n2.shadow[c] = x
    /\ \A d \in Clients \ {c} : n2.shadow[d] = n.shadow[d]

\* Registering a client that is managed, and noting it in the shadow.
LEMMA NotedKeeps ==
    ASSUME NEW n, NEW k, NEW c \in Clients, Comparing(n, k, c), NEW who \in SUBSET {c},
           NEW known, Registered(n, known, who), NEW x, x.known = TRUE, NEW fields, Retains(n, c, x, who, fields),
           NEW n2, n2 = [known EXCEPT !.shadow[c] = x]
    PROVE  Noted(n, k, c, x, fields, n2)
  <1> DEFINE k2 == Amid(k, c, fields, k.pending)
  <1>. /\ Ok(n, k) /\ Ghost(k) /\ k.client = NoClient
       /\ Managed(n, c) /\ n.shadow[c].known
       /\ "focus" \in k.pending \/ n.shownFocus = n.focus
    BY DEF Comparing
  <1>0. /\ fields \subseteq AllFields
        /\ "title" \in fields => who = {} /\ x.title = n.shadow[c].title
        /\ "state" \in fields => x.state = n.shadow[c].state
        /\ "place" \in fields => x.place = n.shadow[c].place
    BY DEF Retains
  <1>1. Sound(n) /\ Lively(n, k.lives) /\ AgentsOK(n.agents)
    BY DEF Ok, Sound
  <1>2. /\ DOMAIN known = DOMAIN n /\ AgentsOK(known.agents)
        /\ known.desk = n.desk /\ known.focus = n.focus /\ known.current = n.current
        /\ known.drag = n.drag
        /\ known.shadow = n.shadow /\ known.shownFocus = n.shownFocus
        /\ known.shownWorkspace = n.shownWorkspace
        /\ known.matchers = n.matchers /\ known.link = n.link /\ known.outbox = n.outbox
        /\ known.text = n.text /\ known.observations = n.observations
        /\ known.semantics = n.semantics
        /\ OpenSessions(known.agents) = OpenSessions(n.agents)
    BY DEF Registered
  <1>3. \A d \in Clients : known.agents.generation[d] = n.agents.generation[d]
    <2> TAKE d \in Clients
    <2>1. n.agents.generation[c] \in Nat /\ n.agents.generation[c] > 0
      BY <1>1 DEF AgentsOK, Lively
    <2> QED BY <2>1 DEF Registered
  <1>4. \A s \in OpenSessions(n.agents) :
           /\ known.agents.sessions[s].subscription = n.agents.sessions[s].subscription
           /\ known.agents.sessions[s].sequence = n.agents.sessions[s].sequence
           /\ known.agents.sessions[s].grant.capabilities = n.agents.sessions[s].grant.capabilities
           /\ \A d \in Clients : Covers(known.agents.sessions[s].grant, d)
                                    <=> Covers(n.agents.sessions[s].grant, d)
    <2> TAKE s \in OpenSessions(n.agents)
    <2>1. c \in n.matchers[s] => Covers(n.agents.sessions[s].grant, c)
      BY <1>1 DEF Sound, Scoping
    <2>2. \A d \in Clients : Covers(known.agents.sessions[s].grant, d)
             <=> Covers(n.agents.sessions[s].grant, d) \/ (d \in who /\ d \in n.matchers[s])
      BY DEF Registered
    <2>3. \A d \in Clients : Covers(known.agents.sessions[s].grant, d)
                                <=> Covers(n.agents.sessions[s].grant, d)
      BY <2>1, <2>2
    <2> QED BY <2>3 DEF Registered
  <1>5. \A d \in Clients :
           /\ n.agents.visibility[d] = "hidden" => known.agents.visibility[d] = "hidden"
           /\ d \notin who => known.agents.visibility[d] = n.agents.visibility[d]
    BY DEF Registered
  <1>6. Sound(known)
    <2>1. DeskOK(known)
      BY <1>1, <1>2 DEF Sound, DeskOK, Managed
    <2>2. Scoping(known)
      BY <1>1, <1>2, <1>4 DEF Sound, Scoping, Managed
    <2> QED BY <1>1, <1>2, <2>1, <2>2 DEF Sound
  <1>7. /\ Sound(n2) /\ SameTraffic(known, n2) /\ Framed(known, n2)
        /\ n2.agents = known.agents
        /\ n2.shadow[c] = x /\ \A d \in Clients \ {c} : n2.shadow[d] = known.shadow[d]
    <2>1. x.known \in BOOLEAN
      OBVIOUS
    <2> QED BY <1>6, <2>1, ShadowFacts
  <1>8. Framed(n, n2)
    BY <1>2, <1>7 DEF Framed
  <1>9. SameTraffic(n, n2)
    BY <1>2, <1>4, <1>7 DEF SameTraffic, Sub, Sequence
  <1>10. Lively(n2, k.lives)
    BY <1>1, <1>3, <1>7, <1>8 DEF Lively, Framed, Managed
  <1>11. /\ k2.lives = k.lives /\ k2.view = k.view /\ k2.doubt = k.doubt /\ k2.ever = k.ever
         /\ k2.pending = k.pending
         /\ \A d \in Clients \ {c} : Asked(k2, d) = AllFields
         /\ Asked(k2, c) = fields
         /\ \A d \in Clients : Asked(k, d) = AllFields
    BY NoClientAssumption DEF Amid, Asked
  <1> HIDE DEF k2
  <1>12. ASSUME NEW s \in OpenSessions(n.agents)
         PROVE  Carries(n, k, n2, k2, s)
    <2>1. \A d \in Clients : /\ Perceives(n2.agents, s, d) => Perceives(n.agents, s, d)
                             /\ d \notin who => (Perceives(n2.agents, s, d) <=> Perceives(n.agents, s, d))
      BY <1>2, <1>4, <1>5, <1>7 DEF Perceives
    <2>2. \A d \in Clients \ {c} : Readable(n2, s, d) = Readable(n, s, d)
      BY <1>2, <1>4, <1>5, <1>7 DEF Readable
    <2>3. "title" \in fields => Readable(n2, s, c) = Readable(n, s, c)
      BY <1>0, <1>2, <1>4, <1>5, <1>7 DEF Readable
    <2>4. \A d \in Clients \ {c} : \A v : Agrees(n, s, d, v, AllFields) => Agrees(n2, s, d, v, AllFields)
      BY <1>2, <1>7, <2>2 DEF Agrees
    <2>5. \A v : Agrees(n, s, c, v, AllFields) => Agrees(n2, s, c, v, fields)
      BY <1>0, <1>7, <2>3 DEF Agrees, AllFields
    <2>6. \A d \in Clients : \A v : Agrees(n, s, d, v, AllFields) => Agrees(n2, s, d, v, Asked(k2, d))
      BY <1>11, <2>4, <2>5
    <2>7. \A d \in Clients : n2.shadow[d].known <=> n.shadow[d].known
      BY <1>2, <1>7
    <2>8. \A d \in Clients : n2.agents.generation[d] = n.agents.generation[d]
      BY <1>3, <1>7
    <2>9. \A d \in Clients : Managed(n2, d) <=> Managed(n, d)
      BY <1>8 DEF Framed, Managed
    <2>10. \A d \in Clients : \A v : Knows(n, s, k, d, v) => Knows(n2, s, k2, d, v)
      BY <1>11, <2>1, <2>6, <2>7, <2>8, <2>9 DEF Knows
    <2>11. \A d \in Clients : \A v : Follows(n, s, k, d, v) => Follows(n2, s, k2, d, v)
      BY <1>11, <2>1, <2>6, <2>7 DEF Follows
    <2>12. \A v : FollowsFocus(n, s, k, v) => FollowsFocus(n2, s, k2, v)
      <3>1. "focus" \notin k.pending => n.shownFocus \in Clients \cup {NoClient}
        BY <1>1 DEF Sound, DeskOK
      <3>2. n2.shownFocus = n.shownFocus
        BY <1>8 DEF Framed
      <3> QED BY <1>11, <2>1, <3>1, <3>2 DEF FollowsFocus
    <2>13. \A v : FollowsWorkspace(n, s, k, v) => FollowsWorkspace(n2, s, k2, v)
      BY <1>8, <1>11 DEF FollowsWorkspace, Framed
    <2> QED BY <2>10, <2>11, <2>12, <2>13 DEF Carries, Fits, Tracks
  <1>13. Ok(n2, k2)
    BY <1>7, <1>9, <1>10, <1>11, <1>12, QuietKeeps
  <1>14. Managed(n2, c) /\ n2.shadow[c].known
    BY <1>7, <1>8 DEF Framed, Managed
  <1>15. Announcing(n2, k, c, fields, k.pending)
    BY <1>13, <1>14 DEF Announcing, k2
  <1> QED BY <1>2, <1>7, <1>8, <1>15 DEF Noted

\* A field is announced, and nothing else moves.
LEMMA FieldKeeps ==
    ASSUME NEW n, NEW k, NEW c \in Clients, NEW fields, NEW pending,
           NEW field \in AllFields, NEW value, Announcing(n, k, c, fields, pending),
           \A s \in OpenSessions(n.agents) : value[s] = TrueValue(n, s, c, field)
    PROVE  LET n2 == Announce(n, c, KindOf(field), value)
           IN  /\ Announcing(n2, k, c, fields \cup {field}, pending)
               /\ Framed(n, n2) /\ n2.shadow = n.shadow
  <1> DEFINE n1 == [n EXCEPT !.agents = Touch(@, c)]
             n2 == Announce(n, c, KindOf(field), value)
  <1>0. /\ Ok(n, Amid(k, c, fields, pending)) /\ Ghost(k)
        /\ Managed(n, c) /\ n.shadow[c].known
    BY DEF Announcing
  <1>1. /\ Ok(n2, Amid(k, c, fields \cup {field}, pending))
        /\ n2.outbox = n.outbox /\ SameFace(n1, n2)
    BY <1>0, AnnounceKeeps, Zenon
  <1>2. Sound(n)
    BY <1>0 DEF Ok
  <1>3. /\ n1.desk = n.desk /\ n1.focus = n.focus /\ n1.current = n.current
        /\ n1.drag = n.drag /\ n1.shadow = n.shadow /\ n1.shownFocus = n.shownFocus
        /\ n1.shownWorkspace = n.shownWorkspace /\ n1.matchers = n.matchers
        /\ SameTraffic(n, n1)
    BY <1>2, TouchFacts
  <1> HIDE DEF n1, n2
  <1>4. Framed(n, n2) /\ n2.shadow = n.shadow
    BY <1>1, <1>3 DEF SameFace, SameTraffic, Framed
  <1>5. Announcing(n2, k, c, fields \cup {field}, pending)
    BY <1>0, <1>1, <1>4 DEF Announcing, Managed, Framed
  <1> QED BY <1>4, <1>5 DEF n2

\* Once all fields are announced nothing is special about the client.
LEMMA AllAnnounced ==
    ASSUME NEW n, NEW k, NEW c \in Clients, k.client = NoClient,
           Ok(n, Amid(k, c, AllFields, k.pending))
    PROVE  Ok(n, k)
  <1> DEFINE k1 == Amid(k, c, AllFields, k.pending)
  <1>1. /\ k1.lives = k.lives /\ k1.view = k.view /\ k1.doubt = k.doubt /\ k1.ever = k.ever
        /\ k1.pending = k.pending
        /\ \A d \in Clients : Asked(k1, d) = AllFields /\ Asked(k, d) = AllFields
    BY NoClientAssumption DEF Amid, Asked
  <1>2. Ok(n, k1)
    OBVIOUS
  <1> HIDE DEF k1
  <1>3. Sound(n) /\ Lively(n, k.lives) /\ SameTraffic(n, n)
    BY <1>1, <1>2 DEF Ok, SameTraffic
  <1>4. ASSUME NEW s \in OpenSessions(n.agents) PROVE Carries(n, k1, n, k, s)
    BY <1>1 DEF Carries, Fits, Tracks, Knows, Follows, FollowsFocus, FollowsWorkspace
  <1> QED BY <1>1, <1>2, <1>3, <1>4, QuietKeeps

\* A client that is known is compared with its shadow.
LEMMA SyncKnownKeeps ==
    ASSUME NEW n, NEW k, Ok(n, k), Ghost(k), k.client = NoClient, NEW c \in Clients,
           Managed(n, c), n.shadow[c].known,
           "focus" \in k.pending \/ n.shownFocus = n.focus
    PROVE  LET n2 == SyncKnown(n, c)
           IN  /\ Ok(n2, k) /\ Framed(n, n2) /\ Met(n2, c)
               /\ \A d \in Clients \ {c} : n2.shadow[d] = n.shadow[d]
  <1> DEFINE live == Live(n, c)
             old == n.shadow[c]
             moved == ~ n.drag.on /\ old.place # live.place
             listed == IF old.title # live.title THEN Register(n, c) ELSE n
             x == Shadowed(n, c, moved)
             noted == [listed EXCEPT !.shadow[c] = x]
             readable == [s \in OpenSessions(n.agents) |-> ReadableTitle(noted, s, c)]
             titled == IF old.title = live.title THEN noted
                       ELSE Announce(noted, c, "title_changed", readable)
             stated == IF old.state = live.state THEN titled
                       ELSE Announce(titled, c, "state_changed", Everyone(n, live.state))
             placed == IF ~ moved THEN stated
                       ELSE Announce(stated, c, "geometry_changed", Everyone(n, live.place))
             F0 == {f \in AllFields : \/ f = "title" /\ old.title = live.title
                                      \/ f = "state" /\ old.state = live.state
                                      \/ f = "place" /\ ~ moved}
             who == IF old.title # live.title THEN {c} ELSE {}
             p == k.pending
  <1>1. SyncKnown(n, c) = placed
    BY DEF SyncKnown
  <1>2. Sound(n) /\ Sane(n)
    BY DEF Ok, Sound, Sane
  <1>3. Registered(n, listed, who)
    BY <1>2, RegisterFacts, RegisteredRefl
  <1>4. live.title = n.desk[c].title /\ live.state = ClientState(n, c) /\ live.place = n.desk[c].place
    BY DEF Live
  <1>5. /\ x.known = TRUE /\ x.title = live.title /\ x.state = live.state
        /\ x.place = IF moved THEN live.place ELSE old.place
    BY DEF Shadowed, Live
  <1>6. ~ n.drag.on => x.place = live.place
    BY <1>5
  <1> HIDE DEF listed, x
  <1>7. /\ Announcing(noted, k, c, F0, p) /\ Framed(n, noted)
        /\ noted.shadow[c] = x
        /\ \A d \in Clients \ {c} : noted.shadow[d] = n.shadow[d]
    <2>1. Retains(n, c, x, who, F0) /\ who \in SUBSET {c}
      BY <1>5 DEF Retains
    <2>2. x.known = TRUE
      BY <1>5
    <2> HIDE DEF F0, who, live, moved
    <2>3. Comparing(n, k, c)
      BY DEF Comparing
    <2>4. noted = [listed EXCEPT !.shadow[c] = x]
      OBVIOUS
    <2> HIDE DEF noted
    <2>5. Noted(n, k, c, x, F0, noted)
      BY <1>3, <2>1, <2>2, <2>3, <2>4, NotedKeeps, Zenon
    <2> QED BY <2>5 DEF Noted
  <1> HIDE DEF noted
  <1>9. Announcing(titled, k, c, F0 \cup {"title"}, p) /\ Framed(n, titled) /\ titled.shadow = noted.shadow
    <2>1. CASE old.title = live.title
      <3>1. F0 \cup {"title"} = F0 /\ titled = noted
        BY <2>1 DEF AllFields
      <3> QED BY <1>7, <3>1, Zenon
    <2>2. CASE old.title # live.title
      <3> DEFINE n2 == Announce(noted, c, KindOf("title"), readable)
      <3>1. titled = n2
        BY <2>2 DEF KindOf
      <3>2. \A s \in OpenSessions(noted.agents) : readable[s] = TrueValue(noted, s, c, "title")
        <4>1. OpenSessions(noted.agents) = OpenSessions(n.agents) /\ noted.desk = n.desk
          BY <1>7 DEF Framed
        <4>2. \A s : ReadableTitle(noted, s, c) = Readable(noted, s, c)
          BY <1>4, <1>5, <1>7, <4>1 DEF Readable, ReadableTitle
        <4> QED BY <4>1, <4>2 DEF TrueValue
      <3> HIDE DEF readable, F0
      <3>5. Announcing(noted, k, c, F0, p) /\ "title" \in AllFields
        BY <1>7 DEF AllFields
      <3>3. /\ Announcing(n2, k, c, F0 \cup {"title"}, p) /\ Framed(noted, n2)
            /\ n2.shadow = noted.shadow
        BY <3>2, <3>5, FieldKeeps
      <3> HIDE DEF n2, titled
      <3>4. Framed(n, n2)
        BY <1>7, <3>3 DEF Framed
      <3> QED BY <3>1, <3>3, <3>4
    <2> QED BY <2>1, <2>2
  <1> HIDE DEF titled
  <1>11. /\ Announcing(stated, k, c, F0 \cup {"title"} \cup {"state"}, p) /\ Framed(n, stated)
         /\ stated.shadow = noted.shadow
    <2> DEFINE F1 == F0 \cup {"title"}
    <2>1. CASE old.state = live.state
      <3>1. F1 \cup {"state"} = F1 /\ stated = titled
        BY <2>1 DEF AllFields
      <3> QED BY <1>9, <3>1
    <2>2. CASE old.state # live.state
      <3> DEFINE value == Everyone(n, live.state)
                 n2 == Announce(titled, c, KindOf("state"), value)
      <3>1. stated = n2
        BY <2>2 DEF KindOf
      <3>2. \A s \in OpenSessions(titled.agents) : value[s] = TrueValue(titled, s, c, "state")
        <4>1. OpenSessions(titled.agents) = OpenSessions(n.agents)
          BY <1>9 DEF Framed
        <4>2. titled.shadow[c].state = live.state
          BY <1>5, <1>7, <1>9
        <4> QED BY <4>1, <4>2 DEF TrueValue, Everyone
      <3> HIDE DEF value, F1
      <3>5. Announcing(titled, k, c, F1, p) /\ "state" \in AllFields
        BY <1>9 DEF AllFields, F1
      <3>3. /\ Announcing(n2, k, c, F1 \cup {"state"}, p) /\ Framed(titled, n2)
            /\ n2.shadow = titled.shadow
        BY <3>2, <3>5, FieldKeeps
      <3> HIDE DEF n2, stated
      <3>4. Framed(n, n2)
        BY <1>9, <3>3 DEF Framed
      <3> QED BY <1>9, <3>1, <3>3, <3>4 DEF F1
    <2> QED BY <2>1, <2>2
  <1> HIDE DEF stated
  <1>13. /\ Announcing(placed, k, c, AllFields, p) /\ Framed(n, placed)
         /\ placed.shadow = noted.shadow
    <2> DEFINE F2 == F0 \cup {"title"} \cup {"state"}
    <2>0. F2 \cup {"place"} = AllFields
      BY DEF AllFields
    <2>1. CASE ~ moved
      <3>1. F2 = AllFields /\ placed = stated
        BY <2>1 DEF AllFields
      <3> QED BY <1>11, <3>1
    <2>2. CASE moved
      <3> DEFINE value == Everyone(n, live.place)
                 n2 == Announce(stated, c, KindOf("place"), value)
      <3>1. placed = n2
        BY <2>2 DEF KindOf
      <3>2. \A s \in OpenSessions(stated.agents) : value[s] = TrueValue(stated, s, c, "place")
        <4>1. OpenSessions(stated.agents) = OpenSessions(n.agents)
          BY <1>11 DEF Framed
        <4>2. stated.shadow[c].place = live.place
          BY <1>5, <1>7, <1>11, <2>2
        <4> QED BY <4>1, <4>2 DEF TrueValue, Everyone
      <3> HIDE DEF value, F2
      <3>3. Announcing(stated, k, c, F2, p) /\ "place" \in AllFields
        BY <1>11 DEF F2, AllFields
      <3>4. /\ Announcing(n2, k, c, F2 \cup {"place"}, p) /\ Framed(stated, n2)
            /\ n2.shadow = stated.shadow
        BY <3>2, <3>3, FieldKeeps
      <3> HIDE DEF n2, placed
      <3>5. Framed(n, n2)
        BY <1>11, <3>4 DEF Framed
      <3> QED BY <1>11, <2>0, <3>1, <3>4, <3>5, Zenon
    <2> QED BY <2>1, <2>2
  <1> HIDE DEF placed
  <1>14. Ok(placed, k)
    BY <1>13, AllAnnounced DEF Announcing
  <1>15. Met(placed, c)
    <2>1. placed.shadow[c] = x /\ placed.desk = n.desk /\ placed.drag = n.drag
      BY <1>7, <1>13 DEF Framed
    <2>2. ClientState(placed, c) = ClientState(n, c)
      BY <1>13 DEF Framed, ClientState
    <2> QED BY <1>4, <1>5, <1>6, <2>1, <2>2 DEF Met
  <1> QED BY <1>1, <1>7, <1>13, <1>14, <1>15

(* ---- sync_agent_events ---- *)
\* The shadows of other clients stay.
OthersShadowed(n, n2, T) == \A d \in Clients \ T : n2.shadow[d] = n.shadow[d]

\* Comparing one client with its shadow keeps the invariant, and makes them the same.
LEMMA SyncClientKeeps ==
    ASSUME NEW n, NEW k, Ok(n, k), Ghost(k), k.client = NoClient, NEW c \in Clients,
           "focus" \in k.pending \/ n.shownFocus = n.focus
    PROVE  LET n2 == SyncClient(n, c)
           IN  /\ Ok(n2, k) /\ Framed(n, n2) /\ OthersShadowed(n, n2, {c})
               /\ IF Managed(n, c) THEN Met(n2, c) ELSE n2.shadow[c] = n.shadow[c]
  <1> DEFINE n2 == SyncClient(n, c)
  <1>1. CASE ~ Managed(n, c)
    <2>1. n2 = n
      BY <1>1 DEF SyncClient
    <2> QED BY <1>1, <2>1 DEF Framed, OthersShadowed
  <1>2. CASE Managed(n, c) /\ n.shadow[c].known
    <2>1. n2 = SyncKnown(n, c)
      BY <1>2 DEF SyncClient
    <2> QED BY <1>2, <2>1, SyncKnownKeeps DEF OthersShadowed
  <1>3. CASE Managed(n, c) /\ ~ n.shadow[c].known
    <2>1. n2 = SyncMapped(n, c)
      BY <1>3 DEF SyncClient
    <2> HIDE DEF n2
    <2>2. /\ Ok(n2, k) /\ Framed(n, n2) /\ n2.shadow[c] = Live(n, c)
          /\ \A d \in Clients \ {c} : n2.shadow[d] = n.shadow[d]
      BY <1>3, <2>1, SyncMappedKeeps
    <2>3. Met(n2, c)
      BY <2>2 DEF Met, Live, Framed, ClientState
    <2> QED BY <1>3, <2>2, <2>3 DEF OthersShadowed, n2
  <1> QED BY <1>1, <1>2, <1>3

\* A client that is the same as its shadow stays so while others are compared.
LEMMA MetStays ==
    ASSUME NEW n, NEW n2, NEW c, Met(n, c), Framed(n, n2), n2.shadow[c] = n.shadow[c]
    PROVE  Met(n2, c)
  <1>1. ClientState(n2, c) = ClientState(n, c)
    BY DEF Framed, ClientState
  <1> QED BY <1>1 DEF Met, Framed

\* Leaving the desktop alone is transitive.
LEMMA FramedTrans ==
    ASSUME NEW n, NEW n2, NEW n3, Framed(n, n2), Framed(n2, n3)
    PROVE  Framed(n, n3)
  BY DEF Framed

\* The clients of T that have gone are closed, and the others are as they were.
Closed(n, k, T, n2) ==
    /\ Ok(n2, k) /\ Framed(n, n2) /\ OthersShadowed(n, n2, T)
    /\ \A c \in T : n2.shadow[c] = NoShadow
    /\ \A s : \A c \in Clients \ T : Perceives(n2.agents, s, c) <=> Perceives(n.agents, s, c)

\* The clients of T that are managed are as the shadow has them.
Compared(n, k, T, n2) ==
    /\ Ok(n2, k) /\ Framed(n, n2) /\ OthersShadowed(n, n2, T)
    /\ \A c \in T : IF Managed(n, c) THEN Met(n2, c) ELSE n2.shadow[c] = n.shadow[c]

\* Telling of the clients that have gone, and comparing the others with their shadows.
Closing ==
    INSTANCE FoldFacts WITH
        Op <- LAMBDA env, c, n : SyncClosed(n, c),
        Pick <- LAMBDA T : CHOOSE c \in T : TRUE,
        Holds <- LAMBDA env, T, n : Closed(env.first, env.known, T, n)

Comparison ==
    INSTANCE FoldFacts WITH
        Op <- LAMBDA env, c, n : SyncClient(n, c),
        Pick <- LAMBDA T : CHOOSE c \in T : TRUE,
        Holds <- LAMBDA env, T, n : Compared(env.first, env.known, T, n)

\* What comparing needs of the focus, in the same terms before and after a step.
Watching(n, k) == "focus" \in k.pending \/ n.shownFocus = n.focus

\* One more client that has gone is told of.
LEMMA ClosedStep ==
    ASSUME NEW n, NEW k, Watching(n, k), NEW T \in SUBSET Clients, NEW c \in T,
           ~ Managed(n, c), n.shadow[c].known,
           \A s \in OpenSessions(n.agents) : Perceives(n.agents, s, c) \/ c \in k.doubt[s],
           NEW n1, Closed(n, k, T \ {c}, n1)
    PROVE  Closed(n, k, T, SyncClosed(n1, c))
  <1> DEFINE n2 == SyncClosed(n1, c)
  <1>1. /\ Ok(n1, k) /\ Framed(n, n1) /\ OthersShadowed(n, n1, T \ {c})
        /\ \A d \in T \ {c} : n1.shadow[d] = NoShadow
        /\ \A s : \A d \in Clients \ (T \ {c}) :
              Perceives(n1.agents, s, d) <=> Perceives(n.agents, s, d)
    BY DEF Closed
  <1>2. /\ c \in Clients /\ ~ Managed(n1, c) /\ n1.shadow[c] = n.shadow[c]
        /\ \A s \in OpenSessions(n1.agents) : Perceives(n1.agents, s, c) \/ c \in k.doubt[s]
        /\ "focus" \in k.pending \/ n1.shownFocus = n1.focus
    BY <1>1 DEF Framed, Managed, OthersShadowed, Watching
  <1>3. n1.shadow[c].known
    BY <1>2
  <1>4. /\ Ok(n2, k) /\ Framed(n1, n2)
        /\ n2.shadow[c] = NoShadow
        /\ \A d \in Clients \ {c} : n2.shadow[d] = n1.shadow[d]
        /\ \A s : \A d \in Clients \ {c} :
              Perceives(n2.agents, s, d) <=> Perceives(n1.agents, s, d)
    BY <1>1, <1>2, <1>3, SyncClosedKeeps, Zenon
  <1> HIDE DEF n2
  <1>5. Framed(n, n2)
    BY <1>1, <1>4, FramedTrans
  <1>6. OthersShadowed(n, n2, T) /\ \A d \in T : n2.shadow[d] = NoShadow
    BY <1>1, <1>4 DEF OthersShadowed
  <1>7. \A s : \A d \in Clients \ T : Perceives(n2.agents, s, d) <=> Perceives(n.agents, s, d)
    BY <1>1, <1>4
  <1>8. Closed(n, k, T, n2)
    BY <1>4, <1>5, <1>6, <1>7 DEF Closed
  <1> QED BY <1>8 DEF n2

\* One more client is compared with its shadow.
LEMMA ComparedStep ==
    ASSUME NEW n, NEW k, Ghost(k), k.client = NoClient, Watching(n, k),
           NEW T \in SUBSET Clients, NEW c \in T,
           NEW n1, Compared(n, k, T \ {c}, n1)
    PROVE  Compared(n, k, T, SyncClient(n1, c))
  <1> DEFINE n2 == SyncClient(n1, c)
  <1>1. /\ Ok(n1, k) /\ Framed(n, n1) /\ OthersShadowed(n, n1, T \ {c})
        /\ \A d \in T \ {c} : IF Managed(n, d) THEN Met(n1, d) ELSE n1.shadow[d] = n.shadow[d]
    BY DEF Compared
  <1>2. /\ c \in Clients /\ n1.shadow[c] = n.shadow[c]
        /\ "focus" \in k.pending \/ n1.shownFocus = n1.focus
        /\ \A d : Managed(n1, d) <=> Managed(n, d)
    BY <1>1 DEF Framed, Managed, OthersShadowed, Watching
  <1>3. /\ Ok(n2, k) /\ Framed(n1, n2) /\ OthersShadowed(n1, n2, {c})
        /\ IF Managed(n1, c) THEN Met(n2, c) ELSE n2.shadow[c] = n1.shadow[c]
    BY <1>1, <1>2, SyncClientKeeps
  <1> HIDE DEF n2
  <1>4. Framed(n, n2)
    BY <1>1, <1>3, FramedTrans
  <1>5. OthersShadowed(n, n2, T)
    BY <1>1, <1>3 DEF OthersShadowed
  <1>6. ASSUME NEW d \in T
        PROVE  IF Managed(n, d) THEN Met(n2, d) ELSE n2.shadow[d] = n.shadow[d]
    <2>1. CASE d = c
      BY <1>2, <1>3, <2>1
    <2>2. CASE d # c
      <3>1. n2.shadow[d] = n1.shadow[d]
        BY <1>3, <2>2 DEF OthersShadowed
      <3>2. CASE Managed(n, d)
        BY <1>1, <1>3, <2>2, <3>1, <3>2, MetStays
      <3>3. CASE ~ Managed(n, d)
        BY <1>1, <2>2, <3>1, <3>3
      <3> QED BY <3>2, <3>3
    <2> QED BY <2>1, <2>2
  <1>7. Compared(n, k, T, n2)
    BY <1>3, <1>4, <1>5, <1>6 DEF Compared
  <1> QED BY <1>7 DEF n2

\* The work of sync_agent_events before the focus and the workspace.
Gone(n) == {c \in Clients : n.shadow[c].known /\ ~ Managed(n, c)}

\* The two folds of sync_agent_events.
CloseGone(n) == FoldSet(LAMBDA c, x : SyncClosed(x, c), n, Gone(n))

CompareAll(n) == FoldSet(LAMBDA c, x : SyncClient(x, c), n, Clients)

\* All that have gone are told of.
LEMMA CloseGoneKeeps ==
    ASSUME NEW n, NEW k, Ok(n, k), Watching(n, k),
           \A s \in OpenSessions(n.agents) : \A c \in Gone(n) :
              Perceives(n.agents, s, c) \/ c \in k.doubt[s]
    PROVE  Closed(n, k, Gone(n), CloseGone(n))
  <1> DEFINE gone == Gone(n)
             env == [first |-> n, known |-> k]
  <1>0. \A c \in gone : c \in Clients /\ n.shadow[c].known /\ ~ Managed(n, c)
    BY DEF Gone
  <1>1. Closing!IsFiniteSet(gone)
    <2>1. IsFiniteSet(gone)
      BY FiniteAssumption, FS_Subset DEF Gone
    <2> QED BY <2>1 DEF IsFiniteSet, Closing!IsFiniteSet
  <1>2. Closing!Picks(gone)
    BY DEF Closing!Picks
  <1>3. env.first = n /\ env.known = k
    OBVIOUS
  <1>4. CloseGone(n) = Closing!Fold(env, n, gone)
    BY DEF CloseGone, FoldSet, MapThenFoldSet, Closing!Fold
  <1> HIDE DEF env
  <1>5. Closed(env.first, env.known, {}, n)
    BY <1>3 DEF Closed, Framed, OthersShadowed
  <1>6. ASSUME NEW T \in SUBSET gone, NEW n1, T # {},
               Closed(n, k, T \ {CHOOSE c \in T : TRUE}, n1)
        PROVE  Closed(n, k, T, SyncClosed(n1, CHOOSE c \in T : TRUE))
    <2> DEFINE c == CHOOSE c \in T : TRUE
    <2>1. c \in T /\ c \in gone /\ T \in SUBSET Clients
      BY <1>0, <1>6
    <2>2. Closed(n, k, T \ {c}, n1)
      BY <1>6
    <2> HIDE DEF c, gone
    <2>3. ~ Managed(n, c)
      BY <1>0, <2>1
    <2>4. n.shadow[c].known
      BY <1>0, <2>1
    <2>5. \A s \in OpenSessions(n.agents) : Perceives(n.agents, s, c) \/ c \in k.doubt[s]
      BY <2>1 DEF gone
    <2>6. Closed(n, k, T, SyncClosed(n1, c))
      BY <2>1, <2>2, <2>3, <2>4, <2>5, ClosedStep
    <2> QED BY <2>6 DEF c
  <1>7. \A T \in SUBSET gone : \A n1 :
           T # {} /\ Closed(env.first, env.known, T \ {CHOOSE c \in T : TRUE}, n1) =>
              Closed(env.first, env.known, T, SyncClosed(n1, CHOOSE c \in T : TRUE))
    BY <1>3, <1>6
  <1> HIDE DEF gone
  <1>8. Closed(env.first, env.known, gone, Closing!Fold(env, n, gone))
    BY <1>1, <1>2, <1>5, <1>7, Closing!FoldKeeps
  <1> QED BY <1>3, <1>4, <1>8 DEF gone

\* All clients are compared with their shadows.
LEMMA CompareAllKeeps ==
    ASSUME NEW n, NEW k, Ok(n, k), Ghost(k), k.client = NoClient, Watching(n, k)
    PROVE  Compared(n, k, Clients, CompareAll(n))
  <1> DEFINE env == [first |-> n, known |-> k]
  <1>1. Comparison!IsFiniteSet(Clients)
    <2>1. IsFiniteSet(Clients)
      BY FiniteAssumption
    <2> QED BY <2>1 DEF IsFiniteSet, Comparison!IsFiniteSet
  <1>2. Comparison!Picks(Clients)
    BY DEF Comparison!Picks
  <1>3. env.first = n /\ env.known = k
    OBVIOUS
  <1>4. CompareAll(n) = Comparison!Fold(env, n, Clients)
    BY DEF CompareAll, FoldSet, MapThenFoldSet, Comparison!Fold
  <1> HIDE DEF env
  <1>5. Compared(env.first, env.known, {}, n)
    BY <1>3 DEF Compared, Framed, OthersShadowed
  <1>6. ASSUME NEW T \in SUBSET Clients, NEW n1, T # {},
               Compared(n, k, T \ {CHOOSE c \in T : TRUE}, n1)
        PROVE  Compared(n, k, T, SyncClient(n1, CHOOSE c \in T : TRUE))
    BY <1>6, ComparedStep, Zenon
  <1>7. \A T \in SUBSET Clients : \A n1 :
           T # {} /\ Compared(env.first, env.known, T \ {CHOOSE c \in T : TRUE}, n1) =>
              Compared(env.first, env.known, T, SyncClient(n1, CHOOSE c \in T : TRUE))
    BY <1>3, <1>6
  <1>8. Compared(env.first, env.known, Clients, Comparison!Fold(env, n, Clients))
    BY <1>1, <1>2, <1>5, <1>7, Comparison!FoldKeeps
  <1> QED BY <1>3, <1>4, <1>8

\* The events about no client.  Other parts of the view than the one they change stay.
SameClients(v, v2) == ViewOK(v2) /\ v2.clients = v.clients

\* What reading an event about no client does to a view.
LEMMA PlainRead ==
    ASSUME NEW v, ViewOK(v), NEW event, NEW x, NEW at \in Nat,
           \/ event.kind = "focus_changed" /\ event.client = x
           \/ event.kind = "workspace_switched" /\ event.workspace = x
    PROVE  LET v2 == Next1(v, event, at)
           IN  /\ "at" \in DOMAIN Changed(v, event)
               /\ SameClients(v, v2)
               /\ event.kind = "focus_changed" => v2.focus = x /\ v2.current = v.current
               /\ event.kind = "workspace_switched" => v2.current = x /\ v2.focus = v.focus
  <1> DEFINE w == Changed(v, event)
             v2 == [w EXCEPT !.at = at]
  <1>1. /\ DOMAIN w = DOMAIN v /\ w.lost = v.lost /\ w.clients = v.clients
        /\ event.kind = "focus_changed" => w.focus = x /\ w.current = v.current
        /\ event.kind = "workspace_switched" => w.current = x /\ w.focus = v.focus
    <2>1. CASE event.kind = "focus_changed"
      <3>1. w = [v EXCEPT !.focus = x]
        BY <2>1 DEF Changed
      <3> HIDE DEF w
      <3> QED BY <2>1, <3>1 DEF ViewOK, ViewFields
    <2>2. CASE event.kind = "workspace_switched"
      <3>1. w = [v EXCEPT !.current = x]
        BY <2>2 DEF Changed
      <3> HIDE DEF w
      <3> QED BY <2>2, <3>1 DEF ViewOK, ViewFields
    <2> QED BY <2>1, <2>2
  <1>2. v2 = Next1(v, event, at)
    BY DEF Next1
  <1>3. "at" \in DOMAIN w
    BY <1>1 DEF ViewOK, ViewFields
  <1> HIDE DEF w
  <1>4. /\ DOMAIN v2 = DOMAIN v /\ v2.at = at /\ v2.lost = v.lost /\ v2.clients = w.clients
        /\ v2.focus = w.focus /\ v2.current = w.current
    BY <1>1 DEF ViewOK, ViewFields
  <1> HIDE DEF v2
  <1>5. SameClients(v, v2)
    BY <1>1, <1>4 DEF ViewOK, SameClients
  <1>6. /\ event.kind = "focus_changed" => v2.focus = x /\ v2.current = v.current
        /\ event.kind = "workspace_switched" => v2.current = x /\ v2.focus = v.focus
    BY <1>1, <1>4
  <1> QED BY <1>2, <1>3, <1>5, <1>6 DEF w

\* All but what has been shown of the focus and the workspace stays.
Unshown(n, n2) ==
    /\ n2.desk = n.desk /\ n2.focus = n.focus /\ n2.current = n.current /\ n2.drag = n.drag
    /\ n2.shadow = n.shadow
    /\ n2.matchers = n.matchers /\ n2.link = n.link /\ n2.outbox = n.outbox
    /\ OpenSessions(n2.agents) = OpenSessions(n.agents)

\* Nothing but the focus and the workspace that are shown is different, and v2 has the
\* same clients as v.
LEMMA ClientsStay ==
    ASSUME NEW n, NEW n1, n1.shadow = n.shadow, n1.desk = n.desk, n1.agents = n.agents,
           NEW s, NEW k, NEW k2, k2.lives = k.lives, k2.doubt = k.doubt, k2.ever = k.ever,
           k.client = NoClient, k2.client = NoClient, NEW v, NEW v2, SameClients(v, v2)
    PROVE  /\ Fits(n, s, k, v) => Fits(n1, s, k2, v2)
           /\ \A c \in Clients : Follows(n, s, k, c, v) => Follows(n1, s, k2, c, v2)
  <1>1. \A c : Readable(n1, s, c) = Readable(n, s, c)
    BY DEF Readable
  <1>2. \A c, F : Agrees(n, s, c, v, F) <=> Agrees(n1, s, c, v2, F)
    BY <1>1 DEF Agrees, SameClients
  <1>3. \A c \in Clients : Asked(k2, c) = AllFields /\ Asked(k, c) = AllFields
    BY NoClientAssumption DEF Asked
  <1>4. v2.clients = v.clients /\ ViewOK(v2)
    BY DEF SameClients
  <1>5. \A c \in Clients : Knows(n, s, k, c, v) => Knows(n1, s, k2, c, v2)
    BY <1>2, <1>3, <1>4 DEF Knows, Managed
  <1>6. \A c \in Clients : Follows(n, s, k, c, v) => Follows(n1, s, k2, c, v2)
    BY <1>2, <1>3, <1>4 DEF Follows
  <1> QED BY <1>4, <1>5, <1>6 DEF Fits

\* The shadow of the focus, or of the workspace, changes.
LEMMA ShownFacts ==
    ASSUME NEW n, Sound(n), NEW n1,
           n1 = [n EXCEPT !.shownFocus = n.focus] \/ n1 = [n EXCEPT !.shownWorkspace = n.current]
    PROVE  /\ Sound(n1) /\ SameTraffic(n, n1) /\ Unshown(n, n1) /\ n1.agents = n.agents
           /\ n1 = [n EXCEPT !.shownFocus = n.focus] =>
                 n1.shownFocus = n.focus /\ n1.shownWorkspace = n.shownWorkspace
           /\ n1 = [n EXCEPT !.shownWorkspace = n.current] =>
                 n1.shownWorkspace = n.current /\ n1.shownFocus = n.shownFocus
  <1>1. /\ DOMAIN n1 = DOMAIN n /\ n1.agents = n.agents
        /\ n1.desk = n.desk /\ n1.focus = n.focus /\ n1.current = n.current /\ n1.drag = n.drag
        /\ n1.shadow = n.shadow
        /\ n1.matchers = n.matchers /\ n1.link = n.link /\ n1.outbox = n.outbox
        /\ n1.text = n.text /\ n1.observations = n.observations /\ n1.semantics = n.semantics
    BY DEF Sound, ManagerFields
  <1>2. /\ n1 = [n EXCEPT !.shownFocus = n.focus] =>
              n1.shownFocus = n.focus /\ n1.shownWorkspace = n.shownWorkspace
        /\ n1 = [n EXCEPT !.shownWorkspace = n.current] =>
              n1.shownWorkspace = n.current /\ n1.shownFocus = n.shownFocus
    BY DEF Sound, ManagerFields
  <1>3. Sound(n1)
    BY <1>1 DEF Sound, DeskOK, Managed, Scoping
  <1>4. SameTraffic(n, n1) /\ Unshown(n, n1)
    BY <1>1 DEF SameTraffic, Unshown, Sub, Sequence
  <1> QED BY <1>1, <1>2, <1>3, <1>4

\* The focus is announced.
LEMMA SyncFocusKeeps ==
    ASSUME NEW n, NEW k, Ok(n, k), k.client = NoClient,
           "focus" \in k.pending <=> n.shownFocus # n.focus
    PROVE  LET n2 == SyncFocus(n)
           IN  /\ Ok(n2, Amid(k, NoClient, {}, k.pending \ {"focus"})) /\ Unshown(n, n2)
               /\ n2.shownFocus = n.focus /\ n2.shownWorkspace = n.shownWorkspace
  <1> DEFINE k2 == Amid(k, NoClient, {}, k.pending \ {"focus"})
             n1 == [n EXCEPT !.shownFocus = n.focus]
             event == [s \in OpenSessions(n.agents) |->
                         [kind |-> "focus_changed", client |-> SeenFocus(n, s)]]
             n2 == Emit(n1, "focus_changed", NoClient, event)
  <1>1. Sound(n) /\ Lively(n, k.lives) /\ AgentsOK(n.agents)
    BY DEF Ok, Sound
  <1>2. /\ k2.lives = k.lives /\ k2.view = k.view /\ k2.doubt = k.doubt /\ k2.ever = k.ever
        /\ k2.client = NoClient
        /\ "focus" \notin k2.pending
        /\ "workspace" \in k.pending => "workspace" \in k2.pending
    BY DEF Amid
  <1> HIDE DEF k2
  <1>3. CASE n.shownFocus = n.focus
    <2>1. SyncFocus(n) = n
      BY <1>3 DEF SyncFocus
    <2>2. SameTraffic(n, n)
      BY DEF SameTraffic
    <2>3. ASSUME NEW s \in OpenSessions(n.agents) PROVE Carries(n, k, n, k2, s)
      <3> SUFFICES ASSUME NEW v, Fits(n, s, k, v)
                   PROVE  Fits(n, s, k2, v) /\ (Tracks(n, s, k, v) => Tracks(n, s, k2, v))
        BY DEF Carries
      <3>1. SameClients(v, v)
        BY DEF SameClients, Fits
      <3>2. /\ Fits(n, s, k2, v)
            /\ \A c \in Clients : Follows(n, s, k, c, v) => Follows(n, s, k2, c, v)
        BY <1>2, <3>1, ClientsStay
      <3>3. FollowsFocus(n, s, k, v) => FollowsFocus(n, s, k2, v)
        BY <1>2, <1>3 DEF FollowsFocus
      <3>4. FollowsWorkspace(n, s, k, v) => FollowsWorkspace(n, s, k2, v)
        BY <1>2 DEF FollowsWorkspace
      <3> QED BY <3>2, <3>3, <3>4 DEF Tracks
    <2>4. Ok(n, k2)
      BY <1>1, <1>2, <2>2, <2>3, QuietKeeps
    <2> QED BY <1>3, <2>1, <2>4 DEF Unshown, k2
  <1>4. CASE n.shownFocus # n.focus
    <2>1. SyncFocus(n) = n2
      BY <1>4 DEF SyncFocus
    <2>2. /\ Sound(n1) /\ SameTraffic(n, n1) /\ Unshown(n, n1) /\ n1.agents = n.agents
          /\ n1.shownFocus = n.focus /\ n1.shownWorkspace = n.shownWorkspace
      BY <1>1, ShownFacts
    <2> HIDE DEF n1
    <2>3. Lively(n1, k2.lives)
      BY <1>1, <1>2, <2>2 DEF Lively, Unshown, Managed
    <2>4. \A s \in OpenSessions(n.agents) :
             event[s].kind = "focus_changed" /\ event[s].client = SeenFocus(n, s)
      OBVIOUS
    <2> HIDE DEF event
    <2>5. \A s \in OpenSessions(n1.agents) : event[s].kind # "resync_required"
      BY <2>2, <2>4
    <2>6. n1.shadow = n.shadow /\ n1.desk = n.desk /\ n1.focus = n.focus
      BY <2>2 DEF Unshown
    <2>7. ASSUME NEW s \in OpenSessions(n1.agents), NEW v
          PROVE  /\ Fits(n, s, k, v) => Fits(n1, s, k2, v)
                 /\ Fits(n, s, k, v) /\ Tracks(n, s, k, v) =>
                       IF Observes(n1, s, NoClient)
                       THEN /\ "at" \in DOMAIN Changed(v, event[s])
                            /\ Fits(n1, s, k2, Next1(v, event[s], Sequence(n1, s) + 1))
                            /\ Tracks(n1, s, k2, Next1(v, event[s], Sequence(n1, s) + 1))
                       ELSE Tracks(n1, s, k2, v)
      <3>1. ASSUME Fits(n, s, k, v) PROVE Fits(n1, s, k2, v)
        <4>1. SameClients(v, v)
          BY <3>1 DEF SameClients, Fits
        <4> QED BY <1>2, <2>2, <2>6, <3>1, <4>1, ClientsStay
      <3>2. ASSUME Fits(n, s, k, v), Tracks(n, s, k, v)
            PROVE  LET v2 == Next1(v, event[s], Sequence(n1, s) + 1)
                   IN  /\ "at" \in DOMAIN Changed(v, event[s])
                       /\ Fits(n1, s, k2, v2) /\ Tracks(n1, s, k2, v2)
        <4> DEFINE at == Sequence(n1, s) + 1
                   v2 == Next1(v, event[s], at)
        <4>1. at \in Nat
          BY <1>1, <2>2 DEF AgentsOK, SessionOK, Sequence
        <4>2. ViewOK(v) /\ event[s].kind = "focus_changed"
          BY <2>2, <2>4, <3>2 DEF Fits
        <4> HIDE DEF at
        <4>3. /\ "at" \in DOMAIN Changed(v, event[s]) /\ SameClients(v, v2)
              /\ v2.focus = event[s].client /\ v2.current = v.current
          BY <4>1, <4>2, PlainRead
        <4> HIDE DEF v2
        <4>4. /\ Fits(n1, s, k2, v2)
              /\ \A c \in Clients : Follows(n, s, k, c, v) => Follows(n1, s, k2, c, v2)
          BY <1>2, <2>2, <2>6, <3>2, <4>3, ClientsStay
        <4>5. FollowsFocus(n1, s, k2, v2)
          <5>1. v2.focus = SeenFocus(n, s)
            BY <2>2, <2>4, <4>3
          <5> QED BY <2>2, <5>1 DEF FollowsFocus, SeenFocus
        <4>6. FollowsWorkspace(n1, s, k2, v2)
          BY <1>2, <2>2, <3>2, <4>3 DEF Tracks, FollowsWorkspace
        <4>7. Tracks(n1, s, k2, v2)
          BY <3>2, <4>4, <4>5, <4>6 DEF Tracks
        <4> QED BY <4>3, <4>4, <4>7 DEF v2, at
      <3> QED BY <3>1, <3>2 DEF Observes
    <2>8. Ok(n2, k2) /\ SameFace(n1, n2) /\ n2.outbox = n1.outbox
      BY <1>2, <2>2, <2>3, <2>5, <2>7, EmitKeeps
    <2> HIDE DEF n2
    <2>9. /\ Unshown(n, n2) /\ n2.shownFocus = n.focus
          /\ n2.shownWorkspace = n.shownWorkspace
      BY <2>2, <2>8 DEF SameFace, Unshown
    <2> QED BY <2>1, <2>8, <2>9 DEF k2
  <1> QED BY <1>3, <1>4

\* The workspace is announced.
LEMMA SyncWorkspaceKeeps ==
    ASSUME NEW n, NEW k, Ok(n, k), k.client = NoClient, k.pending \subseteq {"workspace"},
           "workspace" \in k.pending <=> n.shownWorkspace # n.current
    PROVE  LET n2 == SyncWorkspace(n)
           IN  /\ Ok(n2, Amid(k, NoClient, {}, {})) /\ Unshown(n, n2)
               /\ n2.shownWorkspace = n.current /\ n2.shownFocus = n.shownFocus
  <1> DEFINE k2 == Amid(k, NoClient, {}, {})
             n1 == [n EXCEPT !.shownWorkspace = n.current]
             event == Everyone(n, [kind |-> "workspace_switched", workspace |-> n.current])
             n2 == Emit(n1, "workspace_switched", NoClient, event)
  <1>1. Sound(n) /\ Lively(n, k.lives) /\ AgentsOK(n.agents)
    BY DEF Ok, Sound
  <1>2. /\ k2.lives = k.lives /\ k2.view = k.view /\ k2.doubt = k.doubt /\ k2.ever = k.ever
        /\ k2.client = NoClient /\ "focus" \notin k.pending
    BY DEF Amid
  <1> HIDE DEF k2
  <1>3. CASE n.shownWorkspace = n.current
    <2>1. SyncWorkspace(n) = n
      BY <1>3 DEF SyncWorkspace
    <2>2. SameTraffic(n, n)
      BY DEF SameTraffic
    <2>3. ASSUME NEW s \in OpenSessions(n.agents) PROVE Carries(n, k, n, k2, s)
      <3> SUFFICES ASSUME NEW v, Fits(n, s, k, v)
                   PROVE  Fits(n, s, k2, v) /\ (Tracks(n, s, k, v) => Tracks(n, s, k2, v))
        BY DEF Carries
      <3>1. SameClients(v, v)
        BY DEF SameClients, Fits
      <3>2. /\ Fits(n, s, k2, v)
            /\ \A c \in Clients : Follows(n, s, k, c, v) => Follows(n, s, k2, c, v)
        BY <1>2, <3>1, ClientsStay
      <3>3. FollowsFocus(n, s, k, v) => FollowsFocus(n, s, k2, v)
        BY <1>2 DEF FollowsFocus
      <3>4. FollowsWorkspace(n, s, k, v) => FollowsWorkspace(n, s, k2, v)
        BY <1>2, <1>3 DEF FollowsWorkspace
      <3> QED BY <3>2, <3>3, <3>4 DEF Tracks
    <2>4. Ok(n, k2)
      BY <1>1, <1>2, <2>2, <2>3, QuietKeeps
    <2> QED BY <1>3, <2>1, <2>4 DEF Unshown, k2
  <1>4. CASE n.shownWorkspace # n.current
    <2>1. SyncWorkspace(n) = n2
      BY <1>4 DEF SyncWorkspace
    <2>2. /\ Sound(n1) /\ SameTraffic(n, n1) /\ Unshown(n, n1) /\ n1.agents = n.agents
          /\ n1.shownFocus = n.shownFocus /\ n1.shownWorkspace = n.current
      BY <1>1, ShownFacts
    <2> HIDE DEF n1
    <2>3. Lively(n1, k2.lives)
      BY <1>1, <1>2, <2>2 DEF Lively, Unshown, Managed
    <2>4. \A s \in OpenSessions(n.agents) :
             event[s].kind = "workspace_switched" /\ event[s].workspace = n.current
      BY DEF Everyone
    <2> HIDE DEF event
    <2>5. \A s \in OpenSessions(n1.agents) : event[s].kind # "resync_required"
      BY <2>2, <2>4
    <2>6. n1.shadow = n.shadow /\ n1.desk = n.desk /\ n1.focus = n.focus
      BY <2>2 DEF Unshown
    <2>7. ASSUME NEW s \in OpenSessions(n1.agents), NEW v
          PROVE  /\ Fits(n, s, k, v) => Fits(n1, s, k2, v)
                 /\ Fits(n, s, k, v) /\ Tracks(n, s, k, v) =>
                       IF Observes(n1, s, NoClient)
                       THEN /\ "at" \in DOMAIN Changed(v, event[s])
                            /\ Fits(n1, s, k2, Next1(v, event[s], Sequence(n1, s) + 1))
                            /\ Tracks(n1, s, k2, Next1(v, event[s], Sequence(n1, s) + 1))
                       ELSE Tracks(n1, s, k2, v)
      <3>1. ASSUME Fits(n, s, k, v) PROVE Fits(n1, s, k2, v)
        <4>1. SameClients(v, v)
          BY <3>1 DEF SameClients, Fits
        <4> QED BY <1>2, <2>2, <2>6, <3>1, <4>1, ClientsStay
      <3>2. ASSUME Fits(n, s, k, v), Tracks(n, s, k, v)
            PROVE  LET v2 == Next1(v, event[s], Sequence(n1, s) + 1)
                   IN  /\ "at" \in DOMAIN Changed(v, event[s])
                       /\ Fits(n1, s, k2, v2) /\ Tracks(n1, s, k2, v2)
        <4> DEFINE at == Sequence(n1, s) + 1
                   v2 == Next1(v, event[s], at)
        <4>1. at \in Nat
          BY <1>1, <2>2 DEF AgentsOK, SessionOK, Sequence
        <4>2. ViewOK(v) /\ event[s].kind = "workspace_switched"
          BY <2>2, <2>4, <3>2 DEF Fits
        <4> HIDE DEF at
        <4>3. /\ "at" \in DOMAIN Changed(v, event[s]) /\ SameClients(v, v2)
              /\ v2.current = event[s].workspace /\ v2.focus = v.focus
          BY <4>1, <4>2, PlainRead
        <4> HIDE DEF v2
        <4>4. /\ Fits(n1, s, k2, v2)
              /\ \A c \in Clients : Follows(n, s, k, c, v) => Follows(n1, s, k2, c, v2)
          BY <1>2, <2>2, <2>6, <3>2, <4>3, ClientsStay
        <4>5. FollowsFocus(n1, s, k2, v2)
          BY <1>2, <2>2, <3>2, <4>3 DEF Tracks, FollowsFocus
        <4>6. FollowsWorkspace(n1, s, k2, v2)
          BY <2>2, <2>4, <4>3 DEF FollowsWorkspace
        <4>7. Tracks(n1, s, k2, v2)
          BY <3>2, <4>4, <4>5, <4>6 DEF Tracks
        <4> QED BY <4>3, <4>4, <4>7 DEF v2, at
      <3> QED BY <3>1, <3>2 DEF Observes
    <2>8. Ok(n2, k2) /\ SameFace(n1, n2) /\ n2.outbox = n1.outbox
      BY <1>2, <2>2, <2>3, <2>5, <2>7, EmitKeeps
    <2> HIDE DEF n2
    <2>9. /\ Unshown(n, n2) /\ n2.shownFocus = n.shownFocus
          /\ n2.shownWorkspace = n.current
      BY <2>2, <2>8 DEF SameFace, Unshown
    <2> QED BY <2>1, <2>8, <2>9 DEF k2
  <1> QED BY <1>3, <1>4

\* Nothing is left to be announced.
Settled(n) ==
    /\ \A c \in Clients : IF Managed(n, c) THEN Met(n, c) ELSE ~ n.shadow[c].known
    /\ n.shownFocus = n.focus /\ n.shownWorkspace = n.current

\* What sync_agent_events leaves alone.
Steady(n, n2) ==
    /\ n2.desk = n.desk /\ n2.focus = n.focus /\ n2.current = n.current /\ n2.drag = n.drag
    /\ n2.matchers = n.matchers /\ n2.link = n.link /\ n2.outbox = n.outbox
    /\ OpenSessions(n2.agents) = OpenSessions(n.agents)

\* Of a client that has gone but is still in the shadow a session hears, or it is in doubt.
GoneTold(n, k) ==
    \A s \in OpenSessions(n.agents) : \A c \in Gone(n) :
        Perceives(n.agents, s, c) \/ c \in k.doubt[s]

\* sync_agent_events keeps the invariant, and leaves nothing to be announced.
LEMMA SyncEventsKeeps ==
    ASSUME NEW n, NEW k, Ok(n, k), Ghost(k), k.client = NoClient, k.fields = {},
           k.pending = {}, FocusKnown(n), GoneTold(n, k)
    PROVE  LET n2 == SyncEvents(n)
           IN  Ok(n2, Amid(k, NoClient, {}, {})) /\ Settled(n2) /\ Steady(n, n2)
  <1> DEFINE wants == (IF n.shownFocus # n.focus THEN {"focus"} ELSE {})
                      \cup (IF n.shownWorkspace # n.current THEN {"workspace"} ELSE {})
             k0 == Amid(k, NoClient, {}, wants)
             k1 == Amid(k0, NoClient, {}, wants \ {"focus"})
             closed == CloseGone(n)
             compared == CompareAll(closed)
             focused == SyncFocus(compared)
             n2 == SyncWorkspace(focused)
  <1>1. SyncEvents(n) = n2
    BY DEF SyncEvents, CloseGone, CompareAll, Gone
  <1>2. /\ "focus" \in wants <=> n.shownFocus # n.focus
        /\ "workspace" \in wants <=> n.shownWorkspace # n.current
        /\ wants \ {"focus"} \subseteq {"workspace"}
    OBVIOUS
  <1> HIDE DEF wants
  <1>3. /\ k0.lives = k.lives /\ k0.view = k.view /\ k0.doubt = k.doubt /\ k0.ever = k.ever
        /\ k0.client = NoClient /\ k0.fields = {} /\ k0.pending = wants
    BY DEF Amid
  <1>4. k1.pending = wants \ {"focus"} /\ k1.client = NoClient
    BY DEF Amid
  <1>5. Amid(k1, NoClient, {}, {}) = Amid(k, NoClient, {}, {})
    BY DEF Amid
  <1> HIDE DEF k0
  <1>6. Ghost(k0) /\ k.lives \in [Clients -> Nat]
    BY <1>3 DEF Ghost
  <1>7. Ok(n, k0)
    <2>1. \A s \in Sessions : DoubtGrows(k, k0, s)
      BY <1>3, <1>6 DEF DoubtGrows, Ghost
    <2> QED BY <1>3, <1>6, <2>1, DoubtKeeps
  <1>8. Watching(n, k0)
    BY <1>2, <1>3 DEF Watching
  <1>9. Closed(n, k0, Gone(n), closed)
    <2>1. \A s \in OpenSessions(n.agents) : \A c \in Gone(n) :
             Perceives(n.agents, s, c) \/ c \in k0.doubt[s]
      BY <1>3 DEF GoneTold
    <2> QED BY <1>7, <1>8, <2>1, CloseGoneKeeps
  <1> HIDE DEF closed
  <1>10. /\ Ok(closed, k0) /\ Framed(n, closed) /\ Watching(closed, k0)
         /\ \A c \in Clients : ~ Managed(closed, c) => ~ closed.shadow[c].known
    <2>1. Ok(closed, k0) /\ Framed(n, closed) /\ Watching(closed, k0)
      BY <1>8, <1>9 DEF Closed, Framed, Watching
    <2>2. ASSUME NEW c \in Clients, ~ Managed(closed, c) PROVE ~ closed.shadow[c].known
      <3>1. ~ Managed(n, c)
        BY <2>1, <2>2 DEF Framed, Managed
      <3>2. CASE c \in Gone(n)
        BY <1>9, <3>2 DEF Closed, NoShadow
      <3>3. CASE c \notin Gone(n)
        <4>1. ~ n.shadow[c].known
          BY <3>1, <3>3 DEF Gone
        <4>2. closed.shadow[c] = n.shadow[c]
          BY <1>9, <3>3 DEF Closed, OthersShadowed
        <4> QED BY <4>1, <4>2
      <3> QED BY <3>2, <3>3
    <2> QED BY <2>1, <2>2
  <1>11. Compared(closed, k0, Clients, compared)
    BY <1>3, <1>6, <1>10, CompareAllKeeps
  <1> HIDE DEF compared
  <1>12. /\ Ok(compared, k0) /\ Framed(n, compared)
         /\ \A c \in Clients : IF Managed(compared, c) THEN Met(compared, c)
                               ELSE ~ compared.shadow[c].known
    <2>1. Ok(compared, k0) /\ Framed(closed, compared) /\ Framed(n, compared)
      BY <1>10, <1>11 DEF Compared, Framed
    <2>2. \A c : Managed(compared, c) <=> Managed(closed, c)
      BY <2>1 DEF Framed, Managed
    <2> QED BY <1>10, <1>11, <2>1, <2>2 DEF Compared
  <1>13. "focus" \in k0.pending <=> compared.shownFocus # compared.focus
    BY <1>2, <1>3, <1>12 DEF Framed
  <1>14. /\ Ok(focused, k1) /\ Unshown(compared, focused)
         /\ focused.shownFocus = compared.focus
         /\ focused.shownWorkspace = compared.shownWorkspace
    BY <1>3, <1>12, <1>13, SyncFocusKeeps
  <1> HIDE DEF focused, k1
  <1>15. "workspace" \in k1.pending <=> focused.shownWorkspace # focused.current
    BY <1>2, <1>4, <1>12, <1>14 DEF Framed, Unshown
  <1>16. /\ Ok(n2, Amid(k1, NoClient, {}, {})) /\ Unshown(focused, n2)
         /\ n2.shownWorkspace = focused.current /\ n2.shownFocus = focused.shownFocus
    BY <1>2, <1>4, <1>14, <1>15, SyncWorkspaceKeeps
  <1> HIDE DEF n2
  <1>17. Steady(n, n2)
    BY <1>12, <1>14, <1>16 DEF Framed, Unshown, Steady
  <1>18. Settled(n2)
    <2>1. /\ n2.shadow = compared.shadow /\ n2.desk = compared.desk /\ n2.drag = compared.drag
          /\ n2.focus = compared.focus /\ n2.current = compared.current
      BY <1>14, <1>16 DEF Unshown
    <2>2. \A c : ClientState(n2, c) = ClientState(compared, c)
      BY <2>1 DEF ClientState
    <2>3. \A c \in Clients : IF Managed(n2, c) THEN Met(n2, c) ELSE ~ n2.shadow[c].known
      BY <1>12, <2>1, <2>2 DEF Met, Managed
    <2> QED BY <1>14, <1>16, <2>1, <2>3 DEF Settled, Unshown
  <1> QED BY <1>1, <1>5, <1>16, <1>17, <1>18 DEF n2

(* ---- The invariant of the specification ---- *)
\* What can be in doubt.
Doubts == Clients \cup {"focus", "workspace"}

\* What was ever in doubt includes what is.
DoubtShape(d) ==
    /\ DOMAIN d = Sessions
    /\ \A s \in Sessions :
          /\ d[s] \in [unsettled : SUBSET Doubts, concealed : SUBSET Doubts,
                       ever : SUBSET Doubts, revoked : BOOLEAN]
          /\ d[s].unsettled \cup d[s].concealed \subseteq d[s].ever

\* What is known of a state besides the manager.
Known(l, d, v) ==
    [lives |-> l, doubt |-> [s \in Sessions |-> d[s].unsettled \cup d[s].concealed],
     ever |-> [s \in Sessions |-> d[s].ever], view |-> v,
     client |-> NoClient, fields |-> {}, pending |-> {}]

\* The inductive invariant.
InvAt(n, ph, v, d, l) ==
    /\ Ok(n, Known(l, d, v))
    /\ DoubtShape(d) /\ l \in [Clients -> Nat] /\ DOMAIN v = Sessions
    /\ FocusKnown(n)
    /\ ph \in {"idle", "burst", "drain"}
    /\ ph = "idle" => Settled(n)
    /\ ph = "drain" => Gone(n) = {}
    /\ ph # "drain" => \A s \in Sessions : Concealed(n, s) \subseteq d[s].unsettled \cup d[s].concealed

\* The invariant of the specification.
Inv == InvAt(m, phase, view, doubt, lives)

\* What a step to n puts in doubt for a session.
More(n, s) ==
    Concealed(n, s) \cup Reclassified(n) \cup IF Regranted(n, s) THEN Clients ELSE {}

\* The doubt after a step to n.
Doubted(n, d2) ==
    d2 = [s \in Sessions |->
        LET more == Concealed(n, s) \cup Reclassified(n)
                    \cup IF Regranted(n, s) THEN Clients ELSE {}
        IN  [doubt[s] EXCEPT !.concealed = @ \cup more, !.ever = @ \cup more,
                             !.revoked = @ \/ Revoked(n, s)]]

\* A step that keeps the doubt goes to its manager.
LEMMA BecomeFacts ==
    ASSUME NEW n, Become(n)
    PROVE  m' = n /\ Doubted(n, doubt')
  BY Zenon DEF Become, Doubted

\* What is known besides the manager, in full.
LEMMA KnownFacts ==
    ASSUME NEW l, NEW d, NEW v, DoubtShape(d)
    PROVE  LET k == Known(l, d, v)
           IN  /\ k.lives = l /\ k.view = v /\ k.client = NoClient /\ k.fields = {}
               /\ k.pending = {}
               /\ \A s \in Sessions : /\ k.doubt[s] = d[s].unsettled \cup d[s].concealed
                                      /\ k.ever[s] = d[s].ever
                                      /\ k.doubt[s] \subseteq k.ever[s]
               /\ l \in [Clients -> Nat] => Ghost(k)
               /\ Amid(k, NoClient, {}, {}) = k
  <1> DEFINE k == Known(l, d, v)
  <1>1. /\ k.lives = l /\ k.view = v /\ k.client = NoClient /\ k.fields = {}
        /\ k.pending = {}
        /\ k.doubt = [s \in Sessions |-> d[s].unsettled \cup d[s].concealed]
        /\ k.ever = [s \in Sessions |-> d[s].ever]
    BY DEF Known
  <1>2. Amid(k, NoClient, {}, {}) = k
    BY DEF Known, Amid
  <1> HIDE DEF k
  <1>3. \A s \in Sessions : /\ k.doubt[s] = d[s].unsettled \cup d[s].concealed
                            /\ k.ever[s] = d[s].ever
                            /\ k.doubt[s] \subseteq k.ever[s]
    BY <1>1 DEF DoubtShape
  <1>4. l \in [Clients -> Nat] => Ghost(k)
    <2>1. \A s \in Sessions : d[s].unsettled \in SUBSET Doubts /\ d[s].concealed \in SUBSET Doubts
      BY DEF DoubtShape
    <2>2. k.doubt \in [Sessions -> SUBSET Doubts]
      BY <1>1, <2>1
    <2> QED BY <1>1, <1>3, <2>2 DEF Ghost, Doubts
  <1> QED BY <1>1, <1>2, <1>3, <1>4 DEF k

\* After a step more is in doubt, by what the step conceals.
LEMMA DoubtedFacts ==
    ASSUME NEW n, NEW d2, DoubtShape(doubt), Doubted(n, d2), NEW l2
    PROVE  LET k == Known(lives, doubt, view)
               k2 == Known(l2, d2, view)
           IN  /\ DoubtShape(d2)
               /\ \A s \in Sessions : /\ DoubtGrows(k, k2, s) /\ More(n, s) \subseteq k2.doubt[s]
                                      /\ k2.doubt[s] = k.doubt[s] \cup More(n, s)
                                      /\ k2.ever[s] = k.ever[s] \cup More(n, s)
  <1> DEFINE k == Known(lives, doubt, view)
             k2 == Known(l2, d2, view)
  <1>1. ASSUME NEW s \in Sessions
        PROVE  /\ d2[s] \in [unsettled : SUBSET Doubts, concealed : SUBSET Doubts,
                             ever : SUBSET Doubts, revoked : BOOLEAN]
               /\ d2[s].unsettled = doubt[s].unsettled
               /\ d2[s].concealed = doubt[s].concealed \cup More(n, s)
               /\ d2[s].ever = doubt[s].ever \cup More(n, s)
    <2> DEFINE x == doubt[s]
               x2 == [x EXCEPT !.concealed = @ \cup More(n, s), !.ever = @ \cup More(n, s),
                               !.revoked = @ \/ Revoked(n, s)]
    <2>1. d2[s] = x2
      BY Zenon DEF Doubted, More
    <2>2. More(n, s) \subseteq Clients
      BY DEF More, Concealed, Reclassified
    <2>3. x \in [unsettled : SUBSET Doubts, concealed : SUBSET Doubts,
                 ever : SUBSET Doubts, revoked : BOOLEAN]
      BY DEF DoubtShape
    <2>4. Revoked(n, s) \in BOOLEAN
      BY DEF Revoked
    <2> HIDE DEF x
    <2>5. /\ x2 \in [unsettled : SUBSET Doubts, concealed : SUBSET Doubts,
                     ever : SUBSET Doubts, revoked : BOOLEAN]
          /\ x2.unsettled = x.unsettled
          /\ x2.concealed = x.concealed \cup More(n, s)
          /\ x2.ever = x.ever \cup More(n, s)
      BY <2>2, <2>3, <2>4, Zenon DEF Doubts
    <2> QED BY <2>1, <2>5 DEF x
  <1>2. DOMAIN d2 = Sessions
    BY Zenon DEF Doubted
  <1>3. DoubtShape(d2)
    BY <1>1, <1>2 DEF DoubtShape
  <1>4. /\ k.client = NoClient /\ k.fields = {} /\ k.pending = {}
        /\ \A s \in Sessions : /\ k.doubt[s] = doubt[s].unsettled \cup doubt[s].concealed
                               /\ k.ever[s] = doubt[s].ever
    BY KnownFacts
  <1>6. /\ k2.client = NoClient /\ k2.fields = {} /\ k2.pending = {}
        /\ \A s \in Sessions : /\ k2.doubt[s] = d2[s].unsettled \cup d2[s].concealed
                               /\ k2.ever[s] = d2[s].ever
                               /\ k2.doubt[s] \subseteq k2.ever[s]
    BY <1>3, KnownFacts
  <1> HIDE DEF k, k2
  <1>5. \A s \in Sessions : /\ DoubtGrows(k, k2, s) /\ More(n, s) \subseteq k2.doubt[s]
                             /\ k2.doubt[s] = k.doubt[s] \cup More(n, s)
                             /\ k2.ever[s] = k.ever[s] \cup More(n, s)
    BY <1>1, <1>4, <1>6 DEF DoubtGrows
  <1> QED BY <1>3, <1>5 DEF k, k2

\* What is left to show of a step that keeps its doubt.
LEMMA BecomeKeeps ==
    ASSUME Inv, NEW n, NEW d2, Doubted(n, d2), NEW l2 \in [Clients -> Nat],
           Ok(n, Known(l2, d2, view)), FocusKnown(n),
           NEW ph2 \in {"idle", "burst", "drain"},
           ph2 = "idle" => Settled(n), ph2 = "drain" => Gone(n) = {}
    PROVE  InvAt(n, ph2, view, d2, l2)
  <1>1. DoubtShape(doubt) /\ DOMAIN view = Sessions
    BY DEF Inv, InvAt
  <1>2. DoubtShape(d2)
    BY <1>1, DoubtedFacts
  <1>3. \A s \in Sessions : Concealed(n, s) \subseteq d2[s].unsettled \cup d2[s].concealed
    <2>1. \A s \in Sessions : More(n, s) \subseteq Known(l2, d2, view).doubt[s]
      BY <1>1, DoubtedFacts
    <2>2. \A s \in Sessions : Known(l2, d2, view).doubt[s] = d2[s].unsettled \cup d2[s].concealed
      BY <1>2, KnownFacts
    <2> QED BY <2>1, <2>2 DEF More
  <1> QED BY <1>1, <1>2, <1>3 DEF InvAt

(* ---- The desktop moves ---- *)
\* The desktop moves, and the same clients are managed.
Stirred(n) ==
    /\ DeskMoved(m, n) /\ DeskOK(n)
    /\ \A c \in Clients : /\ Managed(m, c) <=> Managed(n, c)
                          /\ Managed(n, c) => n.desk[c].life = m.desk[c].life

\* What a change of the desktop must keep.
LEMMA ChangeKeeps ==
    ASSUME Inv, NEW n, Change(n), lives' \in [Clients -> Nat],
           Ok(n, Known(lives', doubt', view)), FocusKnown(n)
    PROVE  Inv'
  <1>1. m' = n /\ Doubted(n, doubt') /\ phase' = "burst" /\ view' = view
    BY BecomeFacts DEF Change
  <1>2. InvAt(n, "burst", view, doubt', lives')
    BY <1>1, BecomeKeeps
  <1> QED BY <1>1, <1>2 DEF Inv

\* The desktop moves or a client is given up, and the doubt follows.
LEMMA MovedKeeps ==
    ASSUME Inv, NEW n, NEW d2, Doubted(n, d2), NEW l2 \in [Clients -> Nat],
           DeskMoved(m, n), DeskOK(n),
           \A c \in Clients :
              \/ Managed(m, c) /\ ~ Managed(n, c) /\ l2[c] > lives[c]
              \/ /\ Managed(m, c) <=> Managed(n, c)
                 /\ l2[c] = lives[c]
                 /\ Managed(n, c) => n.desk[c].life = m.desk[c].life
    PROVE  Ok(n, Known(l2, d2, view)) /\ FocusKnown(n)
  <1> DEFINE k == Known(lives, doubt, view)
             k2 == Known(l2, d2, view)
  <1>1. Ok(m, k) /\ DoubtShape(doubt) /\ lives \in [Clients -> Nat] /\ FocusKnown(m)
    BY DEF Inv, InvAt
  <1>2. DoubtShape(d2) /\ \A s \in Sessions : DoubtGrows(k, k2, s)
    BY <1>1, DoubtedFacts
  <1>3. k.lives = lives /\ k.view = view
    BY <1>1, KnownFacts
  <1>4. k2.lives = l2 /\ k2.view = view
    BY <1>2, KnownFacts
  <1> HIDE DEF k, k2
  <1>5. Ok(n, k2)
    BY <1>1, <1>2, <1>3, <1>4, DeskKeeps
  <1>6. FocusKnown(n)
    BY <1>1 DEF DeskMoved, FocusKnown
  <1> QED BY <1>5, <1>6 DEF k2

\* A move of the desktop keeps the invariant.
LEMMA StirredKeeps ==
    ASSUME Inv, NEW n, Stirred(n), Moves(n)
    PROVE  Inv'
  <1>1. Change(n) /\ lives' = lives /\ Doubted(n, doubt') /\ lives \in [Clients -> Nat]
    BY BecomeFacts DEF Moves, Change, Inv, InvAt
  <1>2. Ok(n, Known(lives, doubt', view)) /\ FocusKnown(n)
    BY <1>1, MovedKeeps DEF Stirred
  <1> QED BY <1>1, <1>2, ChangeKeeps

\* A client is retitled, moved or sent to a workspace.
LEMMA DeskEdit ==
    ASSUME Inv, NEW c, NEW e, NEW value,
           \/ e = [m.desk EXCEPT ![c].title = value]
           \/ e = [m.desk EXCEPT ![c].place = value]
           \/ e = [m.desk EXCEPT ![c].workspace = value]
    PROVE  /\ DOMAIN e = Clients
           /\ \A d \in Clients :
                 /\ "managed" \in DOMAIN e[d] /\ e[d].managed = m.desk[d].managed
                 /\ e[d].managed \in BOOLEAN
                 /\ e[d].managed => "life" \in DOMAIN e[d] /\ e[d].life = m.desk[d].life
  <1> DEFINE f == m.desk
             x == f[c]
             y == e[c]
  <1>1. DOMAIN f = Clients /\ \A d \in Clients : /\ "managed" \in DOMAIN f[d] /\ f[d].managed \in BOOLEAN
                                                 /\ f[d].managed => "life" \in DOMAIN f[d]
    BY DEF Inv, InvAt, Ok, Sound, DeskOK
  <1>2. DOMAIN e = Clients /\ \A d \in Clients \ {c} : e[d] = f[d]
    BY <1>1
  <1>3. ASSUME c \in Clients
        PROVE  \/ y = [x EXCEPT !.title = value] \/ y = [x EXCEPT !.place = value]
               \/ y = [x EXCEPT !.workspace = value]
    BY <1>1, <1>3
  <1> HIDE DEF f, x, y
  <1>4. ASSUME c \in Clients
        PROVE  /\ DOMAIN y = DOMAIN x
               /\ "managed" \in DOMAIN x => y.managed = x.managed
               /\ "life" \in DOMAIN x => y.life = x.life
    BY <1>3, <1>4
  <1> QED BY <1>1, <1>2, <1>4 DEF x, y, f

\* What a move of the desktop leaves alone.
LEMMA StirredFacts ==
    ASSUME Inv, NEW n, DeskMoved(m, n), DOMAIN n.desk = Clients,
           \A d \in Clients :
                 /\ "managed" \in DOMAIN n.desk[d] /\ n.desk[d].managed = m.desk[d].managed
                 /\ n.desk[d].managed \in BOOLEAN
                 /\ n.desk[d].managed => "life" \in DOMAIN n.desk[d] /\ n.desk[d].life = m.desk[d].life,
           n.focus = m.focus \/ n.focus = NoClient \/ n.focus \in Focusable
    PROVE  Stirred(n)
  <1>1. m.focus \in Clients \cup {NoClient} /\ (m.focus # NoClient => Managed(m, m.focus))
    BY DEF Inv, InvAt, Ok, Sound, DeskOK
  <1>2. n.focus \in Clients \cup {NoClient} /\ (n.focus # NoClient => Managed(n, n.focus))
    BY <1>1 DEF Focusable, Managed
  <1>3. DeskOK(n)
    BY <1>2 DEF DeskOK
  <1> QED BY <1>3 DEF Stirred, Managed

\* The fields of the manager.
LEMMA ManagerShape ==
    ASSUME Inv PROVE DOMAIN m = ManagerFields
  BY DEF Inv, InvAt, Ok, Sound

\* Every step of the desktop but those that manage, give up, or concern the sessions.
LEMMA EditStirs ==
    ASSUME Inv, NEW c, NEW value,
           NEW n, \/ n = [m EXCEPT !.desk[c].title = value]
                  \/ n = [m EXCEPT !.desk[c].place = value]
                  \/ n = [m EXCEPT !.desk[c].place = value, !.drag = NoDrag]
                  \/ n = [m EXCEPT !.desk[c].workspace = value,
                                   !.focus = IF @ = c THEN NoClient ELSE @]
    PROVE  Stirred(n)
  <1>1. /\ DeskMoved(m, n)
        /\ \/ n.desk = [m.desk EXCEPT ![c].title = value]
           \/ n.desk = [m.desk EXCEPT ![c].place = value]
           \/ n.desk = [m.desk EXCEPT ![c].workspace = value]
        /\ n.focus = m.focus \/ n.focus = NoClient
    BY ManagerShape, Zenon DEF DeskMoved, ManagerFields
  <1>2. /\ DOMAIN n.desk = Clients
        /\ \A d \in Clients :
              /\ "managed" \in DOMAIN n.desk[d] /\ n.desk[d].managed = m.desk[d].managed
              /\ n.desk[d].managed \in BOOLEAN
              /\ n.desk[d].managed => "life" \in DOMAIN n.desk[d] /\ n.desk[d].life = m.desk[d].life
    <2> DEFINE e == n.desk
    <2>1. \/ e = [m.desk EXCEPT ![c].title = value]
          \/ e = [m.desk EXCEPT ![c].place = value]
          \/ e = [m.desk EXCEPT ![c].workspace = value]
      BY <1>1
    <2> HIDE DEF e
    <2>2. /\ DOMAIN e = Clients
          /\ \A d \in Clients :
                /\ "managed" \in DOMAIN e[d] /\ e[d].managed = m.desk[d].managed
                /\ e[d].managed \in BOOLEAN
                /\ e[d].managed => "life" \in DOMAIN e[d] /\ e[d].life = m.desk[d].life
      BY <2>1, DeskEdit
    <2> QED BY <2>2 DEF e
  <1>3. Stirred(n)
    <2> HIDE DEF Stirred
    <2> QED BY <1>1, <1>2, StirredFacts
  <1> QED BY <1>3

\* A drag, the focus and the workspace are part of the desktop.
LEMMA LookStirs ==
    ASSUME Inv, NEW f, NEW w, NEW drag,
           NEW n, \/ n = [m EXCEPT !.drag = drag]
                  \/ f \in Focusable /\ n = [m EXCEPT !.focus = f]
                  \/ n = [m EXCEPT !.current = w, !.focus = NoClient]
    PROVE  Stirred(n)
  <1>1. DeskMoved(m, n) /\ n.desk = m.desk
    BY ManagerShape, Zenon DEF DeskMoved, ManagerFields
  <1>2. n.focus = m.focus \/ n.focus = NoClient \/ n.focus \in Focusable
    BY ManagerShape, Zenon DEF ManagerFields
  <1>3. DOMAIN n.desk = Clients
    BY <1>1 DEF Inv, InvAt, Ok, Sound, DeskOK
  <1>4. \A d \in Clients :
                 /\ "managed" \in DOMAIN n.desk[d] /\ n.desk[d].managed = m.desk[d].managed
                 /\ n.desk[d].managed \in BOOLEAN
                 /\ n.desk[d].managed => "life" \in DOMAIN n.desk[d] /\ n.desk[d].life = m.desk[d].life
    BY <1>1 DEF Inv, InvAt, Ok, Sound, DeskOK
  <1> QED BY <1>1, <1>2, <1>3, <1>4, StirredFacts

\* Every step that only moves the desktop keeps the invariant.
LEMMA DeskStep ==
    ASSUME Inv,
           \/ \E c \in Clients, t \in Titles : Retitle(c, t)
           \/ \E c \in Clients, p \in Places : Move(c, p)
           \/ \E c \in Clients : BeginDrag(c)
           \/ \E p \in Places : DragTo(p)
           \/ FinishDrag
           \/ CancelDrag
           \/ \E f \in Clients \cup {NoClient} : Focus(f)
           \/ \E w \in Workspaces : SwitchWorkspace(w)
           \/ \E c \in Clients, w \in Workspaces : SendToWorkspace(c, w)
    PROVE  Inv'
  <1>1. ASSUME NEW c \in Clients, NEW t \in Titles, Retitle(c, t) PROVE Inv'
    <2> DEFINE n == [m EXCEPT !.desk[c].title = t]
    <2>1. Moves(n)
      BY <1>1 DEF Retitle
    <2>2. Stirred(n)
      BY EditStirs, Zenon
    <2> QED BY <2>1, <2>2, StirredKeeps
  <1>2. ASSUME NEW c \in Clients, NEW p \in Places, Move(c, p) PROVE Inv'
    <2> DEFINE n == [m EXCEPT !.desk[c].place = p]
    <2>1. Moves(n)
      BY <1>2 DEF Move
    <2>2. Stirred(n)
      BY EditStirs, Zenon
    <2> QED BY <2>1, <2>2, StirredKeeps
  <1>3. ASSUME NEW c \in Clients, BeginDrag(c) PROVE Inv'
    <2> DEFINE n == [m EXCEPT !.drag = [on |-> TRUE, client |-> c, initial |-> m.desk[c].place]]
    <2>1. Moves(n)
      BY <1>3 DEF BeginDrag
    <2>2. Stirred(n)
      BY LookStirs, Zenon
    <2> QED BY <2>1, <2>2, StirredKeeps
  <1>4. ASSUME NEW p \in Places, DragTo(p) PROVE Inv'
    <2> DEFINE n == [m EXCEPT !.desk[m.drag.client].place = p]
    <2>1. Moves(n)
      BY <1>4 DEF DragTo
    <2>2. Stirred(n)
      BY EditStirs, Zenon
    <2> QED BY <2>1, <2>2, StirredKeeps
  <1>5. ASSUME FinishDrag PROVE Inv'
    <2> DEFINE n == [m EXCEPT !.drag = NoDrag]
    <2>1. Moves(n)
      BY <1>5 DEF FinishDrag
    <2>2. Stirred(n)
      BY LookStirs, Zenon
    <2> QED BY <2>1, <2>2, StirredKeeps
  <1>6. ASSUME CancelDrag PROVE Inv'
    <2> DEFINE n == [m EXCEPT !.desk[m.drag.client].place = m.drag.initial, !.drag = NoDrag]
    <2>1. Moves(n)
      BY <1>6 DEF CancelDrag
    <2>2. Stirred(n)
      BY EditStirs, Zenon
    <2> QED BY <2>1, <2>2, StirredKeeps
  <1>7. ASSUME NEW f \in Clients \cup {NoClient}, Focus(f) PROVE Inv'
    <2> DEFINE n == [m EXCEPT !.focus = f]
    <2>1. Moves(n) /\ f \in Focusable
      BY <1>7 DEF Focus
    <2>2. Stirred(n)
      BY <2>1, LookStirs, Zenon
    <2> QED BY <2>1, <2>2, StirredKeeps
  <1>8. ASSUME NEW w \in Workspaces, SwitchWorkspace(w) PROVE Inv'
    <2> DEFINE n == [m EXCEPT !.current = w, !.focus = NoClient]
    <2>1. Moves(n)
      BY <1>8, Zenon DEF SwitchWorkspace
    <2>2. Stirred(n)
      BY LookStirs, Zenon
    <2> QED BY <2>1, <2>2, StirredKeeps
  <1>9. ASSUME NEW c \in Clients, NEW w \in Workspaces, SendToWorkspace(c, w) PROVE Inv'
    <2> DEFINE n == [m EXCEPT !.desk[c].workspace = w, !.focus = IF @ = c THEN NoClient ELSE @]
    <2>1. Moves(n)
      BY <1>9, Zenon DEF SendToWorkspace
    <2>2. Stirred(n)
      BY EditStirs, Zenon
    <2> QED BY <2>1, <2>2, StirredKeeps
  <1> QED BY <1>1, <1>2, <1>3, <1>4, <1>5, <1>6, <1>7, <1>8, <1>9

\* The invariant after a step that keeps what is known, for the doubt that comes of it.
LEMMA StillKeeps ==
    ASSUME Inv, NEW n, Ok(n, Known(lives, doubt, view)), FocusKnown(n),
           NEW d2, Doubted(n, d2), NEW ph2 \in {"idle", "burst", "drain"},
           ph2 = "idle" => Settled(n), ph2 = "drain" => Gone(n) = {}
    PROVE  InvAt(n, ph2, view, d2, lives)
  <1> DEFINE k == Known(lives, doubt, view)
             k2 == Known(lives, d2, view)
  <1>1. DoubtShape(doubt) /\ lives \in [Clients -> Nat]
    BY DEF Inv, InvAt
  <1>2. DoubtShape(d2) /\ \A s \in Sessions : DoubtGrows(k, k2, s)
    BY <1>1, DoubtedFacts
  <1>3. k.lives = lives /\ k.view = view
    BY <1>1, KnownFacts
  <1>4. k2.lives = lives /\ k2.view = view
    BY <1>2, KnownFacts
  <1> HIDE DEF k, k2
  <1>5. Ok(n, k2)
    <2>1. Ok(n, k)
      BY DEF k
    <2> QED BY <1>1, <1>2, <1>3, <1>4, <2>1, DoubtKeeps
  <1> QED BY <1>1, <1>5, BecomeKeeps DEF k2

\* A client is given up.
LEMMA UnmanageStep ==
    ASSUME Inv, NEW c \in Clients, NEW f, Unmanage(c, f)
    PROVE  Inv'
  <1> DEFINE n == [m EXCEPT !.desk[c] = Unmanaged, !.focus = f,
                            !.drag = IF @.on /\ @.client = c THEN NoDrag ELSE @]
  <1>1. /\ Managed(m, c) /\ f # c /\ f \in Focusable /\ Change(n)
        /\ lives' = [lives EXCEPT ![c] = lives[c] + 1]
    BY DEF Unmanage
  <1>2. lives \in [Clients -> Nat] /\ DeskOK(m) /\ DOMAIN m = ManagerFields
    BY DEF Inv, InvAt, Ok, Sound
  <1>3. /\ DeskMoved(m, n) /\ n.desk = [m.desk EXCEPT ![c] = Unmanaged] /\ n.focus = f
    BY <1>2 DEF DeskMoved, ManagerFields
  <1>4. Doubted(n, doubt')
    BY <1>1, BecomeFacts DEF Change
  <1> HIDE DEF n
  <1>5. /\ DOMAIN n.desk = Clients /\ n.desk[c] = Unmanaged
        /\ \A d \in Clients \ {c} : n.desk[d] = m.desk[d]
    BY <1>2, <1>3 DEF DeskOK
  <1>6. DeskOK(n)
    <2>1. Unmanaged.managed = FALSE /\ "managed" \in DOMAIN Unmanaged
      BY DEF Unmanaged
    <2>2. f # NoClient => f \in Clients /\ n.desk[f] = m.desk[f] /\ m.desk[f].managed
      BY <1>1, <1>5 DEF Focusable, Managed
    <2> QED BY <1>1, <1>2, <1>3, <1>5, <2>1, <2>2, Zenon DEF DeskOK, Managed, Focusable
  <1>7. lives' \in [Clients -> Nat]
    BY <1>1, <1>2
  <1>8. \A d \in Clients :
              \/ Managed(m, d) /\ ~ Managed(n, d) /\ lives'[d] > lives[d]
              \/ /\ Managed(m, d) <=> Managed(n, d)
                 /\ lives'[d] = lives[d]
                 /\ Managed(n, d) => n.desk[d].life = m.desk[d].life
    <2> TAKE d \in Clients
    <2>1. CASE d = c
      BY <1>1, <1>2, <1>5, <2>1 DEF Managed, Unmanaged
    <2>2. CASE d # c
      BY <1>1, <1>2, <1>5, <2>2 DEF Managed
    <2> QED BY <2>1, <2>2
  <1>9. Ok(n, Known(lives', doubt', view)) /\ FocusKnown(n)
    BY <1>3, <1>4, <1>6, <1>7, <1>8, MovedKeeps, Zenon
  <1> QED BY <1>1, <1>7, <1>9, ChangeKeeps, Zenon

\* A change that only people and the transport can tell.
LEMMA SameKeeps ==
    ASSUME NEW n, NEW k, Ok(n, k), NEW n2, DOMAIN n2 = DOMAIN n, SameFace(n, n2),
           SameTraffic(n, n2), AgentsOK(n2.agents),
           n2.text = n.text, n2.observations = n.observations, n2.semantics = n.semantics
    PROVE  Ok(n2, k)
  <1>1. Sound(n) /\ Lively(n, k.lives)
    BY DEF Ok
  <1>2. DOMAIN n2.outbox = Sessions /\ \A s \in Sessions : IsQueue(n2.outbox[s])
    BY <1>1 DEF Sound, SameTraffic
  <1>3. Sound(n2)
    BY <1>1, <1>2, StillSound
  <1>4. Lively(n2, k.lives)
    BY <1>1 DEF Lively, SameFace, Managed
  <1>5. \A s \in OpenSessions(n.agents) : Carries(n, k, n2, k, s)
    BY FaceCarries
  <1> QED BY <1>3, <1>4, <1>5, QuietKeeps

\* Nothing that takes time is going on.
Free(n) == n.text = NoText /\ n.observations = {} /\ n.semantics = {}

\* Failing the observations, the semantic queries, and all the work of some sessions.
Watchers ==
    INSTANCE FoldFacts WITH
        Op <- LAMBDA env, pending, n : FailObservation(n, pending),
        Pick <- LAMBDA T : CHOOSE pending \in T : TRUE,
        Holds <- LAMBDA env, T, n : n = env

Askers ==
    INSTANCE FoldFacts WITH
        Op <- LAMBDA env, pending, n : FailSemantic(n, pending),
        Pick <- LAMBDA T : CHOOSE pending \in T : TRUE,
        Holds <- LAMBDA env, T, n : n = env

Workers ==
    INSTANCE FoldFacts WITH
        Op <- LAMBDA env, s, n : FailWork(n, s),
        Pick <- LAMBDA T : CHOOSE s \in T : TRUE,
        Holds <- LAMBDA env, T, n : n = env

\* No observation fails when there is none.
LEMMA NoWatchers ==
    ASSUME NEW n
    PROVE  FoldSet(LAMBDA pending, x : FailObservation(x, pending), n, {}) = n
  <1>1. Watchers!IsFiniteSet({})
    <2>1. IsFiniteSet({})
      BY FS_EmptySet
    <2> QED BY <2>1 DEF IsFiniteSet, Watchers!IsFiniteSet
  <1>2. Watchers!Picks({})
    BY DEF Watchers!Picks
  <1>3. FoldSet(LAMBDA pending, x : FailObservation(x, pending), n, {}) = Watchers!Fold(n, n, {})
    BY DEF FoldSet, MapThenFoldSet, Watchers!Fold
  <1>4. \A T \in SUBSET {} : \A x : T # {} /\ x = n => FailObservation(x, CHOOSE pending \in T : TRUE) = n
    OBVIOUS
  <1> QED BY <1>1, <1>2, <1>3, <1>4, Watchers!FoldKeeps, Zenon

\* No query fails when there is none.
LEMMA NoAskers ==
    ASSUME NEW n
    PROVE  FoldSet(LAMBDA pending, x : FailSemantic(x, pending), n, {}) = n
  <1>1. Askers!IsFiniteSet({})
    <2>1. IsFiniteSet({})
      BY FS_EmptySet
    <2> QED BY <2>1 DEF IsFiniteSet, Askers!IsFiniteSet
  <1>2. Askers!Picks({})
    BY DEF Askers!Picks
  <1>3. FoldSet(LAMBDA pending, x : FailSemantic(x, pending), n, {}) = Askers!Fold(n, n, {})
    BY DEF FoldSet, MapThenFoldSet, Askers!Fold
  <1>4. \A T \in SUBSET {} : \A x : T # {} /\ x = n => FailSemantic(x, CHOOSE pending \in T : TRUE) = n
    OBVIOUS
  <1> QED BY <1>1, <1>2, <1>3, <1>4, Askers!FoldKeeps, Zenon

\* A session without work loses none.
LEMMA NoWork ==
    ASSUME NEW n, Free(n), NEW s
    PROVE  FailWork(n, s) = n
  <1>1. FailText(n, s) = n
    BY DEF Free, FailText, NoText
  <1>2. OfSession(n.observations, s) = {} /\ OfSession(n.semantics, s) = {}
    BY DEF Free, OfSession
  <1>3. FailObservations(n, s) = n
    BY <1>2, NoWatchers, Zenon DEF FailObservations
  <1>4. FailSemantics(n, s) = n
    BY <1>2, NoAskers, Zenon DEF FailSemantics
  <1> QED BY <1>1, <1>3, <1>4 DEF FailWork

\* Sessions without work lose none.
LEMMA NoWorkAtAll ==
    ASSUME NEW n, Free(n), NEW sessions, IsFiniteSet(sessions)
    PROVE  FailAllWork(n, sessions) = n
  <1>1. Workers!IsFiniteSet(sessions)
    BY DEF IsFiniteSet, Workers!IsFiniteSet
  <1>2. Workers!Picks(sessions)
    BY DEF Workers!Picks
  <1>3. FailAllWork(n, sessions) = Workers!Fold(n, n, sessions)
    BY DEF FailAllWork, FoldSet, MapThenFoldSet, Workers!Fold
  <1>4. \A T \in SUBSET sessions : \A x : T # {} /\ x = n => FailWork(x, CHOOSE s \in T : TRUE) = n
    BY NoWork
  <1> QED BY <1>1, <1>2, <1>3, <1>4, Workers!FoldKeeps

\* interrupt_pending_agent_work changes nothing of what agents see.
LEMMA InterruptFacts ==
    ASSUME NEW n, NEW k, Ok(n, k)
    PROVE  Kept(n, k, InterruptWork(n)) /\ InterruptWork(n).agents = n.agents
  <1> DEFINE n2 == [n EXCEPT !.semantics = {CancelSemantic(pending) : pending \in @}]
  <1>1. Free(n) /\ DOMAIN n = ManagerFields /\ AgentsOK(n.agents)
    BY DEF Ok, Sound, Free
  <1>2. InterruptWork(n) = n2
    <2>1. ~ n.text.on
      BY <1>1 DEF Free, NoText
    <2>2. FoldSet(LAMBDA pending, x : FailObservation(x, pending), n, n.observations) = n
      BY <1>1, NoWatchers, Zenon DEF Free
    <2> QED BY <2>1, <2>2, Zenon DEF InterruptWork
  <1>3. /\ DOMAIN n2 = DOMAIN n
        /\ n2.desk = n.desk /\ n2.focus = n.focus /\ n2.current = n.current /\ n2.drag = n.drag
        /\ n2.agents = n.agents
        /\ n2.shadow = n.shadow /\ n2.shownFocus = n.shownFocus
        /\ n2.shownWorkspace = n.shownWorkspace
        /\ n2.matchers = n.matchers /\ n2.link = n.link /\ n2.outbox = n.outbox
        /\ n2.text = n.text /\ n2.observations = n.observations /\ n2.semantics = n.semantics
    BY <1>1 DEF ManagerFields, Free
  <1> HIDE DEF n2
  <1>4. SameFace(n, n2) /\ SameTraffic(n, n2)
    BY <1>3 DEF SameFace, SameTraffic, Sub, Sequence
  <1>5. Ok(n2, k)
    BY <1>1, <1>3, <1>4, SameKeeps
  <1> QED BY <1>2, <1>3, <1>4, <1>5 DEF Kept

(* ---- What people do ---- *)
\* A step of the desktop that tells the sessions no news of it.
LEMMA NoticedStep ==
    ASSUME Inv, NEW n, Kept(m, Known(lives, doubt, view), n), Moves(n)
    PROVE  Inv'
  <1>1. /\ Doubted(n, doubt') /\ m' = n /\ phase' = "burst" /\ view' = view /\ lives' = lives
    BY BecomeFacts DEF Moves, Change
  <1>2. Ok(n, Known(lives, doubt, view)) /\ SameFace(m, n) /\ FocusKnown(m)
    BY DEF Kept, Inv, InvAt
  <1>3. FocusKnown(n)
    BY <1>2 DEF FocusKnown, SameFace
  <1>4. InvAt(n, "burst", view, doubt', lives)
    BY <1>1, <1>2, <1>3, StillKeeps
  <1> QED BY <1>1, <1>4 DEF Inv

\* A person uses the keyboard or the pointer.
LEMMA HumanStep ==
    ASSUME Inv, HumanInput
    PROVE  Inv'
  <1> DEFINE k == Known(lives, doubt, view)
             n1 == InterruptWork(m)
             event == Everyone(m, [kind |-> "human_activity"])
             n == Emit(n1, "human_activity", NoClient, event)
  <1>1. Moves(n)
    BY DEF HumanInput, NoteHuman
  <1>2. Ok(m, k)
    BY DEF Inv, InvAt
  <1>3. Ok(n1, k) /\ SameFace(m, n1) /\ n1.agents = m.agents
    BY <1>2, InterruptFacts DEF Kept
  <1>4. \A s \in OpenSessions(n1.agents) : event[s].kind \in {"human_activity", "session_control"}
    BY <1>3 DEF Everyone
  <1> HIDE DEF k, n1, event
  <1>5. Ok(n, k) /\ SameFace(n1, n)
    BY <1>3, <1>4, NoticeKeeps
  <1>6. Kept(m, k, n)
    BY <1>3, <1>5, SameFaceTrans DEF Kept
  <1> QED BY <1>1, <1>6, NoticedStep DEF k

\* The statuses of sessions do not matter.
LEMMA StatusesKeep ==
    ASSUME NEW n, NEW k, Ok(n, k), NEW a, DOMAIN a = DOMAIN n.agents,
           a.visibility = n.agents.visibility, a.generation = n.agents.generation,
           OpenSessions(a) = OpenSessions(n.agents),
           \A s \in OpenSessions(a) : \/ a.sessions[s] = n.agents.sessions[s]
                                      \/ \E status : a.sessions[s] = WithStatus(n.agents.sessions[s], status)
    PROVE  LET n2 == [n EXCEPT !.agents = a]
           IN  Kept(n, k, n2) /\ n2.agents = a /\ Free(n2)
  <1> DEFINE n2 == [n EXCEPT !.agents = a]
  <1>1. Sound(n) /\ AgentsOK(n.agents) /\ DOMAIN n = ManagerFields /\ Free(n)
    BY DEF Ok, Sound, Free
  <1>2. ASSUME NEW s \in OpenSessions(a)
        PROVE  /\ SessionOK(a.sessions[s])
               /\ a.sessions[s].grant = n.agents.sessions[s].grant
               /\ a.sessions[s].sequence = n.agents.sessions[s].sequence
               /\ a.sessions[s].subscription = n.agents.sessions[s].subscription
    <2> DEFINE x == n.agents.sessions[s]
               y == a.sessions[s]
    <2>1. SessionOK(x)
      BY <1>1, <1>2 DEF AgentsOK
    <2>2. y = x \/ \E status : y = WithStatus(x, status)
      BY <1>2
    <2> HIDE DEF x, y
    <2>3. /\ DOMAIN y = DOMAIN x /\ y.grant = x.grant /\ y.sequence = x.sequence
          /\ y.subscription = x.subscription
      BY <2>1, <2>2 DEF WithStatus, SessionOK
    <2>4. SessionOK(y)
      BY <2>1, <2>3 DEF SessionOK
    <2> QED BY <2>3, <2>4 DEF x, y
  <1>3. AgentsOK(a)
    BY <1>1, <1>2 DEF AgentsOK
  <1>4. /\ DOMAIN n2 = DOMAIN n
        /\ n2.desk = n.desk /\ n2.focus = n.focus /\ n2.current = n.current /\ n2.drag = n.drag
        /\ n2.agents = a
        /\ n2.shadow = n.shadow /\ n2.shownFocus = n.shownFocus
        /\ n2.shownWorkspace = n.shownWorkspace
        /\ n2.matchers = n.matchers /\ n2.link = n.link /\ n2.outbox = n.outbox
        /\ n2.text = n.text /\ n2.observations = n.observations /\ n2.semantics = n.semantics
    BY <1>1 DEF ManagerFields
  <1> HIDE DEF n2
  <1>5. SameFace(n, n2)
    BY <1>2, <1>4 DEF SameFace
  <1>6. SameTraffic(n, n2)
    BY <1>2, <1>4 DEF SameTraffic, Sub, Sequence
  <1>7. Ok(n2, k)
    BY <1>3, <1>4, <1>5, <1>6, SameKeeps
  <1>8. Free(n2)
    BY <1>1, <1>4 DEF Free
  <1> QED BY <1>4, <1>5, <1>7, <1>8 DEF Kept, n2

\* A notice that is handed to the transport at once.
LEMMA NoticeSentKeeps ==
    ASSUME NEW n, NEW k, Ok(n, k), NEW kind, NEW event,
           \A s \in OpenSessions(n.agents) : event[s].kind \in {"human_activity", "session_control"}
    PROVE  Kept(n, k, FlushEvents(Emit(n, kind, NoClient, event)))
  <1> DEFINE n2 == Emit(n, kind, NoClient, event)
  <1>1. Ok(n2, k) /\ SameFace(n, n2)
    BY NoticeKeeps
  <1> HIDE DEF n2
  <1>2. Kept(n2, k, FlushEvents(n2))
    BY <1>1, FlushEventsKeeps
  <1>3. Kept(n, k, FlushEvents(n2))
    BY <1>1, <1>2, SameFaceTrans DEF Kept
  <1> QED BY <1>3 DEF n2

\* toggle_agent_freeze keeps the invariant.
LEMMA ToggleFreezeKeeps ==
    ASSUME NEW n, NEW k, Ok(n, k)
    PROVE  Kept(n, k, ToggleFreeze(n))
  <1> DEFINE resuming == AnyFrozen(n.agents)
             agents == IF resuming THEN ResumeAll(n.agents) ELSE FreezeAll(n.agents)
             changed == StatusChanged(n.agents, agents)
             set == [n EXCEPT !.agents = agents]
             failed == IF resuming THEN set ELSE FailAllWork(set, changed)
             change == SessionControl(IF resuming THEN "resumed" ELSE "frozen")
             event == Everyone(n, change)
             n2 == Emit(failed, "session_control", NoClient, event)
  <1>1. AgentsOK(n.agents)
    BY DEF Ok, Sound
  <1>2. /\ DOMAIN agents = DOMAIN n.agents
        /\ agents.visibility = n.agents.visibility /\ agents.generation = n.agents.generation
        /\ OpenSessions(agents) = OpenSessions(n.agents)
        /\ \A s \in OpenSessions(agents) :
              \/ agents.sessions[s] = n.agents.sessions[s]
              \/ \E status : agents.sessions[s] = WithStatus(n.agents.sessions[s], status)
    BY <1>1 DEF ResumeAll, FreezeAll, SetAll, OpenSessions, AgentsOK
  <1> HIDE DEF agents
  <1>3. Kept(n, k, set) /\ set.agents = agents /\ Free(set)
    BY <1>2, StatusesKeep
  <1>4. IsFiniteSet(changed)
    <2>1. changed \subseteq Sessions
      BY <1>1, <1>2 DEF StatusChanged, OpenSessions, AgentsOK
    <2> QED BY <2>1, FiniteAssumption, FS_Subset
  <1> HIDE DEF set, changed
  <1>5. failed = set
    BY <1>3, <1>4, NoWorkAtAll
  <1>6. \A s \in OpenSessions(set.agents) : event[s].kind \in {"human_activity", "session_control"}
    BY <1>2, <1>3 DEF Everyone, SessionControl
  <1> HIDE DEF event
  <1>7. Kept(set, k, FlushEvents(n2))
    BY <1>3, <1>5, <1>6, NoticeSentKeeps DEF Kept
  <1>8. Kept(n, k, FlushEvents(n2))
    BY <1>3, <1>7, SameFaceTrans DEF Kept
  <1>9. Kept(n, k, n)
    BY SameFaceRefl DEF Kept
  <1>10. ToggleFreeze(n) = IF changed = {} THEN n ELSE FlushEvents(n2)
    BY DEF ToggleFreeze, agents, changed, set, event
  <1> QED BY <1>8, <1>9, <1>10

\* A person presses the kill chord.
LEMMA KillChordStep ==
    ASSUME Inv, KillChord
    PROVE  Inv'
  BY ToggleFreezeKeeps, NoticedStep DEF KillChord, Inv, InvAt

(* ---- Clients and grants that are new ---- *)
\* What is to be seen of the announced clients once the doubt is what a step makes of it.
LEMMA AnnouncedSame ==
    ASSUME NEW n, n.shadow = m.shadow, NEW s,
           s \in OpenSessions(m.agents), s \in OpenSessions(n.agents),
           NEW excepted, More(n, s) \subseteq excepted,
           \A c \in Clients \ excepted :
               m.shadow[c].known /\ Perceives(n.agents, s, c) => Perceives(m.agents, s, c)
    PROVE  SameAnnounced(m, n, s, excepted)
  <1> SUFFICES ASSUME NEW c \in Clients \ excepted, m.shadow[c].known, Perceives(n.agents, s, c)
               PROVE  Perceives(m.agents, s, c) /\ Readable(n, s, c) = Readable(m, s, c)
    BY DEF SameAnnounced
  <1>1. n.agents.sessions[s].grant.capabilities = m.agents.sessions[s].grant.capabilities
    BY DEF More, Regranted
  <1>2. n.agents.visibility[c] = m.agents.visibility[c]
    BY DEF More, Reclassified
  <1> QED BY <1>1, <1>2 DEF Readable

\* What a step conceals depends on what is to be seen only.
LEMMA MoreSame ==
    ASSUME NEW n, NEW n2, SameFace(n, n2), AgentsOK(n.agents), AgentsOK(n2.agents), NEW s
    PROVE  More(n2, s) = More(n, s)
  <1>1. \A c \in Clients : s \in OpenSessions(n.agents) =>
           (Perceives(n2.agents, s, c) <=> Perceives(n.agents, s, c))
    BY DEF SameFace, Perceives
  <1>2. Concealed(n2, s) = Concealed(n, s)
    BY <1>1, Zenon DEF SameFace, Concealed
  <1>3. Reclassified(n2) = Reclassified(n)
    BY DEF SameFace, Reclassified
  <1>4. Regranted(n2, s) <=> Regranted(n, s)
    BY DEF SameFace, Regranted
  <1> QED BY <1>2, <1>3, <1>4 DEF More

\* Outside of a drain, what a session does not perceive is in doubt.
LEMMA Unperceived ==
    ASSUME Inv, phase # "drain", NEW n, NEW d2, Doubted(n, d2),
           NEW s \in OpenSessions(m.agents), NEW c \in Clients, m.shadow[c].known,
           c \notin Known(lives, d2, view).doubt[s]
    PROVE  Perceives(m.agents, s, c)
  <1>1. DoubtShape(doubt) /\ s \in Sessions /\ Concealed(m, s) \subseteq doubt[s].unsettled \cup doubt[s].concealed
    BY DEF Inv, InvAt, Ok, Sound, AgentsOK
  <1>2. Known(lives, doubt, view).doubt[s] = doubt[s].unsettled \cup doubt[s].concealed
    BY <1>1, KnownFacts
  <1>3. DoubtGrows(Known(lives, doubt, view), Known(lives, d2, view), s)
    BY <1>1, DoubtedFacts
  <1> QED BY <1>1, <1>2, <1>3 DEF DoubtGrows, Concealed

\* A client appears and is registered.
LEMMA ManageStep ==
    ASSUME Inv, NEW c \in Clients, NEW title, NEW place, Manage(c, title, place)
    PROVE  Inv'
  <1> DEFINE born == [managed |-> TRUE, title |-> title, workspace |-> m.current,
                      place |-> place, life |-> lives[c]]
             n1 == [m EXCEPT !.desk[c] = born]
             n2 == Register(n1, c)
             k == Known(lives, doubt, view)
             k2 == Known(lives, doubt', view)
  <1>1. /\ ~ Managed(m, c) /\ Change(n2) /\ lives' = lives /\ phase # "drain"
    BY DEF Manage, Moves, Appeared, Change
  <1>2. /\ Ok(m, k) /\ Sound(m) /\ DoubtShape(doubt) /\ lives \in [Clients -> Nat]
        /\ FocusKnown(m) /\ DeskOK(m) /\ DOMAIN m = ManagerFields /\ AgentsOK(m.agents)
        /\ Lively(m, lives) /\ Scoping(m)
    <2>1. Ok(m, k) /\ DoubtShape(doubt) /\ lives \in [Clients -> Nat] /\ FocusKnown(m)
      BY DEF Inv, InvAt
    <2>2. k.lives = lives
      BY <2>1, KnownFacts
    <2> QED BY <2>1, <2>2 DEF Ok, Sound
  <1>3. Doubted(n2, doubt')
    BY <1>1, BecomeFacts DEF Change
  <1>4. /\ DoubtShape(doubt')
        /\ \A s \in Sessions : DoubtGrows(k, k2, s) /\ More(n2, s) \subseteq k2.doubt[s]
    BY <1>2, <1>3, DoubtedFacts
  <1>5. k.lives = lives /\ k.view = view
    BY <1>2, KnownFacts
  <1>6. k2.lives = lives /\ k2.view = view
    BY <1>4, KnownFacts
  <1>7. /\ DOMAIN n1 = DOMAIN m /\ n1.desk = [m.desk EXCEPT ![c] = born]
        /\ n1.focus = m.focus /\ n1.agents = m.agents
        /\ n1.shadow = m.shadow /\ n1.shownFocus = m.shownFocus
        /\ n1.shownWorkspace = m.shownWorkspace
        /\ n1.matchers = m.matchers /\ n1.link = m.link /\ n1.outbox = m.outbox
        /\ n1.text = m.text /\ n1.observations = m.observations /\ n1.semantics = m.semantics
    BY <1>2 DEF ManagerFields
  <1>8. /\ born.managed = TRUE /\ "managed" \in DOMAIN born /\ "life" \in DOMAIN born
        /\ born.life = lives[c]
    OBVIOUS
  <1> HIDE DEF n1, born, k, k2
  <1>9. /\ DOMAIN n1.desk = Clients /\ n1.desk[c] = born
        /\ \A d \in Clients \ {c} : n1.desk[d] = m.desk[d]
    BY <1>2, <1>7 DEF DeskOK
  <1>10. Sane(n1) /\ Registered(n1, n2, {c})
    BY <1>2, <1>7, RegisterFacts DEF Sane
  <1> HIDE DEF n2
  <1>11. Prepared(m, n1, {})
    <2>1. DeskOK(n1)
      BY <1>1, <1>2, <1>7, <1>8, <1>9, Zenon DEF DeskOK, Managed
    <2>2. n1.matchers \in [Sessions -> SUBSET Clients]
      BY <1>2, <1>7 DEF Sound
    <2> QED BY <1>2, <1>7, <2>1, <2>2 DEF Prepared
  <1>12. \A d \in Clients : /\ Managed(m, d) => Managed(n1, d)
                            /\ Managed(n1, d) => Managed(m, d) \/ d \in {c}
                            /\ Managed(n1, d) => n1.desk[d].life = k.lives[d]
    <2> TAKE d \in Clients
    <2>1. CASE d = c
      BY <1>1, <1>5, <1>8, <1>9, <2>1 DEF Managed
    <2>2. CASE d # c
      BY <1>2, <1>5, <1>9, <2>2 DEF Managed, Lively
    <2> QED BY <2>1, <2>2
  <1>13. \A s \in OpenSessions(n1.agents), d \in Clients :
              Managed(n1, d) /\ d \in n1.matchers[s] =>
                  d \in {c} \/ Covers(n1.agents.sessions[s].grant, d)
    BY <1>2, <1>7, <1>12 DEF Scoping
  <1>14. ASSUME NEW s \in OpenSessions(m.agents)
         PROVE  SameAnnounced(m, n2, s, k2.doubt[s])
    <2>1. s \in Sessions /\ n2.shadow = m.shadow /\ s \in OpenSessions(n2.agents)
      BY <1>2, <1>7, <1>10 DEF AgentsOK, Registered
    <2>2. \A d \in Clients \ k2.doubt[s] : m.shadow[d].known => Perceives(m.agents, s, d)
      BY <1>1, <1>3, Unperceived DEF k2
    <2> QED BY <1>4, <2>1, <2>2, AnnouncedSame
  <1>15. OkBut(n2, k2, {})
    BY <1>2, <1>4, <1>5, <1>6, <1>10, <1>11, <1>12, <1>13, <1>14, RegisteredKeeps
  <1>16. Ok(n2, k2)
    BY <1>15 DEF OkBut, Ok
  <1>17. FocusKnown(n2)
    BY <1>2, <1>7, <1>10 DEF FocusKnown, Registered
  <1>18. lives' \in [Clients -> Nat] /\ Ok(n2, Known(lives', doubt', view))
    BY <1>1, <1>2, <1>16 DEF k2
  <1> QED BY <1>1, <1>17, <1>18, ChangeKeeps

\* Sessions are given other grants.
GrantsSet(a, a2) ==
    /\ DOMAIN a2 = DOMAIN a /\ AgentsOK(a2)
    /\ a2.visibility = a.visibility /\ a2.generation = a.generation
    /\ OpenSessions(a2) = OpenSessions(a)
    /\ \A s \in OpenSessions(a) :
          /\ a2.sessions[s].subscription = a.sessions[s].subscription
          /\ a2.sessions[s].sequence = a.sessions[s].sequence

\* One more session gets its grant.
LEMMA SetGrantFacts ==
    ASSUME NEW a, NEW a1, GrantsSet(a, a1), NEW s \in OpenSessions(a), NEW grant \in Grants
    PROVE  GrantsSet(a, SetGrant(a1, s, grant))
  <1> DEFINE x == a1.sessions[s]
             y == [x EXCEPT !.grant = grant]
             a2 == SetGrant(a1, s, grant)
  <1>1. AgentsOK(a1) /\ s \in OpenSessions(a1)
    BY DEF GrantsSet
  <1>2. SessionOK(x)
    BY <1>1 DEF AgentsOK
  <1>3. /\ DOMAIN a2 = DOMAIN a1 /\ a2.visibility = a1.visibility /\ a2.generation = a1.generation
        /\ OpenSessions(a2) = OpenSessions(a1) /\ a2.sessions[s] = y
        /\ \A t \in OpenSessions(a1) \ {s} : a2.sessions[t] = a1.sessions[t]
    BY <1>1 DEF SetGrant, OpenSessions, AgentsOK
  <1> HIDE DEF x, a2
  <1>4. /\ DOMAIN y = DOMAIN x /\ y.grant = grant /\ y.status = x.status
        /\ y.subscription = x.subscription /\ y.sequence = x.sequence
    BY <1>2 DEF SessionOK
  <1> HIDE DEF y
  <1>5. SessionOK(y)
    BY <1>2, <1>4 DEF SessionOK
  <1>6. AgentsOK(a2)
    BY <1>1, <1>3, <1>5 DEF AgentsOK
  <1>7. \A t \in OpenSessions(a) :
          /\ a2.sessions[t].subscription = a.sessions[t].subscription
          /\ a2.sessions[t].sequence = a.sessions[t].sequence
    <2> TAKE t \in OpenSessions(a)
    <2>1. CASE t = s
      BY <1>3, <1>4, <2>1 DEF GrantsSet, x
    <2>2. CASE t # s
      BY <1>3, <2>2 DEF GrantsSet
    <2> QED BY <2>1, <2>2
  <1>8. GrantsSet(a, a2)
    BY <1>3, <1>6, <1>7 DEF GrantsSet
  <1> QED BY <1>8 DEF a2

\* Giving sessions their new grants.
Granting ==
    INSTANCE FoldFacts WITH
        Op <- LAMBDA env, s, a : SetGrant(a, s, env.grants[s]),
        Pick <- LAMBDA T : CHOOSE s \in T : TRUE,
        Holds <- LAMBDA env, T, a : GrantsSet(env.agents, a)

\* The fold of reapply_agent_grants.
GrantAll(a, sessions, grants) ==
    FoldSet(LAMBDA s, b : SetGrant(b, s, grants[s]), a, sessions)

\* Sessions get their grants.
LEMMA GrantAllFacts ==
    ASSUME NEW a, AgentsOK(a), NEW sessions, sessions \subseteq OpenSessions(a),
           NEW grants, \A s \in sessions : grants[s] \in Grants
    PROVE  GrantsSet(a, GrantAll(a, sessions, grants))
  <1> DEFINE env == [agents |-> a, grants |-> grants]
  <1>1. Granting!IsFiniteSet(sessions)
    <2>1. IsFiniteSet(sessions)
      BY FiniteAssumption, FS_Subset DEF AgentsOK
    <2> QED BY <2>1 DEF IsFiniteSet, Granting!IsFiniteSet
  <1>2. Granting!Picks(sessions)
    BY DEF Granting!Picks
  <1>3. env.agents = a /\ env.grants = grants
    OBVIOUS
  <1>4. GrantAll(a, sessions, grants) = Granting!Fold(env, a, sessions)
    BY DEF GrantAll, FoldSet, MapThenFoldSet, Granting!Fold
  <1> HIDE DEF env
  <1>5. GrantsSet(env.agents, a)
    BY <1>3 DEF GrantsSet
  <1>6. \A T \in SUBSET sessions : \A b :
           T # {} /\ GrantsSet(env.agents, b) =>
              GrantsSet(env.agents, SetGrant(b, CHOOSE s \in T : TRUE, env.grants[CHOOSE s \in T : TRUE]))
    <2> TAKE T \in SUBSET sessions
    <2> TAKE b
    <2> HAVE T # {} /\ GrantsSet(env.agents, b)
    <2> DEFINE s == CHOOSE s \in T : TRUE
    <2>1. s \in OpenSessions(a) /\ grants[s] \in Grants
      OBVIOUS
    <2> HIDE DEF s
    <2>2. GrantsSet(a, SetGrant(b, s, grants[s]))
      BY <1>3, <2>1, SetGrantFacts
    <2> QED BY <1>3, <2>2 DEF s
  <1>7. GrantsSet(env.agents, Granting!Fold(env, a, sessions))
    BY <1>1, <1>2, <1>5, <1>6, Granting!FoldKeeps, Zenon
  <1> QED BY <1>3, <1>4, <1>7

\* Some sessions are revoked.
RevokedOnly(a, T, a2) ==
    /\ DOMAIN a2 = DOMAIN a /\ DOMAIN a2.sessions = DOMAIN a.sessions
    /\ a2.visibility = a.visibility /\ a2.generation = a.generation
    /\ \A s \in OpenSessions(a) :
          a2.sessions[s] = IF s \in T THEN WithStatus(a.sessions[s], "revoked") ELSE a.sessions[s]

\* Revoking sessions.
Revoking ==
    INSTANCE FoldFacts WITH
        Op <- LAMBDA env, s, a : SetStatus(a, s, "revoked"),
        Pick <- LAMBDA T : CHOOSE s \in T : TRUE,
        Holds <- LAMBDA env, T, a : RevokedOnly(env, T, a)

\* Sessions are revoked.
LEMMA RevokeAllFacts ==
    ASSUME NEW a, AgentsOK(a), NEW sessions, sessions \subseteq OpenSessions(a)
    PROVE  RevokedOnly(a, sessions, FoldSet(LAMBDA s, b : SetStatus(b, s, "revoked"), a, sessions))
  <1>1. Revoking!IsFiniteSet(sessions)
    <2>1. IsFiniteSet(sessions)
      BY FiniteAssumption, FS_Subset DEF AgentsOK
    <2> QED BY <2>1 DEF IsFiniteSet, Revoking!IsFiniteSet
  <1>2. Revoking!Picks(sessions)
    BY DEF Revoking!Picks
  <1>3. FoldSet(LAMBDA s, b : SetStatus(b, s, "revoked"), a, sessions) = Revoking!Fold(a, a, sessions)
    BY DEF FoldSet, MapThenFoldSet, Revoking!Fold
  <1>4. RevokedOnly(a, {}, a)
    BY DEF RevokedOnly
  <1>5. \A T \in SUBSET sessions : \A b :
           T # {} /\ RevokedOnly(a, T \ {CHOOSE s \in T : TRUE}, b) =>
              RevokedOnly(a, T, SetStatus(b, CHOOSE s \in T : TRUE, "revoked"))
    <2> TAKE T \in SUBSET sessions
    <2> TAKE b
    <2> HAVE T # {} /\ RevokedOnly(a, T \ {CHOOSE s \in T : TRUE}, b)
    <2> DEFINE s == CHOOSE s \in T : TRUE
               b2 == SetStatus(b, s, "revoked")
    <2>1. s \in T /\ s \in OpenSessions(a)
      OBVIOUS
    <2>2. RevokedOnly(a, T \ {s}, b)
      OBVIOUS
    <2> HIDE DEF s
    <2>3. /\ DOMAIN b2 = DOMAIN b /\ DOMAIN b2.sessions = DOMAIN b.sessions
          /\ b2.visibility = b.visibility /\ b2.generation = b.generation
          /\ b2.sessions[s] = WithStatus(b.sessions[s], "revoked")
          /\ \A t \in OpenSessions(a) \ {s} : b2.sessions[t] = b.sessions[t]
      BY <2>1, <2>2 DEF RevokedOnly, SetStatus, WithStatus, OpenSessions, AgentsOK
    <2>4. b.sessions[s] = a.sessions[s]
      BY <2>1, <2>2 DEF RevokedOnly
    <2> HIDE DEF b2
    <2>5. \A t \in OpenSessions(a) :
            b2.sessions[t] = IF t \in T THEN WithStatus(a.sessions[t], "revoked") ELSE a.sessions[t]
      <3> TAKE t \in OpenSessions(a)
      <3>1. CASE t = s
        BY <2>1, <2>3, <2>4, <3>1
      <3>2. CASE t # s
        BY <2>2, <2>3, <3>2 DEF RevokedOnly
      <3> QED BY <3>1, <3>2
    <2>6. RevokedOnly(a, T, b2)
      BY <2>2, <2>3, <2>5 DEF RevokedOnly
    <2> QED BY <2>6 DEF s, b2
  <1>6. RevokedOnly(a, sessions, Revoking!Fold(a, a, sessions))
    BY <1>1, <1>2, <1>4, <1>5, Revoking!FoldKeeps
  <1> QED BY <1>3, <1>6, Zenon

\* The new grants are in force, and the scopes known.
Rescoped(n, grants, matchers, asked) ==
    [n EXCEPT
        !.matchers = [s \in Sessions |-> IF s \in asked THEN matchers[s] ELSE n.matchers[s]],
        !.agents = GrantAll(n.agents, asked, grants)]

\* New grants and scopes, before the clients are registered for them.
LEMMA RegrantedPrepared ==
    ASSUME NEW n, Sound(n), NEW grants \in [Sessions -> Grants],
           NEW matchers \in [Sessions -> SUBSET Clients],
           NEW asked, asked \subseteq OpenSessions(n.agents)
    PROVE  LET n1 == Rescoped(n, grants, matchers, asked)
           IN  /\ Prepared(n, n1, {}) /\ n1.desk = n.desk /\ Sane(n1)
  <1> DEFINE n1 == Rescoped(n, grants, matchers, asked)
             a1 == GrantAll(n.agents, asked, grants)
             ms == [s \in Sessions |-> IF s \in asked THEN matchers[s] ELSE n.matchers[s]]
  <1>1. AgentsOK(n.agents) /\ DOMAIN n = ManagerFields /\ n.matchers \in [Sessions -> SUBSET Clients]
        /\ DeskOK(n)
    BY DEF Sound
  <1>2. \A s \in asked : grants[s] \in Grants
    BY <1>1 DEF AgentsOK
  <1>3. GrantsSet(n.agents, a1)
    BY <1>1, <1>2, GrantAllFacts
  <1>4. ms \in [Sessions -> SUBSET Clients]
    BY <1>1
  <1> HIDE DEF a1, ms
  <1>5. n1 = [n EXCEPT !.matchers = ms, !.agents = a1]
    BY DEF Rescoped, a1, ms
  <1>6. /\ DOMAIN n1 = DOMAIN n /\ n1.desk = n.desk /\ n1.agents = a1 /\ n1.matchers = ms
        /\ n1.focus = n.focus
        /\ n1.shadow = n.shadow /\ n1.shownFocus = n.shownFocus
        /\ n1.shownWorkspace = n.shownWorkspace /\ n1.link = n.link /\ n1.outbox = n.outbox
        /\ n1.text = n.text /\ n1.observations = n.observations /\ n1.semantics = n.semantics
    BY <1>1, <1>5 DEF ManagerFields
  <1> HIDE DEF n1
  <1>7. DeskOK(n1)
    BY <1>1, <1>6 DEF DeskOK, Managed
  <1>8. Prepared(n, n1, {})
    BY <1>3, <1>4, <1>6, <1>7 DEF Prepared, GrantsSet
  <1>9. Sane(n1)
    BY <1>1, <1>3, <1>6 DEF Sane, GrantsSet
  <1> QED BY <1>6, <1>8, <1>9 DEF n1

\* The configuration is read again (reapply_agent_grants).
LEMMA ReloadStep ==
    ASSUME Inv, NEW grants \in [Sessions -> Grants], NEW matchers \in [Sessions -> SUBSET Clients],
           Reload(grants, matchers)
    PROVE  Inv'
  <1> DEFINE asked == {s \in OpenSessions(m.agents) : Held(m, s) /\ s \notin m.consented}
             revoked == {s \in asked : grants[s].capabilities = {}}
             n1 == Rescoped(m, grants, matchers, asked)
             n2 == RegisterAll(n1)
             a3 == FoldSet(LAMBDA s, a : SetStatus(a, s, "revoked"), n2.agents, revoked)
             n3 == [n2 EXCEPT !.agents = a3]
             failed == FailAllWork(n3, revoked)
             event == Everyone(m, SessionControl("revoked"))
             n4 == FlushEvents(Emit(failed, "session_control", NoClient, event))
             n == ReapplyGrants(m, grants, matchers)
             k == Known(lives, doubt, view)
             k2 == Known(lives, doubt', view)
             all == {c \in Clients : Managed(n1, c)}
  <1>1. /\ Change(n) /\ lives' = lives /\ phase # "drain" /\ Doubted(n, doubt')
    BY BecomeFacts DEF Reload, Moves, Change
  <1>2. n = IF revoked = {} THEN n2 ELSE n4
    BY DEF ReapplyGrants, Rescoped, GrantAll
  <1>3. asked \subseteq OpenSessions(m.agents) /\ revoked \subseteq asked
    OBVIOUS
  <1>4. /\ Ok(m, k) /\ Sound(m) /\ DoubtShape(doubt) /\ lives \in [Clients -> Nat]
        /\ FocusKnown(m) /\ AgentsOK(m.agents) /\ Lively(m, lives)
    <2>1. Ok(m, k) /\ DoubtShape(doubt) /\ lives \in [Clients -> Nat] /\ FocusKnown(m)
      BY DEF Inv, InvAt
    <2>2. k.lives = lives
      BY <2>1, KnownFacts
    <2> QED BY <2>1, <2>2 DEF Ok, Sound
  <1>5. /\ DoubtShape(doubt')
        /\ \A s \in Sessions : /\ DoubtGrows(k, k2, s) /\ More(n, s) \subseteq k2.doubt[s]
                               /\ k2.doubt[s] = k.doubt[s] \cup More(n, s)
                               /\ k2.ever[s] = k.ever[s] \cup More(n, s)
    BY <1>1, <1>4, DoubtedFacts
  <1>6. k.lives = lives /\ k.view = view
    BY <1>4, KnownFacts
  <1>7. k2.lives = lives /\ k2.view = view /\ k2.pending = {}
    BY <1>5, KnownFacts
  <1> HIDE DEF asked, n1, k, k2, n
  <1>8. Prepared(m, n1, {}) /\ n1.desk = m.desk /\ Sane(n1)
    BY <1>3, <1>4, RegrantedPrepared DEF n1
  <1>9. Registered(n1, n2, all)
    BY <1>8, RegisterAllFacts
  <1> HIDE DEF n2
  <1>10. /\ OpenSessions(n2.agents) = OpenSessions(m.agents) /\ AgentsOK(n2.agents)
         /\ n2.shadow = m.shadow /\ n2.shownFocus = m.shownFocus
    BY <1>8, <1>9 DEF Prepared, Registered
  \* What comes after the register shows nothing new.
  <1>11. ASSUME NEW k0, Ok(n2, k0) PROVE Kept(n2, k0, n)
    <2>1. CASE revoked = {}
      BY <1>2, <1>11, <2>1, SameFaceRefl DEF Kept
    <2>2. CASE revoked # {}
      <3>1. RevokedOnly(n2.agents, revoked, a3)
        BY <1>3, <1>10, RevokeAllFacts, Zenon
      <3> HIDE DEF a3
      <3>2. /\ DOMAIN a3 = DOMAIN n2.agents
            /\ a3.visibility = n2.agents.visibility /\ a3.generation = n2.agents.generation
            /\ OpenSessions(a3) = OpenSessions(n2.agents)
            /\ \A s \in OpenSessions(a3) :
                  \/ a3.sessions[s] = n2.agents.sessions[s]
                  \/ \E status : a3.sessions[s] = WithStatus(n2.agents.sessions[s], status)
        BY <3>1 DEF RevokedOnly, OpenSessions
      <3>3. Kept(n2, k0, n3) /\ n3.agents = a3 /\ Free(n3)
        BY <1>11, <3>2, StatusesKeep
      <3>4. IsFiniteSet(revoked)
        BY <1>3, <1>4, FiniteAssumption, FS_Subset DEF AgentsOK
      <3> HIDE DEF n3, revoked
      <3>5. failed = n3
        BY <3>3, <3>4, NoWorkAtAll
      <3>6. \A s \in OpenSessions(n3.agents) : event[s].kind \in {"human_activity", "session_control"}
        BY <1>10, <3>2, <3>3 DEF Everyone, SessionControl
      <3> HIDE DEF event
      <3>7. Kept(n3, k0, n4)
        BY <3>3, <3>5, <3>6, NoticeSentKeeps DEF Kept
      <3>8. Kept(n2, k0, n4)
        BY <3>3, <3>7, SameFaceTrans DEF Kept
      <3> QED BY <1>2, <2>2, <3>8
    <2> QED BY <2>1, <2>2
  \* The doubt of the register is that of the whole step.
  <1> DEFINE d3 == [s \in Sessions |->
                       LET more == Concealed(n2, s) \cup Reclassified(n2)
                                   \cup IF Regranted(n2, s) THEN Clients ELSE {}
                       IN  [doubt[s] EXCEPT !.concealed = @ \cup more, !.ever = @ \cup more,
                                            !.revoked = @ \/ Revoked(n2, s)]]
             k3 == Known(lives, d3, view)
  <1>12. Doubted(n2, d3)
    BY DEF Doubted
  <1> HIDE DEF d3
  <1>13. /\ DoubtShape(d3)
         /\ \A s \in Sessions : /\ DoubtGrows(k, k3, s) /\ More(n2, s) \subseteq k3.doubt[s]
                                /\ k3.doubt[s] = k.doubt[s] \cup More(n2, s)
                                /\ k3.ever[s] = k.ever[s] \cup More(n2, s)
    BY <1>4, <1>12, DoubtedFacts DEF k
  <1>14. k3.lives = lives /\ k3.view = view /\ k3.pending = {}
    BY <1>13, KnownFacts
  <1> HIDE DEF k3
  <1>15. \A c \in Clients : /\ Managed(m, c) => Managed(n1, c)
                            /\ Managed(n1, c) => Managed(m, c) \/ c \in all
                            /\ Managed(n1, c) => n1.desk[c].life = k.lives[c]
    BY <1>4, <1>6, <1>8 DEF Managed, Lively
  <1>16. \A s \in OpenSessions(n1.agents), c \in Clients :
              Managed(n1, c) /\ c \in n1.matchers[s] =>
                  c \in all \/ Covers(n1.agents.sessions[s].grant, c)
    OBVIOUS
  <1> HIDE DEF all
  <1>17. ASSUME NEW s \in OpenSessions(m.agents)
         PROVE  SameAnnounced(m, n2, s, k3.doubt[s])
    <2>1. s \in Sessions /\ n2.shadow = m.shadow /\ s \in OpenSessions(n2.agents)
      BY <1>4, <1>10 DEF AgentsOK
    <2>2. \A c \in Clients \ k3.doubt[s] : m.shadow[c].known => Perceives(m.agents, s, c)
      BY <1>1, <1>12, Unperceived DEF k3
    <2> QED BY <1>13, <2>1, <2>2, AnnouncedSame
  <1>18. OkBut(n2, k3, {})
    BY <1>4, <1>6, <1>8, <1>9, <1>13, <1>14, <1>15, <1>16, <1>17, RegisteredKeeps
  <1>19. Kept(n2, k3, n)
    BY <1>11, <1>18 DEF OkBut, Ok
  <1>20. Ok(n, k3) /\ SameFace(n2, n) /\ AgentsOK(n.agents) /\ FocusKnown(n)
    BY <1>4, <1>10, <1>19 DEF Kept, Ok, Sound, FocusKnown, SameFace
  <1>21. \A s \in Sessions : DoubtGrows(k3, k2, s)
    <2>1. \A s \in Sessions : More(n, s) = More(n2, s)
      BY <1>10, <1>20, MoreSame
    <2> TAKE s \in Sessions
    <2>2. k2.doubt[s] = k3.doubt[s] /\ k2.ever[s] = k3.ever[s]
      BY <1>5, <1>13, <2>1, Zenon
    <2>3. /\ DoubtGrows(k, k2, s) /\ DoubtGrows(k, k3, s)
      BY <1>5, <1>13
    <2> QED BY <1>7, <1>14, <2>2, <2>3 DEF DoubtGrows
  <1>22. Ok(n, k2)
    BY <1>4, <1>7, <1>14, <1>20, <1>21, DoubtKeeps
  <1>23. lives' \in [Clients -> Nat] /\ Ok(n, Known(lives', doubt', view))
    BY <1>1, <1>4, <1>22 DEF k2
  <1> QED BY <1>1, <1>20, <1>23, ChangeKeeps

(* ---- Bursts and drains ---- *)
\* What comparing the desktop with its shadow leaves.
LEMMA SyncedFacts ==
    ASSUME Inv
    PROVE  LET n == SyncEvents(m)
           IN  Ok(n, Known(lives, doubt, view)) /\ Settled(n)
  <1> DEFINE k == Known(lives, doubt, view)
             n == SyncEvents(m)
  <1>1. /\ Ok(m, k) /\ DoubtShape(doubt) /\ lives \in [Clients -> Nat] /\ FocusKnown(m)
        /\ AgentsOK(m.agents)
    BY DEF Inv, InvAt, Ok, Sound
  <1>2. /\ k.client = NoClient /\ k.fields = {} /\ k.pending = {}
        /\ \A s \in Sessions : k.doubt[s] = doubt[s].unsettled \cup doubt[s].concealed
        /\ Ghost(k) /\ Amid(k, NoClient, {}, {}) = k
    BY <1>1, KnownFacts
  <1> HIDE DEF k
  <1>3. GoneTold(m, k)
    <2> SUFFICES ASSUME NEW s \in OpenSessions(m.agents), NEW c \in Gone(m), ~ Perceives(m.agents, s, c)
                 PROVE  c \in k.doubt[s]
      BY DEF GoneTold
    <2>1. phase # "drain" /\ s \in Sessions
      BY <1>1 DEF Inv, InvAt, AgentsOK
    <2>2. c \in Concealed(m, s)
      BY DEF Concealed, Gone
    <2> QED BY <1>2, <2>1, <2>2 DEF Inv, InvAt
  <1>4. Ok(n, Amid(k, NoClient, {}, {})) /\ Settled(n)
    BY <1>1, <1>2, <1>3, SyncEventsKeeps
  <1> QED BY <1>2, <1>4 DEF k

\* When nothing is left to be announced, nobody has gone unnoticed.
LEMMA SettledFacts ==
    ASSUME NEW n, Settled(n), Sound(n)
    PROVE  FocusKnown(n) /\ Gone(n) = {}
  <1>1. Gone(n) = {}
    BY DEF Gone, Settled
  <1>2. n.shownFocus = n.focus /\ (n.focus # NoClient => n.focus \in Clients /\ Managed(n, n.focus))
    BY DEF Settled, Sound, DeskOK
  <1>3. n.focus # NoClient => Met(n, n.focus)
    BY <1>2 DEF Settled
  <1> QED BY <1>1, <1>2, <1>3 DEF FocusKnown, Met

\* What is settled stays so while the desktop looks the same.
LEMMA SettledStays ==
    ASSUME NEW n, NEW n2, Settled(n), SameFace(n, n2)
    PROVE  Settled(n2)
  BY DEF Settled, SameFace, Met, Managed, ClientState

\* Announcing all and handing it to the transport keeps the invariant.
LEMMA FlushedStep ==
    ASSUME Inv, phase' = "idle", Become(FlushEvents(SyncEvents(m))), UNCHANGED <<view, lives>>
    PROVE  Inv'
  <1> DEFINE k == Known(lives, doubt, view)
             n1 == SyncEvents(m)
             n == FlushEvents(n1)
  <1>1. Ok(n1, k) /\ Settled(n1)
    BY SyncedFacts
  <1> HIDE DEF n1, k
  <1>2. Ok(n, k) /\ SameFace(n1, n)
    BY <1>1, FlushEventsKeeps DEF Kept
  <1> HIDE DEF n
  <1>3. Settled(n) /\ Sound(n)
    BY <1>1, <1>2, SettledStays DEF Ok
  <1>4. FocusKnown(n) /\ Gone(n) = {}
    BY <1>3, SettledFacts
  <1>5. m' = n /\ Doubted(n, doubt')
    BY BecomeFacts DEF n, n1
  <1>6. InvAt(n, "idle", view, doubt', lives)
    BY <1>2, <1>3, <1>4, <1>5, StillKeeps DEF k
  <1> QED BY <1>5, <1>6 DEF Inv

\* The end of a burst and of a drain.
LEMMA BoundaryStep ==
    ASSUME Inv, Boundary \/ EndDrain
    PROVE  Inv'
  BY FlushedStep DEF Boundary, EndDrain

\* The beginning of a drain.
LEMMA DrainStep ==
    ASSUME Inv, Drain
    PROVE  Inv'
  <1> DEFINE k == Known(lives, doubt, view)
             n == SyncEvents(m)
  <1>1. Ok(n, k) /\ Settled(n)
    BY SyncedFacts
  <1>2. m' = n /\ Doubted(n, doubt') /\ phase' = "drain" /\ view' = view /\ lives' = lives
    BY BecomeFacts DEF Drain
  <1> HIDE DEF n, k
  <1>3. FocusKnown(n) /\ Gone(n) = {}
    BY <1>1, SettledFacts DEF Ok
  <1>4. InvAt(n, "drain", view, doubt', lives)
    BY <1>1, <1>2, <1>3, StillKeeps DEF k
  <1> QED BY <1>2, <1>4 DEF Inv

(* ---- Sessions ---- *)
\* What a frame that is sent leaves alone.
LEMMA SendFacts ==
    ASSUME NEW n, DOMAIN n = ManagerFields, NEW s, NEW frame
    PROVE  LET n2 == Send(n, s, frame)
           IN  /\ n2.desk = n.desk /\ n2.focus = n.focus /\ n2.current = n.current
               /\ n2.drag = n.drag /\ n2.agents = n.agents /\ n2.shadow = n.shadow
               /\ n2.shownFocus = n.shownFocus /\ n2.shownWorkspace = n.shownWorkspace
  BY DEF Send, CloseLink, ManagerFields

\* Frames that come and go settle and unsettle nothing.
LEMMA SightsSettle ==
    ASSUME NEW n, NEW n2, SameSights(n, n2)
    PROVE  /\ FocusKnown(n) => FocusKnown(n2)
           /\ Gone(n2) = Gone(n)
           /\ Settled(n) => Settled(n2)
  BY DEF SameSights, FocusKnown, Gone, Managed, Settled, Met, ClientState

\* A step in the drain after which as much is to be seen.
LEMMA InboundStep ==
    ASSUME Inv, Inbound, NEW n, Become(n), Ok(n, Known(lives, doubt, view)), SameSights(m, n)
    PROVE  Inv'
  <1>1. /\ m' = n /\ Doubted(n, doubt') /\ phase = "drain" /\ phase' = "drain"
        /\ view' = view /\ lives' = lives
    BY BecomeFacts DEF Inbound
  <1>2. FocusKnown(n) /\ Gone(n) = {}
    BY <1>1, SightsSettle DEF Inv, InvAt
  <1>3. InvAt(n, "drain", view, doubt', lives)
    BY <1>1, <1>2, StillKeeps
  <1> QED BY <1>1, <1>3 DEF Inv

\* A session connects or disconnects.
LEMMA LinkStep ==
    ASSUME Inv, NEW s \in Sessions, Connect(s) \/ Disconnect(s)
    PROVE  Inv'
  <1> DEFINE k == Known(lives, doubt, view)
             n1 == [m EXCEPT !.link[s] = "connected"]
             n2 == [CloseSession(m, s) EXCEPT !.link[s] = "gone", !.outbox[s] = <<>>]
  <1>1. Ok(m, k)
    BY DEF Inv, InvAt
  <1> HIDE DEF k
  <1>2. CASE Connect(s)
    <2>1. m.link[s] = "none" /\ Inbound /\ Become(n1)
      BY <1>2 DEF Connect
    <2>2. Ok(n1, k) /\ SameSights(m, n1)
      BY <1>1, <2>1, ConnectKeeps
    <2> QED BY <2>1, <2>2, InboundStep DEF k
  <1>3. CASE Disconnect(s)
    <2>1. Inbound /\ Become(n2)
      BY <1>3 DEF Disconnect
    <2>2. Ok(n2, k) /\ SameSights(m, n2)
      BY <1>1, DisconnectKeeps, Zenon
    <2> QED BY <2>1, <2>2, InboundStep DEF k
  <1> QED BY <1>2, <1>3

\* A second greeting ends the session.
LEMMA FaultStep ==
    ASSUME Inv, NEW s \in Sessions, Inbound, Become(Fault(m, s))
    PROVE  Inv'
  <1>1. Ok(m, Known(lives, doubt, view))
    BY DEF Inv, InvAt
  <1>2. Ok(Fault(m, s), Known(lives, doubt, view)) /\ SameSights(m, Fault(m, s))
    BY <1>1, FaultKeeps
  <1> QED BY <1>2, InboundStep

\* The doubt after a step depends on what is to be seen.
LEMMA DoubtedBySight ==
    ASSUME NEW n, NEW n2, n2.agents = n.agents, n2.shadow = n.shadow, NEW d2, Doubted(n2, d2)
    PROVE  Doubted(n, d2)
  <1>1. /\ \A s : Concealed(n2, s) = Concealed(n, s)
        /\ Reclassified(n2) = Reclassified(n)
        /\ \A s : Regranted(n2, s) = Regranted(n, s)
        /\ \A s : Revoked(n2, s) = Revoked(n, s)
    BY DEF Concealed, Reclassified, Regranted, Revoked
  <1> QED BY <1>1, Zenon DEF Doubted

\* An agent's own action.
LEMMA ActsStep ==
    ASSUME Inv, NEW s \in Sessions, NEW n0, Stirred(n0), Acts(s, n0)
    PROVE  Inv'
  <1> DEFINE k == Known(lives, doubt, view)
             why == Authorize(m.agents, s, {"manage"})
             yes == [frame |-> "response", request |-> "act", outcome |-> "ok"]
             no == [frame |-> "response", request |-> "act", outcome |-> why]
  <1>1. m.link[s] = "greeted" /\ Inbound /\ phase = "drain"
    BY DEF Acts, Inbound
  <1>2. Ok(m, k) /\ FocusKnown(m) /\ Gone(m) = {} /\ lives \in [Clients -> Nat]
    BY <1>1 DEF Inv, InvAt
  <1>3. yes.frame # "event" /\ ~ IsSnapshot(yes) /\ no.frame # "event" /\ ~ IsSnapshot(no)
    BY DEF IsSnapshot
  <1>4. Become(IF why = "ok" THEN Send(n0, s, yes) ELSE Send(m, s, no))
    BY DEF Acts, Respond
  <1> HIDE DEF k, yes, no, why
  <1>5. CASE why # "ok"
    <2>1. Ok(Send(m, s, no), k) /\ SameSights(m, Send(m, s, no))
      BY <1>1, <1>2, <1>3, SendKeeps
    <2> QED BY <1>1, <1>4, <1>5, <2>1, InboundStep DEF k
  <1>6. CASE why = "ok"
    <2> DEFINE n == Send(n0, s, yes)
               k2 == Known(lives, doubt', view)
    <2>1. DeskMoved(m, n0) /\ DeskOK(n0) /\ DOMAIN n0 = ManagerFields
      BY ManagerShape DEF Stirred, DeskMoved
    <2>2. /\ m' = n /\ Doubted(n, doubt') /\ phase' = "drain" /\ view' = view /\ lives' = lives
      BY <1>1, <1>4, <1>6, BecomeFacts DEF Inbound
    <2>3. n.agents = n0.agents /\ n.shadow = n0.shadow /\ n.shownFocus = n0.shownFocus
          /\ n.desk = n0.desk
      BY <2>1, SendFacts
    <2> HIDE DEF n
    <2>4. Doubted(n0, doubt')
      BY <2>2, <2>3, DoubtedBySight
    <2>5. Ok(n0, k2)
      BY <1>2, <2>4, MovedKeeps DEF Stirred
    <2> HIDE DEF k2
    <2>6. n0.link[s] = "greeted"
      BY <1>1, <2>1 DEF DeskMoved
    <2>7. Ok(n, k2)
      BY <1>3, <2>5, <2>6, SendKeeps DEF n
    <2>8. FocusKnown(n) /\ Gone(n) = {}
      <3>1. n.shadow = m.shadow /\ n.shownFocus = m.shownFocus
        BY <2>1, <2>3 DEF DeskMoved
      <3>2. \A c \in Clients : Managed(n, c) <=> Managed(m, c)
        BY <2>3 DEF Stirred, Managed
      <3> QED BY <1>2, <3>1, <3>2 DEF FocusKnown, Gone
    <2>9. InvAt(n, "drain", view, doubt', lives)
      BY <1>2, <2>2, <2>7, <2>8, BecomeKeeps DEF k2
    <2> QED BY <2>2, <2>9 DEF Inv
  <1> QED BY <1>5, <1>6

\* An agent moves or focuses a client.
LEMMA AgentActStep ==
    ASSUME Inv, NEW s \in Sessions,
           \/ \E c \in Clients, p \in Places : AgentMove(s, c, p)
           \/ \E f \in Clients : AgentFocus(s, f)
    PROVE  Inv'
  <1>1. ASSUME NEW c \in Clients, NEW p \in Places, AgentMove(s, c, p) PROVE Inv'
    <2>1. Acts(s, [m EXCEPT !.desk[c].place = p])
      BY <1>1 DEF AgentMove
    <2>2. Stirred([m EXCEPT !.desk[c].place = p])
      BY EditStirs, Zenon
    <2> QED BY <2>1, <2>2, ActsStep
  <1>2. ASSUME NEW f \in Clients, AgentFocus(s, f) PROVE Inv'
    <2>1. Acts(s, [m EXCEPT !.focus = f]) /\ f \in Focusable
      BY <1>2 DEF AgentFocus
    <2>2. Stirred([m EXCEPT !.focus = f])
      BY <2>1, LookStirs, Zenon
    <2> QED BY <2>1, <2>2, ActsStep
  <1> QED BY <1>1, <1>2

\* The answer to a greeting.
Welcome == [frame |-> "welcome"]

\* The session is opened, with its scope.
WithSession(n, s, grant, matcher) ==
    [[n EXCEPT !.matchers[s] = matcher] EXCEPT !.agents = Open(@, s, grant)]

\* Only the session is new, with its grant and its scope.
Opened(n, s, grant, matcher) ==
    LET n1 == WithSession(n, s, grant, matcher)
    IN  /\ Prepared(n, n1, {s}) /\ Sane(n1)
        /\ n1.desk = n.desk /\ n1.focus = n.focus /\ n1.current = n.current
        /\ n1.drag = n.drag
        /\ n1.agents.sessions[s] = [grant |-> grant, status |-> "active",
                                    subscription |-> NoSubscription, sequence |-> 0]
        /\ \A t \in OpenSessions(n.agents) :
              /\ n1.agents.sessions[t] = n.agents.sessions[t]
              /\ n1.matchers[t] = n.matchers[t]

\* Opening a session opens that session and no other.
LEMMA WithSessionFacts ==
    ASSUME NEW n, Sound(n), NEW s \in Sessions, s \notin OpenSessions(n.agents),
           NEW grant \in Grants, NEW matcher \in SUBSET Clients
    PROVE  Opened(n, s, grant, matcher)
  <1> DEFINE n1 == WithSession(n, s, grant, matcher)
             a1 == Open(n.agents, s, grant)
             ms == [n.matchers EXCEPT ![s] = matcher]
             fresh == [grant |-> grant, status |-> "active",
                       subscription |-> NoSubscription, sequence |-> 0]
  <1>1. AgentsOK(n.agents) /\ DOMAIN n = ManagerFields /\ n.matchers \in [Sessions -> SUBSET Clients]
        /\ DeskOK(n) /\ OpenSessions(n.agents) \subseteq Sessions
    BY DEF Sound, AgentsOK
  <1>2. SessionOK(fresh)
    BY EmptyFacts, Zenon DEF SessionOK, SubscriptionOK, NoSubscription
  <1>3. /\ DOMAIN a1 = DOMAIN n.agents /\ OpenSessions(a1) = OpenSessions(n.agents) \cup {s}
        /\ a1.visibility = n.agents.visibility /\ a1.generation = n.agents.generation
        /\ a1.sessions[s] = fresh
        /\ \A t \in OpenSessions(n.agents) : a1.sessions[t] = n.agents.sessions[t]
    BY <1>1 DEF Open, OpenSessions, AgentsOK
  <1>4. ms \in [Sessions -> SUBSET Clients] /\ \A t \in Sessions \ {s} : ms[t] = n.matchers[t]
    BY <1>1
  <1> HIDE DEF a1, ms, fresh
  <1>5. AgentsOK(a1)
    BY <1>1, <1>2, <1>3 DEF AgentsOK
  <1>6. /\ DOMAIN n1 = DOMAIN n /\ n1.desk = n.desk /\ n1.agents = a1 /\ n1.matchers = ms
        /\ n1.focus = n.focus /\ n1.current = n.current /\ n1.drag = n.drag
        /\ n1.shadow = n.shadow /\ n1.shownFocus = n.shownFocus
        /\ n1.shownWorkspace = n.shownWorkspace /\ n1.link = n.link /\ n1.outbox = n.outbox
        /\ n1.text = n.text /\ n1.observations = n.observations /\ n1.semantics = n.semantics
    BY <1>1 DEF WithSession, ManagerFields, a1, ms
  <1> HIDE DEF n1
  <1>7. DeskOK(n1)
    BY <1>1, <1>6 DEF DeskOK, Managed
  <1>8. Prepared(n, n1, {s})
    BY <1>3, <1>4, <1>5, <1>6, <1>7 DEF Prepared
  <1>9. Sane(n1)
    BY <1>1, <1>5, <1>6 DEF Sane
  <1>10. \A t \in OpenSessions(n.agents) : n1.matchers[t] = n.matchers[t]
    BY <1>1, <1>4, <1>6
  <1> QED BY <1>3, <1>6, <1>8, <1>9, <1>10 DEF Opened, n1, fresh

\* All that is managed is registered for the session, which is welcomed.
Greets(n, s, grant, matcher) ==
    LET n1 == WithSession(n, s, grant, matcher)
        n2 == RegisterAll(n1)
    IN  /\ CompleteGreeting([n EXCEPT !.matchers[s] = matcher], s, grant)
              = [n2 EXCEPT !.link[s] = "greeted", !.outbox[s] = <<Welcome>>]
        /\ Registered(n1, n2, {c \in Clients : Managed(n1, c)})

\* complete_agent_greeting, in two parts.
LEMMA GreetingFacts ==
    ASSUME NEW n, Sound(n), NEW s \in Sessions, s \notin OpenSessions(n.agents),
           n.link[s] = "connected", n.outbox[s] = <<>>,
           NEW grant \in Grants, NEW matcher \in SUBSET Clients
    PROVE  Greets(n, s, grant, matcher)
  <1> DEFINE n0 == [n EXCEPT !.matchers[s] = matcher]
             n1 == WithSession(n, s, grant, matcher)
             n2 == RegisterAll(n1)
             n2b == [n2 EXCEPT !.link[s] = "greeted"]
             n3 == [n2 EXCEPT !.link[s] = "greeted", !.outbox[s] = <<Welcome>>]
             all == {c \in Clients : Managed(n1, c)}
  <1>1. DOMAIN n = ManagerFields /\ DOMAIN n.link = Sessions /\ DOMAIN n.outbox = Sessions
    BY DEF Sound
  <1>2. Prepared(n, n1, {s}) /\ Sane(n1)
    BY WithSessionFacts, Zenon DEF Opened
  <1>3. n1 = [n0 EXCEPT !.agents = Open(@, s, grant)]
    BY DEF WithSession
  <1>4. Held(n0, s)
    BY <1>1 DEF Held, ManagerFields
  <1> HIDE DEF n1, n0
  <1>5. Registered(n1, n2, all)
    BY <1>2, RegisterAllFacts
  <1>6. CompleteGreeting(n0, s, grant) = Send(n2b, s, Welcome)
    BY <1>3, <1>4 DEF CompleteGreeting, Welcome
  <1> HIDE DEF n2
  <1>7. /\ DOMAIN n2 = ManagerFields /\ n2.link = n.link /\ n2.outbox = n.outbox
    BY <1>1, <1>2, <1>5 DEF Registered, Prepared
  <1>8. n2b.link[s] = "greeted" /\ n2b.outbox = n.outbox
    BY <1>1, <1>7 DEF ManagerFields
  <1>9. Held(n2b, s) /\ HasRoom(n2b, s)
    BY <1>8, WriterAssumption, EmptyFacts DEF Held, HasRoom
  <1>10. Send(n2b, s, Welcome) = [n2b EXCEPT !.outbox[s] = Append(@, Welcome)]
    BY <1>9 DEF Send
  <1>11. Append(n2b.outbox[s], Welcome) = <<Welcome>>
    <2>1. Append(<<>>, Welcome) = <<Welcome>>
      <3>1. <<>> \in Seq({Welcome}) /\ Welcome \in {Welcome} /\ <<Welcome>> \in Seq({Welcome})
        OBVIOUS
      <3> HIDE DEF Welcome
      <3>2. Append(<<>>, Welcome) = <<>> \o <<Welcome>>
        BY <3>1, AppendIsConcat
      <3> QED BY <3>1, <3>2, ConcatEmptySeq
    <2>2. n2b.outbox[s] = <<>>
      BY <1>8
    <2> QED BY <2>1, <2>2, Zenon
  <1>12. [n2b EXCEPT !.outbox[s] = Append(@, Welcome)] = n3
    <2>1. [n2b EXCEPT !.outbox[s] = Append(@, Welcome)] = [n2b EXCEPT !.outbox[s] = <<Welcome>>]
      BY <1>11, Zenon
    <2> QED BY <2>1
  <1>13. CompleteGreeting(n0, s, grant) = n3
    BY <1>6, <1>10, <1>12
  <1> QED BY <1>5, <1>13 DEF Greets, n0, n2, n1

\* What a greeting leaves alone.
GreetedFrom(n, n3, s) ==
    /\ DOMAIN n3 = DOMAIN n
    /\ n3.desk = n.desk /\ n3.focus = n.focus /\ n3.current = n.current /\ n3.drag = n.drag
    /\ n3.shadow = n.shadow /\ n3.shownFocus = n.shownFocus
    /\ n3.shownWorkspace = n.shownWorkspace
    /\ n3.link[s] = "greeted" /\ n3.outbox[s] = <<Welcome>>
    /\ OpenSessions(n3.agents) = OpenSessions(n.agents) \cup {s}
    /\ \A t \in OpenSessions(n.agents), c \in Clients :
          Perceives(n3.agents, t, c) => Perceives(n.agents, t, c)

\* A greeting reveals nothing to the other sessions.
LEMMA GreetedFacts ==
    ASSUME NEW n, Sound(n), NEW s \in Sessions, s \notin OpenSessions(n.agents),
           n.link[s] = "connected", n.outbox[s] = <<>>,
           NEW grant \in Grants, NEW matcher \in SUBSET Clients
    PROVE  GreetedFrom(n, CompleteGreeting([n EXCEPT !.matchers[s] = matcher], s, grant), s)
  <1> DEFINE n1 == WithSession(n, s, grant, matcher)
             n2 == RegisterAll(n1)
             n3 == CompleteGreeting([n EXCEPT !.matchers[s] = matcher], s, grant)
             all == {c \in Clients : Managed(n1, c)}
  <1>1. /\ DOMAIN n = ManagerFields /\ DOMAIN n.link = Sessions /\ DOMAIN n.outbox = Sessions
        /\ OpenSessions(n.agents) \subseteq Sessions /\ Scoping(n)
    BY DEF Sound, AgentsOK
  <1>2. /\ n3 = [n2 EXCEPT !.link[s] = "greeted", !.outbox[s] = <<Welcome>>]
        /\ Registered(n1, n2, all)
    <2>1. Greets(n, s, grant, matcher)
      BY GreetingFacts
    <2> QED BY <2>1 DEF Greets
  <1>3. /\ Prepared(n, n1, {s})
        /\ n1.desk = n.desk /\ n1.focus = n.focus /\ n1.current = n.current
        /\ n1.drag = n.drag
        /\ \A t \in OpenSessions(n.agents) :
              /\ n1.agents.sessions[t] = n.agents.sessions[t]
              /\ n1.matchers[t] = n.matchers[t]
    <2>1. Opened(n, s, grant, matcher)
      BY WithSessionFacts
    <2> QED BY <2>1 DEF Opened
  <1>4. \A t \in OpenSessions(n.agents), c \in Clients :
           Perceives(n2.agents, t, c) => Perceives(n.agents, t, c)
    <2> SUFFICES ASSUME NEW t \in OpenSessions(n.agents), NEW c \in Clients, Perceives(n2.agents, t, c)
                 PROVE  Perceives(n.agents, t, c)
      OBVIOUS
    <2> HIDE DEF n2, n1
    <2>1. /\ t \in OpenSessions(n1.agents) /\ n1.agents.visibility = n.agents.visibility
      BY <1>3 DEF Prepared
    <2>2. n.agents.visibility[c] # "hidden"
      BY <1>2, <2>1 DEF Registered, Perceives
    <2>3. \/ Covers(n1.agents.sessions[t].grant, c)
          \/ c \in all /\ c \in n1.matchers[t]
      BY <1>2, <2>1 DEF Registered, Perceives
    <2>4. CASE Covers(n1.agents.sessions[t].grant, c)
      BY <1>3, <2>2, <2>4 DEF Perceives
    <2>5. CASE c \in all /\ c \in n1.matchers[t]
      <3>1. Managed(n, c) /\ c \in n.matchers[t]
        BY <1>3, <2>5 DEF Managed
      <3> QED BY <1>1, <2>2, <3>1 DEF Scoping, Perceives
    <2> QED BY <2>3, <2>4, <2>5
  <1> HIDE DEF n1, n2
  <1>5. /\ DOMAIN n2 = ManagerFields /\ n2.link = n.link /\ n2.outbox = n.outbox
        /\ n2.desk = n.desk /\ n2.focus = n.focus /\ n2.current = n.current /\ n2.drag = n.drag
        /\ n2.shadow = n.shadow /\ n2.shownFocus = n.shownFocus
        /\ n2.shownWorkspace = n.shownWorkspace
        /\ OpenSessions(n2.agents) = OpenSessions(n.agents) \cup {s}
    BY <1>1, <1>2, <1>3 DEF Registered, Prepared
  <1> HIDE DEF n3
  <1>6. /\ DOMAIN n3 = DOMAIN n
        /\ n3.desk = n.desk /\ n3.focus = n.focus /\ n3.current = n.current /\ n3.drag = n.drag
        /\ n3.shadow = n.shadow /\ n3.shownFocus = n.shownFocus
        /\ n3.shownWorkspace = n.shownWorkspace
        /\ n3.agents = n2.agents
        /\ n3.link[s] = "greeted" /\ n3.outbox[s] = <<Welcome>>
    BY <1>1, <1>2, <1>5 DEF ManagerFields
  <1>7. GreetedFrom(n, n3, s)
    BY <1>4, <1>5, <1>6 DEF GreetedFrom
  <1> QED BY <1>7 DEF n3

\* A greeting keeps the invariant.
LEMMA GreetingKeeps ==
    ASSUME NEW n, NEW k, Ok(n, k), NEW s \in Sessions, n.link[s] = "connected",
           NEW grant \in Grants, NEW matcher \in SUBSET Clients,
           NEW n3, n3 = CompleteGreeting([n EXCEPT !.matchers[s] = matcher], s, grant),
           NEW k2, k2.view = k.view, k2.lives = k.lives, k.lives \in [Clients -> Nat],
           \A t \in Sessions : DoubtGrows(k, k2, t), FocusKnown(n) \/ "focus" \in k2.pending,
           \A t \in OpenSessions(n.agents) : SameAnnounced(n, n3, t, k2.doubt[t])
    PROVE  Ok(n3, k2)
  <1> DEFINE n1 == WithSession(n, s, grant, matcher)
             n2 == RegisterAll(n1)
             all == {c \in Clients : Managed(n1, c)}
  <1>1. /\ Sound(n) /\ Lively(n, k.lives) /\ Scoping(n)
        /\ DOMAIN n = ManagerFields /\ DOMAIN n.link = Sessions /\ DOMAIN n.outbox = Sessions
    BY DEF Ok, Sound
  <1>2. s \notin OpenSessions(n.agents) /\ n.outbox[s] = <<>> /\ k.view[s] = NoView
    BY DEF Ok, Linked
  <1>3. /\ n3 = [n2 EXCEPT !.link[s] = "greeted", !.outbox[s] = <<Welcome>>]
        /\ Registered(n1, n2, all)
    <2>1. Greets(n, s, grant, matcher)
      BY <1>1, <1>2, GreetingFacts
    <2> QED BY <2>1 DEF Greets
  <1>4. /\ Prepared(n, n1, {s})
        /\ n1.desk = n.desk
        /\ n1.agents.sessions[s] = [grant |-> grant, status |-> "active",
                                    subscription |-> NoSubscription, sequence |-> 0]
        /\ \A t \in OpenSessions(n.agents) : n1.agents.sessions[t] = n.agents.sessions[t]
    <2>1. Opened(n, s, grant, matcher)
      BY <1>1, <1>2, WithSessionFacts, Zenon
    <2> QED BY <2>1 DEF Opened
  <1> HIDE DEF n1, n2
  <1>5. \A c \in Clients : /\ Managed(n, c) => Managed(n1, c)
                           /\ Managed(n1, c) => Managed(n, c) \/ c \in all
                           /\ Managed(n1, c) => n1.desk[c].life = k.lives[c]
    BY <1>1, <1>4 DEF Managed, Lively
  <1>6. \A t \in OpenSessions(n1.agents), c \in Clients :
              Managed(n1, c) /\ c \in n1.matchers[t] =>
                  c \in all \/ Covers(n1.agents.sessions[t].grant, c)
    OBVIOUS
  <1> HIDE DEF all
  <1>7. /\ DOMAIN n2 = ManagerFields /\ DOMAIN n2.link = Sessions /\ DOMAIN n2.outbox = Sessions
        /\ n2.shadow = n.shadow /\ n2.agents.sessions[s].subscription = NoSubscription
        /\ s \in OpenSessions(n2.agents) /\ OpenSessions(n2.agents) \subseteq Sessions
    <2>1. s \in OpenSessions(n1.agents)
      BY <1>4 DEF Prepared
    <2>2. n1.agents.sessions[s].subscription = NoSubscription
      BY <1>4
    <2> QED BY <1>1, <1>3, <1>4, <2>1, <2>2 DEF Registered, Prepared, AgentsOK
  <1>8. /\ DOMAIN n3 = ManagerFields
        /\ n3.desk = n2.desk /\ n3.focus = n2.focus /\ n3.current = n2.current /\ n3.drag = n2.drag
        /\ n3.shadow = n2.shadow /\ n3.shownFocus = n2.shownFocus
        /\ n3.shownWorkspace = n2.shownWorkspace
        /\ n3.agents = n2.agents /\ n3.matchers = n2.matchers
        /\ n3.text = n2.text /\ n3.observations = n2.observations /\ n3.semantics = n2.semantics
        /\ n3.link = [n2.link EXCEPT ![s] = "greeted"]
        /\ n3.outbox = [n2.outbox EXCEPT ![s] = <<Welcome>>]
    BY <1>3, <1>7, Zenon DEF ManagerFields
  <1>9. \A t \in OpenSessions(n.agents) : SameAnnounced(n, n2, t, k2.doubt[t])
    BY <1>8 DEF SameAnnounced, Readable
  <1>10. {s} \cap OpenSessions(n.agents) = {}
    BY <1>2
  <1>11. OkBut(n2, k2, {s})
    BY <1>3, <1>4, <1>5, <1>6, <1>9, <1>10, RegisteredKeeps
  <1>12. n3.link[s] = "greeted" /\ n3.outbox[s] = <<Welcome>>
         /\ \A t \in Sessions \ {s} : n3.link[t] = n2.link[t] /\ n3.outbox[t] = n2.outbox[t]
         /\ DOMAIN n3.link = Sessions /\ DOMAIN n3.outbox = Sessions
    BY <1>7, <1>8
  <1>13. IsQueue(<<Welcome>>)
    <2>1. <<Welcome>> \in Seq({Welcome})
      OBVIOUS
    <2> QED BY <2>1, Zenon DEF IsQueue
  <1>14. Sound(n3)
    <2>1. Sound(n2)
      BY <1>11 DEF OkBut
    <2>2. \A t \in Sessions : IsQueue(n3.outbox[t])
      <3> TAKE t \in Sessions
      <3>1. CASE t = s
        BY <1>12, <1>13, <3>1
      <3>2. CASE t # s
        BY <1>12, <2>1, <3>2 DEF Sound
      <3> QED BY <3>1, <3>2
    <2>3. DeskOK(n3) /\ Scoping(n3)
      BY <1>8, <2>1 DEF Sound, DeskOK, Scoping, Managed
    <2> QED BY <1>8, <1>12, <2>1, <2>2, <2>3, Zenon DEF Sound
  <1>15. ElseSame(n2, n3, s)
    BY <1>8, <1>12 DEF ElseSame
  <1>16. SameKnown(k2, k2, s)
    BY DEF SameKnown
  <1>17. Linked(n3, s, k2.view[s])
    BY <1>12 DEF Linked
  <1>18. Informs(n3, s, k2, k2.view[s])
    <2>1. Sub(n3, s).queue = <<>> /\ ~ Sub(n3, s).on
      BY <1>7, <1>8 DEF Sub, NoSubscription
    <2>2. Welcome.frame # "event" /\ ~ IsSnapshot(Welcome)
      BY DEF Welcome, IsSnapshot
    <2>3. Informs(n3, s, k2, NoView)
      BY <1>12, <2>1, <2>2, JustOpened
    <2> QED BY <1>2, <2>3
  <1> QED BY <1>11, <1>14, <1>15, <1>16, <1>17, <1>18, ElseJoins

\* A session is greeted, or greets again.
LEMMA GreetStep ==
    ASSUME Inv, NEW s \in Sessions, NEW grant \in Grants, NEW matcher \in SUBSET Clients,
           Greet(s, grant, matcher)
    PROVE  Inv'
  <1>1. CASE m.link[s] = "greeted"
    BY <1>1, FaultStep DEF Greet
  <1>2. CASE m.link[s] # "greeted"
    <2> DEFINE n == CompleteGreeting([m EXCEPT !.matchers[s] = matcher], s, grant)
               k == Known(lives, doubt, view)
               k2 == Known(lives, doubt', view)
    <2>1. Inbound /\ Become(n) /\ m.link[s] = "connected"
      BY <1>2 DEF Greet, Held
    <2>2. /\ m' = n /\ Doubted(n, doubt') /\ phase = "drain" /\ phase' = "drain"
          /\ view' = view /\ lives' = lives
      BY <2>1, BecomeFacts DEF Inbound
    <2>3. /\ Ok(m, k) /\ Sound(m) /\ DoubtShape(doubt) /\ lives \in [Clients -> Nat]
          /\ FocusKnown(m) /\ AgentsOK(m.agents) /\ Gone(m) = {}
      BY <2>2 DEF Inv, InvAt, Ok, Sound
    <2>4. /\ DoubtShape(doubt')
          /\ \A t \in Sessions : DoubtGrows(k, k2, t) /\ More(n, t) \subseteq k2.doubt[t]
      BY <2>2, <2>3, DoubtedFacts
    <2>5. k.lives = lives /\ k.view = view
      BY <2>3, KnownFacts
    <2>6. k2.lives = lives /\ k2.view = view
      BY <2>4, KnownFacts
    <2> HIDE DEF k, k2
    <2>7. GreetedFrom(m, n, s)
      <3>1. s \notin OpenSessions(m.agents) /\ m.outbox[s] = <<>>
        BY <2>1, <2>3 DEF Ok, Linked
      <3> QED BY <2>1, <2>3, <3>1, GreetedFacts, Zenon
    <2>8. \A t \in OpenSessions(m.agents) : SameAnnounced(m, n, t, k2.doubt[t])
      <3> TAKE t \in OpenSessions(m.agents)
      <3>1. t \in Sessions /\ n.shadow = m.shadow /\ t \in OpenSessions(n.agents)
        BY <2>3, <2>7 DEF GreetedFrom, AgentsOK
      <3>2. \A c \in Clients : Perceives(n.agents, t, c) => Perceives(m.agents, t, c)
        BY <2>7 DEF GreetedFrom
      <3> HIDE DEF n
      <3> QED BY <2>4, <3>1, <3>2, AnnouncedSame
    <2>9. Ok(n, k2)
      BY <2>1, <2>3, <2>4, <2>5, <2>6, <2>8, GreetingKeeps, Zenon
    <2> HIDE DEF n
    <2>10. FocusKnown(n) /\ Gone(n) = {}
      BY <2>3, <2>7 DEF GreetedFrom, FocusKnown, Gone, Managed
    <2>11. InvAt(n, "drain", view, doubt', lives)
      BY <2>2, <2>3, <2>9, <2>10, BecomeKeeps DEF k2
    <2> QED BY <2>2, <2>11 DEF Inv
  <1> QED BY <1>1, <1>2

(* ---- Looking at the desktop ---- *)
\* A session's subscription may be new; nothing else has changed.
Resubscribed(n, n1, s) ==
    /\ Sound(n1) /\ SameFace(n, n1) /\ n1.outbox = n.outbox
    /\ \A t \in OpenSessions(n.agents) \ {s} : n1.agents.sessions[t] = n.agents.sessions[t]
    /\ Sequence(n1, s) = Sequence(n, s)
    /\ Sub(n1, s) = Sub(n, s) \/ Sub(n1, s).queue = <<>>
    /\ n1.agents.sessions[s].status = n.agents.sessions[s].status

\* A subscription starts anew, with nothing queued.
LEMMA SubscribeFacts ==
    ASSUME NEW n, Sound(n), NEW s \in OpenSessions(n.agents)
    PROVE  Resubscribed(n, [n EXCEPT !.agents = Subscribe(@, s, {})], s)
  <1> DEFINE u == [NoSubscription EXCEPT !.on = TRUE, !.kinds = {}]
             x == n.agents.sessions[s]
             y == [x EXCEPT !.subscription = u]
             a1 == Subscribe(n.agents, s, {})
             n1 == [n EXCEPT !.agents = a1]
  <1>1. AgentsOK(n.agents) /\ DOMAIN n = ManagerFields
    BY DEF Sound
  <1>2. SessionOK(x)
    BY <1>1 DEF AgentsOK
  <1>3. /\ DOMAIN u = {"on", "kinds", "queue", "dropped", "resync"}
        /\ u.on \in BOOLEAN /\ u.on = TRUE /\ u.resync \in BOOLEAN /\ ~ u.resync
        /\ u.kinds = {} /\ u.dropped = 0 /\ u.queue = <<>>
    BY DEF NoSubscription
  <1> HIDE DEF u
  <1>4. SubscriptionOK(u) /\ u.queue = <<>>
    <2>1. IsQueue(u.queue)
      BY <1>3, EmptyFacts
    <2>2. u.dropped \in Nat /\ u.on
      BY <1>3
    <2> QED BY <1>3, <2>1, <2>2 DEF SubscriptionOK
  <1>5. /\ DOMAIN a1 = DOMAIN n.agents /\ a1.visibility = n.agents.visibility
        /\ a1.generation = n.agents.generation /\ OpenSessions(a1) = OpenSessions(n.agents)
        /\ a1.sessions[s] = y
        /\ \A t \in OpenSessions(n.agents) \ {s} : a1.sessions[t] = n.agents.sessions[t]
    BY <1>1 DEF Subscribe, OpenSessions, AgentsOK, u
  <1> HIDE DEF a1, x
  <1>6. DOMAIN y = DOMAIN x /\ y.subscription = u /\ y.grant = x.grant /\ y.sequence = x.sequence
        /\ y.status = x.status
    BY <1>2 DEF SessionOK
  <1> HIDE DEF y
  <1>7. SessionOK(y)
    BY <1>2, <1>4, <1>6, EmptyFacts DEF SessionOK
  <1>8. AgentsOK(a1)
    BY <1>1, <1>5, <1>7 DEF AgentsOK
  <1>9. /\ DOMAIN n1 = DOMAIN n /\ n1.agents = a1
        /\ n1.desk = n.desk /\ n1.focus = n.focus /\ n1.current = n.current /\ n1.drag = n.drag
        /\ n1.shadow = n.shadow /\ n1.shownFocus = n.shownFocus
        /\ n1.shownWorkspace = n.shownWorkspace
        /\ n1.matchers = n.matchers /\ n1.link = n.link /\ n1.outbox = n.outbox
        /\ n1.text = n.text /\ n1.observations = n.observations /\ n1.semantics = n.semantics
    BY <1>1 DEF ManagerFields
  <1> HIDE DEF n1
  <1>10. \A t \in OpenSessions(n.agents) : n1.agents.sessions[t].grant = n.agents.sessions[t].grant
    BY <1>5, <1>6, <1>9 DEF x
  <1>11. SameFace(n, n1)
    BY <1>5, <1>9, <1>10 DEF SameFace
  <1>12. Sound(n1)
    <2>1. DOMAIN n1.outbox = Sessions /\ \A t \in Sessions : IsQueue(n1.outbox[t])
      BY <1>9 DEF Sound
    <2> QED BY <1>8, <1>9, <1>11, <2>1, StillSound
  <1>13. Sequence(n1, s) = Sequence(n, s) /\ Sub(n1, s).queue = <<>>
         /\ n1.agents.sessions[s].status = n.agents.sessions[s].status
    BY <1>4, <1>5, <1>6, <1>9 DEF Sequence, Sub, x
  <1>14. Resubscribed(n, n1, s)
    BY <1>5, <1>9, <1>11, <1>12, <1>13 DEF Resubscribed
  <1> QED BY <1>14 DEF n1, a1

\* Whoever only looks keeps its subscription.
LEMMA ResubscribedRefl ==
    ASSUME NEW n, Sound(n), NEW s PROVE Resubscribed(n, n, s)
  BY SameFaceRefl DEF Resubscribed

\* A snapshot is as good as what has been announced, but for what is unsettled.
LEMMA SnapshotTells ==
    ASSUME NEW n, Sound(n), NEW s \in OpenSessions(n.agents), NEW k, Lively(n, k.lives),
           k.lives \in [Clients -> Nat],
           k.client = NoClient, k.doubt[s] = Unsettled(n), Unsettled(n) \subseteq k.ever[s]
    PROVE  LET v == ViewOf(Snapshot(n, s))
           IN  v.at = Sequence(n, s) /\ Fits(n, s, k, v) /\ Tracks(n, s, k, v)
  <1> DEFINE v == ViewOf(Snapshot(n, s))
  <1>1. /\ DOMAIN v = ViewFields /\ v.at = Sequence(n, s) /\ v.lost = FALSE
        /\ v.clients = [c \in Clients |-> IF Seen(n, s, c) THEN Descriptor(n, s, c) ELSE NoShadow]
        /\ v.focus = SeenFocus(n, s) /\ v.current = n.current
    BY DEF ViewOf, Snapshot, ViewFields, Sequence
  <1>2. AgentsOK(n.agents) /\ DeskOK(n) /\ DOMAIN n.shadow = Clients
    BY DEF Sound
  <1>3. Sequence(n, s) \in Nat
    BY <1>2 DEF AgentsOK, SessionOK, Sequence
  <1> HIDE DEF v
  <1>4. ASSUME NEW c \in Clients
        PROVE  /\ Seen(n, s, c) => /\ v.clients[c].known = TRUE
                                   /\ DOMAIN v.clients[c] = KnownFields
                                   /\ v.clients[c].title = ReadableTitle(n, s, c)
                                   /\ v.clients[c].state = ClientState(n, c)
                                   /\ v.clients[c].place = n.desk[c].place
                                   /\ v.clients[c].life = n.desk[c].life
                                   /\ v.clients[c].generation = Generation(n.agents, c)
               /\ ~ Seen(n, s, c) => v.clients[c].known = FALSE
    <2>1. v.clients[c] = IF Seen(n, s, c) THEN Descriptor(n, s, c) ELSE NoShadow
      BY <1>1
    <2>2. CASE Seen(n, s, c)
      BY <2>1, <2>2 DEF Descriptor, KnownFields
    <2>3. CASE ~ Seen(n, s, c)
      BY <2>1, <2>3 DEF NoShadow
    <2> QED BY <2>2, <2>3, Zenon
  <1>5. ASSUME NEW c \in Clients, Seen(n, s, c)
        PROVE  /\ Managed(n, c) /\ Perceives(n.agents, s, c)
               /\ n.desk[c].life = k.lives[c] /\ k.lives[c] \in Nat
               /\ Generation(n.agents, c) = n.agents.generation[c]
               /\ n.agents.generation[c] \in Nat \ {0}
    BY <1>2, <1>5 DEF Seen, Lively, Generation, AgentsOK
  <1>6. ASSUME NEW c \in Clients \ Unsettled(n)
        PROVE  /\ n.shadow[c].known <=> Managed(n, c)
               /\ Managed(n, c) => /\ n.shadow[c].title = n.desk[c].title
                                   /\ n.shadow[c].state = ClientState(n, c)
                                   /\ n.shadow[c].place = n.desk[c].place
    <2>1. ~ Managed(n, c) => ~ n.shadow[c].known
      BY <1>6 DEF Unsettled
    <2>2. Managed(n, c) => n.shadow[c] = Live(n, c)
      BY <1>6 DEF Unsettled
    <2>3. /\ Live(n, c).known = TRUE /\ Live(n, c).title = n.desk[c].title
          /\ Live(n, c).state = ClientState(n, c) /\ Live(n, c).place = n.desk[c].place
      BY DEF Live
    <2> QED BY <2>1, <2>2, <2>3
  <1>7. ASSUME NEW c \in Clients \ Unsettled(n), Seen(n, s, c)
        PROVE  \A F : Agrees(n, s, c, v, F)
    <2>1. Readable(n, s, c) = ReadableTitle(n, s, c)
      BY <1>5, <1>6, <1>7 DEF Readable, ReadableTitle
    <2> QED BY <1>4, <1>5, <1>6, <1>7, <2>1, Zenon DEF Agrees
  <1>8. ViewOK(v)
    <2>1. ASSUME NEW c \in Clients
          PROVE  /\ v.clients[c].known \in BOOLEAN
                 /\ v.clients[c].known => /\ DOMAIN v.clients[c] = KnownFields
                                          /\ v.clients[c].life \in Nat
                                          /\ v.clients[c].generation \in Nat \ {0}
      <3>1. CASE Seen(n, s, c)
        BY <1>4, <1>5, <3>1, Zenon
      <3>2. CASE ~ Seen(n, s, c)
        BY <1>4, <3>2, Zenon
      <3> QED BY <3>1, <3>2
    <2>2. v.lost \in BOOLEAN
      BY <1>1, Zenon
    <2> QED BY <1>1, <1>3, <2>1, <2>2 DEF ViewOK
  <1>9. Fits(n, s, k, v)
    <2> SUFFICES ASSUME NEW c \in Clients PROVE Knows(n, s, k, c, v)
      BY <1>8 DEF Fits
    <2> SUFFICES ASSUME c \notin k.ever[s], v.clients[c].known
                 PROVE  /\ Managed(n, c) /\ n.shadow[c].known
                        /\ v.clients[c].life = k.lives[c]
                        /\ v.clients[c].generation <= n.agents.generation[c]
                        /\ Agrees(n, s, c, v, Asked(k, c))
      BY DEF Knows
    <2>1. c \in Clients \ Unsettled(n) /\ Seen(n, s, c)
      BY <1>4, Zenon
    <2>2. v.clients[c].life = k.lives[c] /\ v.clients[c].generation = n.agents.generation[c]
          /\ n.agents.generation[c] \in Nat /\ Managed(n, c)
      BY <1>4, <1>5, <2>1, Zenon
    <2>3. n.shadow[c].known
      BY <1>6, <2>1, <2>2
    <2>4. Agrees(n, s, c, v, Asked(k, c))
      BY <1>7, <2>1
    <2> QED BY <2>2, <2>3, <2>4
  <1>10. ASSUME NEW c \in Clients PROVE Follows(n, s, k, c, v)
    <2> SUFFICES ASSUME c \in Clients \ Unsettled(n)
                 PROVE  IF n.shadow[c].known
                        THEN Perceives(n.agents, s, c) => v.clients[c].known /\ Agrees(n, s, c, v, Asked(k, c))
                        ELSE ~ v.clients[c].known
      BY DEF Follows
    <2>1. Seen(n, s, c) <=> n.shadow[c].known /\ Perceives(n.agents, s, c)
      BY <1>6 DEF Seen
    <2> QED BY <1>4, <1>7, <2>1, Zenon
  <1>11. FollowsFocus(n, s, k, v)
    BY <1>1 DEF FollowsFocus, Unsettled, SeenFocus
  <1>12. FollowsWorkspace(n, s, k, v)
    BY <1>1 DEF FollowsWorkspace, Unsettled
  <1>13. v.at = Sequence(n, s) /\ Fits(n, s, k, v) /\ Tracks(n, s, k, v)
    BY <1>1, <1>9, <1>10, <1>11, <1>12 DEF Tracks
  <1> QED BY <1>13 DEF v

\* A step in the drain that takes no doubt away and adds none.
LEMMA QuietInbound ==
    ASSUME Inv, Inbound, NEW n, m' = n, doubt' = doubt, Ok(n, Known(lives, doubt, view)),
           SameSights(m, n)
    PROVE  Inv'
  <1>1. phase = "drain" /\ phase' = "drain" /\ view' = view /\ lives' = lives
    BY DEF Inbound
  <1>2. FocusKnown(n) /\ Gone(n) = {}
    BY <1>1, SightsSettle DEF Inv, InvAt
  <1>3. InvAt(n, "drain", view, doubt, lives)
    BY <1>2 DEF Inv, InvAt
  <1> QED BY <1>1, <1>3 DEF Inv

\* The snapshot does not fit: the session ends.
LEMMA LookRefused ==
    ASSUME NEW n, NEW k, Ok(n, k), NEW s \in Sessions, NEW n1, Resubscribed(n, n1, s),
           n.link[s] = "greeted", NEW frame, ~ HasRoom(n1, s)
    PROVE  LET n2 == Send(n1, s, frame)
           IN  Ok(n2, k) /\ SameSights(n, n2) /\ n2.outbox[s] = n.outbox[s]
  <1> DEFINE n2 == Send(n1, s, frame)
  <1>1. /\ Sound(n1) /\ SameFace(n, n1) /\ n1.outbox = n.outbox /\ DOMAIN n1 = ManagerFields
        /\ DOMAIN n1.link = Sessions /\ DOMAIN n1.outbox = Sessions
        /\ \A t \in OpenSessions(n.agents) \ {s} : n1.agents.sessions[t] = n.agents.sessions[t]
    BY DEF Resubscribed, Sound
  <1>2. n2 = [n1 EXCEPT !.link[s] = "ending", !.outbox[s] = n1.outbox[s]]
    <2>1. Held(n1, s)
      BY <1>1 DEF Held, SameFace
    <2> QED BY <2>1 DEF Send, CloseLink
  <1> HIDE DEF n2
  <1>3. /\ DOMAIN n2 = DOMAIN n1 /\ n2.agents = n1.agents
        /\ n2.desk = n1.desk /\ n2.focus = n1.focus /\ n2.current = n1.current /\ n2.drag = n1.drag
        /\ n2.shadow = n1.shadow /\ n2.shownFocus = n1.shownFocus
        /\ n2.shownWorkspace = n1.shownWorkspace
        /\ n2.matchers = n1.matchers
        /\ n2.text = n1.text /\ n2.observations = n1.observations /\ n2.semantics = n1.semantics
        /\ n2.link = [n1.link EXCEPT ![s] = "ending"]
        /\ n2.outbox = [n1.outbox EXCEPT ![s] = n1.outbox[s]]
    BY <1>1, <1>2 DEF ManagerFields
  <1>4. /\ DOMAIN n2.link = Sessions /\ DOMAIN n2.outbox = Sessions
        /\ n2.link[s] = "ending" /\ \A t \in Sessions : n2.outbox[t] = n1.outbox[t]
        /\ \A t \in Sessions \ {s} : n2.link[t] = n1.link[t]
    BY <1>1, <1>3
  <1>5. Sound(n2)
    <2>1. DeskOK(n2) /\ Scoping(n2)
      BY <1>1, <1>3 DEF Sound, DeskOK, Scoping, Managed
    <2> QED BY <1>1, <1>3, <1>4, <2>1 DEF Sound
  <1>6. ElseSame(n, n2, s)
    BY <1>1, <1>3, <1>4 DEF ElseSame, SameFace
  <1>7. Linked(n2, s, k.view[s]) /\ Informs(n2, s, k, k.view[s])
    BY <1>4 DEF Linked, Informs, Attended, Held
  <1>8. SameKnown(k, k, s)
    BY DEF SameKnown
  <1>9. Ok(n2, k)
    BY <1>5, <1>6, <1>7, <1>8, ElseKeeps
  <1>10. SameSights(n, n2)
    BY <1>1, <1>3 DEF SameSights, SameFace
  <1> QED BY <1>1, <1>4, <1>9, <1>10 DEF n2

\* A session has been sent a frame.
Answered(n, k, n2, k2, s, frame) ==
    /\ Ok(n2, k2) /\ SameSights(n, n2) /\ n2.outbox[s] = Append(n.outbox[s], frame)
    /\ SameKnown(k, k2, s)

\* The snapshot is sent.
LEMMA LookAnswered ==
    ASSUME NEW n, NEW k, Ok(n, k), NEW s \in Sessions, s \in OpenSessions(n.agents),
           NEW n1, Resubscribed(n, n1, s),
           n.link[s] = "greeted", HasRoom(n1, s),
           NEW frame, IsSnapshot(frame), frame.outcome = Snapshot(n1, s),
           k.lives \in [Clients -> Nat], k.client = NoClient,
           NEW k2, SameKnown(k, k2, s), k2.view = k.view,
           k2.doubt[s] = Unsettled(n), k2.ever[s] = k.ever[s] \cup Unsettled(n)
    PROVE  Answered(n, k, Send(n1, s, frame), k2, s, frame)
  <1> DEFINE n2 == Send(n1, s, frame)
  <1>1. /\ Sound(n1) /\ SameFace(n, n1) /\ n1.outbox = n.outbox /\ DOMAIN n1 = ManagerFields
        /\ DOMAIN n1.link = Sessions /\ DOMAIN n1.outbox = Sessions /\ AgentsOK(n1.agents)
        /\ \A t \in OpenSessions(n.agents) \ {s} : n1.agents.sessions[t] = n.agents.sessions[t]
        /\ Sequence(n1, s) = Sequence(n, s)
        /\ Sub(n1, s) = Sub(n, s) \/ Sub(n1, s).queue = <<>>
    BY DEF Resubscribed, Sound
  <1>2. n2 = [n1 EXCEPT !.outbox[s] = Append(n1.outbox[s], frame)]
    <2>1. Held(n1, s)
      BY <1>1 DEF Held, SameFace
    <2> QED BY <2>1 DEF Send
  <1> HIDE DEF n2
  <1>3. /\ DOMAIN n2 = DOMAIN n1 /\ n2.agents = n1.agents
        /\ n2.desk = n1.desk /\ n2.focus = n1.focus /\ n2.current = n1.current /\ n2.drag = n1.drag
        /\ n2.shadow = n1.shadow /\ n2.shownFocus = n1.shownFocus
        /\ n2.shownWorkspace = n1.shownWorkspace
        /\ n2.matchers = n1.matchers /\ n2.link = n1.link
        /\ n2.text = n1.text /\ n2.observations = n1.observations /\ n2.semantics = n1.semantics
        /\ n2.outbox = [n1.outbox EXCEPT ![s] = Append(n1.outbox[s], frame)]
    BY <1>1, <1>2 DEF ManagerFields
  <1>4. /\ DOMAIN n2.outbox = Sessions /\ n2.outbox[s] = Append(n.outbox[s], frame)
        /\ \A t \in Sessions \ {s} : n2.outbox[t] = n1.outbox[t]
    BY <1>1, <1>3
  <1>5. SameFace(n1, n2)
    BY <1>3 DEF SameFace
  <1>6. Sound(n2)
    <2>1. \A t \in Sessions : IsQueue(n2.outbox[t])
      <3> TAKE t \in Sessions
      <3>1. IsQueue(n1.outbox[t])
        BY <1>1 DEF Sound
      <3>2. CASE t = s
        <4>1. IsQueue(n.outbox[s])
          BY <1>1, <3>1, <3>2
        <4>2. IsQueue(Append(n.outbox[s], frame))
          BY <4>1, AppendFacts
        <4> QED BY <1>4, <3>2, <4>2, Zenon
      <3>3. CASE t # s
        BY <1>4, <3>1, <3>3
      <3> QED BY <3>2, <3>3
    <2> QED BY <1>1, <1>3, <1>4, <1>5, <2>1, StillSound, Zenon
  <1>7. ElseSame(n, n2, s)
    BY <1>1, <1>3, <1>4 DEF ElseSame, SameFace
  <1>8. SameFace(n, n2)
    BY <1>1, <1>5, SameFaceTrans
  <1>9. Sound(n) /\ Informs(n, s, k, k.view[s]) /\ Lively(n, k.lives)
    BY DEF Ok
  <1>10. \A v : Fits(n, s, k, v) => Fits(n2, s, k2, v)
    <2>1. \A v : Fits(n, s, k, v) => Fits(n2, s, k, v)
      BY <1>8, FaceCarries DEF Carries
    <2>2. k2.lives = k.lives /\ k2.client = k.client /\ k2.fields = k.fields
      BY DEF SameKnown
    <2>3. \A v, c : Knows(n2, s, k, c, v) => Knows(n2, s, k2, c, v)
      BY <2>2 DEF Knows, Asked
    <2> QED BY <2>1, <2>3 DEF Fits
  <1>11. LET v == ViewOf(frame.outcome)
         IN  v.at = Sequence(n, s) /\ Fits(n2, s, k2, v) /\ Tracks(n2, s, k2, v)
    <2> DEFINE v == ViewOf(Snapshot(n1, s))
    <2>1. Unsettled(n1) = Unsettled(n)
      BY <1>1 DEF Unsettled, SameFace, Managed, Live, ClientState
    <2>2. Lively(n1, k2.lives)
      BY <1>1, <1>9 DEF Lively, SameFace, Managed, SameKnown
    <2>3. s \in OpenSessions(n1.agents)
      BY <1>1 DEF SameFace
    <2>4. k2.lives \in [Clients -> Nat] /\ k2.client = NoClient
      BY DEF SameKnown
    <2>5. v.at = Sequence(n1, s) /\ Fits(n1, s, k2, v) /\ Tracks(n1, s, k2, v)
      BY <1>1, <2>1, <2>2, <2>3, <2>4, SnapshotTells
    <2> HIDE DEF v
    <2>6. Fits(n2, s, k2, v) /\ Tracks(n2, s, k2, v)
      BY <1>5, <2>3, <2>5, FaceCarries DEF Carries
    <2> QED BY <1>1, <2>5, <2>6 DEF v
  <1>12. /\ Attended(n, s) /\ Sub(n2, s) = Sub(n1, s) /\ Sequence(n2, s) = Sequence(n, s)
    BY <1>1, <1>3 DEF Attended, Held, Sub, Sequence
  <1>13. Informs(n2, s, k2, k2.view[s])
    <2>1. Sub(n2, s).queue = Sub(n, s).queue \/ Sub(n2, s).queue = <<>>
      BY <1>1, <1>12
    <2> QED BY <1>4, <1>9, <1>10, <1>11, <1>12, <2>1, SnapshotSent
  <1>14. Linked(n2, s, k2.view[s])
    BY <1>3, <1>1 DEF Linked, SameFace
  <1>15. Ok(n2, k2)
    BY <1>6, <1>7, <1>13, <1>14, ElseKeeps
  <1>16. SameSights(n, n2)
    BY <1>8 DEF SameSights, SameFace
  <1> QED BY <1>4, <1>15, <1>16 DEF Answered, n2

\* An agent takes a look.
LEMMA LooksStep ==
    ASSUME Inv, NEW s \in Sessions, m.link[s] = "greeted", NEW n1, Resubscribed(m, n1, s),
           Authorize(n1.agents, s, {"observe"}) = Authorize(m.agents, s, {"observe"}),
           Authorize(m.agents, s, {"observe"}) # "ok" => n1 = m,
           Looks(s, Answer(n1, s))
    PROVE  Inv'
  <1> DEFINE why == Authorize(m.agents, s, {"observe"})
             k == Known(lives, doubt, view)
             frame == [frame |-> "response", request |-> "snapshot", outcome |-> Snapshot(n1, s)]
             no == [frame |-> "response", request |-> "refused", outcome |-> why]
             n == Answer(n1, s)
             sent == Len(n.outbox[s]) > Len(m.outbox[s])
             d2 == [doubt EXCEPT ![s].unsettled = Unsettled(m), ![s].concealed = {},
                                 ![s].ever = @ \cup Unsettled(m)]
  <1>1. /\ Inbound /\ m' = n /\ phase = "drain" /\ phase' = "drain" /\ view' = view /\ lives' = lives
        /\ doubt' = IF why = "ok" /\ sent THEN d2 ELSE doubt
    BY DEF Looks, Inbound
  <1>2. /\ Ok(m, k) /\ Sound(m) /\ DoubtShape(doubt) /\ lives \in [Clients -> Nat]
        /\ FocusKnown(m) /\ Gone(m) = {} /\ DOMAIN view = Sessions
    BY <1>1 DEF Inv, InvAt, Ok
  <1>3. n = IF why = "ok" THEN Send(n1, s, frame) ELSE Send(n1, s, no)
    BY DEF Answer, Respond
  <1>4. frame.frame # "event" /\ IsSnapshot(frame) /\ frame.outcome = Snapshot(n1, s)
        /\ no.frame # "event" /\ ~ IsSnapshot(no)
    BY DEF IsSnapshot
  <1> HIDE DEF n, frame, no, k
  <1>5. CASE why # "ok"
    <2>1. Ok(n, k) /\ SameSights(m, n)
      BY <1>2, <1>3, <1>4, <1>5, SendKeeps
    <2> QED BY <1>1, <1>5, <2>1, QuietInbound DEF k
  <1>6. CASE why = "ok" /\ ~ HasRoom(n1, s)
    <2>1. Ok(n, k) /\ SameSights(m, n) /\ n.outbox[s] = m.outbox[s]
      BY <1>2, <1>3, <1>6, LookRefused
    <2>2. Len(m.outbox[s]) \in Nat
      BY <1>2, QueueFacts
    <2>3. doubt' = doubt
      BY <1>1, <2>1, <2>2
    <2> QED BY <1>1, <2>1, <2>3, QuietInbound DEF k
  <1>7. CASE why = "ok" /\ HasRoom(n1, s)
    <2> DEFINE k2 == Known(lives, d2, view)
    <2>1. s \in OpenSessions(m.agents)
      BY <1>7 DEF Authorize
    <2>2. /\ DOMAIN d2 = Sessions
          /\ \A t \in Sessions \ {s} : d2[t] = doubt[t]
          /\ d2[s] \in [unsettled : SUBSET Doubts, concealed : SUBSET Doubts,
                        ever : SUBSET Doubts, revoked : BOOLEAN]
          /\ d2[s].unsettled = Unsettled(m) /\ d2[s].concealed = {}
          /\ d2[s].ever = doubt[s].ever \cup Unsettled(m)
      <3> DEFINE x == doubt[s]
                 y == [x EXCEPT !.unsettled = Unsettled(m), !.concealed = {},
                                !.ever = @ \cup Unsettled(m)]
      <3>1. Unsettled(m) \in SUBSET Doubts
        BY DEF Unsettled, Doubts
      <3>2. x \in [unsettled : SUBSET Doubts, concealed : SUBSET Doubts,
                   ever : SUBSET Doubts, revoked : BOOLEAN] /\ DOMAIN doubt = Sessions
        BY <1>2 DEF DoubtShape
      <3>3. /\ DOMAIN d2 = Sessions /\ \A t \in Sessions \ {s} : d2[t] = doubt[t]
            /\ d2[s] = y
        BY <3>2
      <3> HIDE DEF x, d2
      <3>4. /\ y \in [unsettled : SUBSET Doubts, concealed : SUBSET Doubts,
                      ever : SUBSET Doubts, revoked : BOOLEAN]
            /\ y.unsettled = Unsettled(m) /\ y.concealed = {} /\ y.ever = x.ever \cup Unsettled(m)
        BY <3>1, <3>2, Zenon
      <3> QED BY <3>3, <3>4 DEF x
    <2> HIDE DEF d2
    <2>3. DoubtShape(d2)
      <3> SUFFICES ASSUME NEW t \in Sessions
                   PROVE  /\ d2[t] \in [unsettled : SUBSET Doubts, concealed : SUBSET Doubts,
                                        ever : SUBSET Doubts, revoked : BOOLEAN]
                          /\ d2[t].unsettled \cup d2[t].concealed \subseteq d2[t].ever
        BY <2>2 DEF DoubtShape
      <3>1. CASE t = s
        BY <2>2, <3>1
      <3>2. CASE t # s
        BY <1>2, <2>2, <3>2 DEF DoubtShape
      <3> QED BY <3>1, <3>2
    <2>4. /\ k.lives = lives /\ k.view = view /\ k.client = NoClient /\ k.fields = {}
          /\ k.pending = {}
          /\ \A t \in Sessions : /\ k.doubt[t] = doubt[t].unsettled \cup doubt[t].concealed
                                 /\ k.ever[t] = doubt[t].ever
      BY <1>2, KnownFacts DEF k
    <2>5. /\ k2.lives = lives /\ k2.view = view /\ k2.client = NoClient /\ k2.fields = {}
          /\ k2.pending = {}
          /\ \A t \in Sessions : /\ k2.doubt[t] = d2[t].unsettled \cup d2[t].concealed
                                 /\ k2.ever[t] = d2[t].ever
      BY <2>3, KnownFacts
    <2> HIDE DEF k2
    <2>6. SameKnown(k, k2, s)
      <3> SUFFICES ASSUME NEW t \in Sessions \ {s}
                   PROVE  k2.view[t] = k.view[t] /\ k2.doubt[t] = k.doubt[t] /\ k2.ever[t] = k.ever[t]
        BY <2>4, <2>5 DEF SameKnown
      <3>1. d2[t] = doubt[t]
        BY <2>2
      <3> QED BY <2>4, <2>5, <3>1, Zenon
    <2>7. k2.doubt[s] = Unsettled(m) /\ k2.ever[s] = k.ever[s] \cup Unsettled(m)
      BY <2>2, <2>4, <2>5, Zenon
    <2>8. Ok(n, k2) /\ SameSights(m, n) /\ n.outbox[s] = Append(m.outbox[s], frame)
      <3>1. n = Send(n1, s, frame)
        BY <1>3, <1>7
      <3>2. k.lives \in [Clients -> Nat] /\ k.client = NoClient /\ k2.view = k.view
        BY <1>2, <2>4, <2>5
      <3>3. Answered(m, k, Send(n1, s, frame), k2, s, frame)
        BY <1>2, <1>4, <1>7, <2>1, <2>6, <2>7, <3>2, LookAnswered
      <3> QED BY <3>1, <3>3 DEF Answered
    <2>9. doubt' = d2
      <3>1. IsQueue(m.outbox[s])
        BY <1>2 DEF Sound
      <3>2. Len(n.outbox[s]) = Len(m.outbox[s]) + 1 /\ Len(m.outbox[s]) \in Nat
        BY <2>8, <3>1, AppendFacts
      <3> QED BY <1>1, <1>7, <3>2
    <2>10. FocusKnown(n) /\ Gone(n) = {}
      BY <1>2, <2>8, SightsSettle
    <2>11. InvAt(n, "drain", view, d2, lives)
      BY <1>2, <2>3, <2>8, <2>10 DEF InvAt, k2
    <2> QED BY <1>1, <2>9, <2>11 DEF Inv
  <1> QED BY <1>5, <1>6, <1>7

\* A session looks at the desktop, or subscribes to it.
LEMMA AskStep ==
    ASSUME Inv, NEW s \in Sessions, AskSnapshot(s) \/ AskSubscribe(s)
    PROVE  Inv'
  <1>1. Sound(m)
    BY DEF Inv, InvAt, Ok
  <1>2. CASE AskSnapshot(s)
    <2>1. m.link[s] = "greeted" /\ Looks(s, Answer(m, s))
      BY <1>2 DEF AskSnapshot
    <2>2. Resubscribed(m, m, s)
      BY <1>1, ResubscribedRefl
    <2> QED BY <2>1, <2>2, LooksStep
  <1>3. CASE AskSubscribe(s)
    <2> DEFINE n1 == [m EXCEPT !.agents = Subscribe(@, s, {})]
    <2>1. m.link[s] = "greeted"
      BY <1>3 DEF AskSubscribe
    <2>2. CASE Authorize(m.agents, s, {"observe"}) = "ok"
      <3>1. Looks(s, Answer(n1, s))
        BY <1>3, <2>2 DEF AskSubscribe
      <3>2. s \in OpenSessions(m.agents)
        BY <2>2 DEF Authorize
      <3>3. Resubscribed(m, n1, s)
        BY <1>1, <3>2, SubscribeFacts
      <3> HIDE DEF n1
      <3>4. Authorize(n1.agents, s, {"observe"}) = Authorize(m.agents, s, {"observe"})
        BY <3>2, <3>3 DEF Resubscribed, SameFace, Authorize
      <3> QED BY <2>1, <2>2, <3>1, <3>3, <3>4, LooksStep
    <2>3. CASE Authorize(m.agents, s, {"observe"}) # "ok"
      <3>1. Looks(s, Answer(m, s))
        BY <1>3, <2>3 DEF AskSubscribe
      <3>2. Resubscribed(m, m, s)
        BY <1>1, ResubscribedRefl
      <3> QED BY <2>1, <3>1, <3>2, LooksStep
    <2> QED BY <2>2, <2>3
  <1> QED BY <1>2, <1>3

(* ---- Reading ---- *)
\* What may be known does not depend on what each companion has read.
LEMMA ViewForgotten ==
    ASSUME NEW n, Sound(n), NEW s \in Sessions, NEW k, NEW k2, NEW v0, Informs(n, s, k, v0),
           k2.lives = k.lives, k2.doubt = k.doubt, k2.ever = k.ever, k2.client = k.client,
           k2.fields = k.fields, k2.pending = k.pending
    PROVE  Informs(n, s, k2, v0)
  <1>1. Carries(n, k, n, k2, s)
    BY DEF Carries, Fits, Knows, Tracks, Follows, FollowsFocus, FollowsWorkspace, Asked
  <1> QED BY <1>1, SameChannel

\* A session has read its oldest frame.
HasRead(n, k, n2, k2, s) == Ok(n2, k2) /\ SameFace(n, n2) /\ k2.lives = k.lives

\* The companion of a session reads the oldest frame.
LEMMA FrameReadKeeps ==
    ASSUME NEW n, NEW k, Ok(n, k), NEW s \in Sessions, n.outbox[s] # <<>>,
           NEW n2, n2 = [n EXCEPT !.outbox[s] = Tail(@)],
           NEW k2, k2.lives = k.lives, k2.doubt = k.doubt, k2.ever = k.ever, k2.client = k.client,
           k2.fields = k.fields, k2.pending = k.pending,
           k2.view[s] = ReadFrame(k.view[s], Head(n.outbox[s])),
           \A t \in Sessions \ {s} : k2.view[t] = k.view[t]
    PROVE  HasRead(n, k, n2, k2, s)
  <1>1. /\ Sound(n) /\ DOMAIN n = ManagerFields /\ DOMAIN n.outbox = Sessions
        /\ Lively(n, k.lives) /\ AgentsOK(n.agents) /\ IsQueue(n.outbox[s])
    BY DEF Ok, Sound
  <1>2. /\ DOMAIN n2 = DOMAIN n /\ n2.agents = n.agents
        /\ n2.desk = n.desk /\ n2.focus = n.focus /\ n2.current = n.current /\ n2.drag = n.drag
        /\ n2.shadow = n.shadow /\ n2.shownFocus = n.shownFocus
        /\ n2.shownWorkspace = n.shownWorkspace
        /\ n2.matchers = n.matchers /\ n2.link = n.link
        /\ n2.text = n.text /\ n2.observations = n.observations /\ n2.semantics = n.semantics
        /\ n2.outbox = [n.outbox EXCEPT ![s] = Tail(n.outbox[s])]
    BY <1>1 DEF ManagerFields
  <1>3. /\ DOMAIN n2.outbox = Sessions /\ n2.outbox[s] = Tail(n.outbox[s])
        /\ \A t \in Sessions \ {s} : n2.outbox[t] = n.outbox[t]
    BY <1>1, <1>2
  <1>4. SameFace(n, n2)
    BY <1>2 DEF SameFace
  <1>5. Sound(n2)
    <2>1. \A t \in Sessions : IsQueue(n2.outbox[t])
      <3> TAKE t \in Sessions
      <3>1. CASE t = s
        <4>1. IsQueue(Tail(n.outbox[s]))
          BY <1>1, TailFacts, Zenon
        <4> QED BY <1>3, <3>1, <4>1
      <3>2. CASE t # s
        BY <1>1, <1>3, <3>2 DEF Sound
      <3> QED BY <3>1, <3>2
    <2> QED BY <1>1, <1>2, <1>3, <1>4, <2>1, StillSound, Zenon
  <1>6. ElseSame(n, n2, s)
    BY <1>2, <1>3 DEF ElseSame
  <1>7. SameKnown(k, k2, s)
    BY DEF SameKnown
  <1>8. Linked(n2, s, k2.view[s])
    <2>1. Linked(n, s, k.view[s])
      BY DEF Ok
    <2> QED BY <1>2, <2>1 DEF Linked
  <1>9. Informs(n2, s, k, k2.view[s])
    <2>1. CASE ~ Attended(n2, s)
      BY <2>1 DEF Informs
    <2>2. CASE Attended(n2, s)
      <3>1. /\ Attended(n, s) /\ Sub(n2, s) = Sub(n, s) /\ Sequence(n2, s) = Sequence(n, s)
        BY <1>2, <2>2 DEF Attended, Held, Sub, Sequence
      <3>2. Carries(n, k, n2, k, s)
        BY <1>4, <3>1, FaceCarries DEF Attended
      <3>3. Informs(n, s, k, k.view[s])
        BY DEF Ok
      <3>4. Informs(n2, s, k, ReadFrame(k.view[s], Head(n.outbox[s])))
        BY <1>1, <1>3, <3>1, <3>2, <3>3, FrameRead, Zenon
      <3> QED BY <3>4
    <2> QED BY <2>1, <2>2
  <1>10. Informs(n2, s, k2, k2.view[s])
    BY <1>5, <1>9, ViewForgotten
  <1>11. Ok(n2, k2)
    BY <1>4, <1>5, <1>6, <1>7, <1>8, <1>10, ElseKeeps
  <1> QED BY <1>4, <1>11 DEF HasRead

\* A companion reads a frame.
LEMMA ReadStep ==
    ASSUME Inv, NEW s \in Sessions, Read(s)
    PROVE  Inv'
  <1> DEFINE n == [m EXCEPT !.outbox[s] = Tail(@)]
             v2 == [view EXCEPT ![s] = ReadFrame(@, Head(m.outbox[s]))]
             k == Known(lives, doubt, view)
             k2 == Known(lives, doubt, v2)
  <1>1. /\ phase # "burst" /\ m.outbox[s] # <<>> /\ view' = v2 /\ m' = n
        /\ phase' = phase /\ doubt' = doubt /\ lives' = lives
    BY DEF Read
  <1>2. /\ Ok(m, k) /\ Sound(m) /\ DoubtShape(doubt) /\ lives \in [Clients -> Nat]
        /\ FocusKnown(m) /\ DOMAIN view = Sessions
    BY DEF Inv, InvAt, Ok
  <1>3. /\ DOMAIN v2 = Sessions /\ v2[s] = ReadFrame(view[s], Head(m.outbox[s]))
        /\ \A t \in Sessions \ {s} : v2[t] = view[t]
    BY <1>2
  <1>4. /\ k2.lives = k.lives /\ k2.doubt = k.doubt /\ k2.ever = k.ever /\ k2.client = k.client
        /\ k2.fields = k.fields /\ k2.pending = k.pending /\ k.view = view /\ k2.view = v2
    BY DEF Known
  <1> HIDE DEF n, v2, k, k2
  <1>5. Ok(n, k2) /\ SameFace(m, n)
    <2>1. n = [m EXCEPT !.outbox[s] = Tail(@)]
      BY DEF n
    <2>2. HasRead(m, k, n, k2, s)
      BY <1>1, <1>2, <1>3, <1>4, <2>1, FrameReadKeeps, Zenon
    <2> QED BY <2>2 DEF HasRead
  <1>6. AgentsOK(m.agents) /\ AgentsOK(n.agents)
    BY <1>2, <1>5 DEF Ok, Sound
  <1>7. FocusKnown(n) /\ Gone(n) = Gone(m)
    BY <1>2, <1>5 DEF FocusKnown, SameFace, Gone, Managed
  <1>8. \A t \in Sessions : Concealed(n, t) = Concealed(m, t)
    <2> TAKE t \in Sessions
    <2>1. \A c \in Clients : t \in OpenSessions(m.agents) =>
             (Perceives(n.agents, t, c) <=> Perceives(m.agents, t, c))
      BY <1>5 DEF SameFace, Perceives
    <2> QED BY <1>5, <2>1 DEF SameFace, Concealed
  <1>9. phase = "idle" => Settled(n)
    BY <1>5, SettledStays DEF Inv, InvAt
  <1>10. InvAt(n, phase, v2, doubt, lives)
    BY <1>2, <1>3, <1>5, <1>7, <1>8, <1>9 DEF Inv, InvAt, k2
  <1> QED BY <1>1, <1>10 DEF Inv

\* Every step keeps the invariant.
LEMMA NextKeeps ==
    ASSUME Inv, [Next]_vars
    PROVE  Inv'
  <1>1. CASE UNCHANGED vars
    BY <1>1 DEF vars, Inv
  <1>2. ASSUME NEW c \in Clients, NEW t \in Titles, Manage(c, t, CHOOSE p \in Places : TRUE)
        PROVE  Inv'
    BY <1>2, ManageStep
  <1>3. ASSUME NEW c \in Clients, NEW f \in Clients \cup {NoClient}, Unmanage(c, f)
        PROVE  Inv'
    BY <1>3, UnmanageStep
  <1>4. ASSUME NEW deals \in [Sessions -> Deals],
               Reload([s \in Sessions |-> deals[s].grant], [s \in Sessions |-> deals[s].matcher])
        PROVE  Inv'
    <2>1. /\ [s \in Sessions |-> deals[s].grant] \in [Sessions -> Grants]
          /\ [s \in Sessions |-> deals[s].matcher] \in [Sessions -> SUBSET Clients]
      BY DealsAssumption
    <2> QED BY <1>4, <2>1, ReloadStep
  <1>5. CASE DesktopStep
    BY <1>2, <1>3, <1>4, <1>5, DeskStep, HumanStep, KillChordStep, Zenon DEF DesktopStep
  <1>6. CASE Boundary \/ EndDrain
    BY <1>6, BoundaryStep
  <1>7. CASE Drain
    BY <1>7, DrainStep
  <1>8. ASSUME NEW s \in Sessions, NEW deal \in Deals, Greet(s, deal.grant, deal.matcher)
        PROVE  Inv'
    <2>1. deal.grant \in Grants /\ deal.matcher \in SUBSET Clients
      BY DealsAssumption
    <2> QED BY <1>8, <2>1, GreetStep
  <1>9. CASE AgentStep
    BY <1>8, <1>9, LinkStep, AskStep, AgentActStep, ReadStep DEF AgentStep
  <1> QED BY <1>1, <1>5, <1>6, <1>7, <1>9 DEF Next

(* ---- All that is on its way ---- *)
\* The views after the first elements of a queue.
UpTo(env, T, v) == \A i \in 0..Len(env.queue) : T = 1..i => v = env.views[i]

\* Reading all the events, and all the frames, of a queue.
Hearing ==
    INSTANCE FoldFacts WITH
        Op <- LAMBDA env, i, v : ReadEvent(v, env.queue[i]),
        Pick <- LAMBDA T : S!Max(T),
        Holds <- LAMBDA env, T, v : UpTo(env, T, v)

Reading ==
    INSTANCE FoldFacts WITH
        Op <- LAMBDA env, i, v : ReadFrame(v, env.queue[i]),
        Pick <- LAMBDA T : S!Max(T),
        Holds <- LAMBDA env, T, v : UpTo(env, T, v)

\* The largest of the first numbers is the last.
LEMMA LastOf ==
    ASSUME NEW n \in Nat
    PROVE  /\ \A T \in SUBSET (1..n) : T # {} => S!Max(T) \in T
           /\ \A i \in 0..n : 1..i # {} => S!Max(1..i) = i /\ (1..i) \ {i} = 1..(i - 1) /\ i >= 1
  <1>1. ASSUME NEW T \in SUBSET (1..n), T # {}
        PROVE  \E x \in T : \A y \in T : x >= y
    <2>1. IsFiniteSet(T)
      <3>1. IsFiniteSet(1..n)
        BY FS_Interval
      <3> QED BY <3>1, FS_Subset, Zenon
    <2> DEFINE bounds == {j \in Nat : \A y \in T : y <= j}
    <2>2. n \in bounds
      OBVIOUS
    <2>3. PICK j \in bounds : \A i \in bounds : <<i, j>> \notin OpToRel(<, Nat)
      <3>1. bounds \subseteq Nat /\ bounds # {}
        BY <2>2
      <3> HIDE DEF bounds
      <3> QED BY <3>1, NatLessThanWellFounded, WFMin, Zenon
    <2>4. \A i \in bounds : ~ (i < j)
      <3> TAKE i \in bounds
      <3>1. i \in Nat /\ j \in Nat
        OBVIOUS
      <3> HIDE DEF bounds
      <3> QED BY <2>3, <3>1, Zenon DEF OpToRel
    <2>5. j \in T
      <3> SUFFICES ASSUME j \notin T PROVE FALSE
        OBVIOUS
      <3>1. \A y \in T : y <= j - 1
        OBVIOUS
      <3>2. PICK y \in T : TRUE
        BY <1>1, Zenon
      <3>3. y \in 1..n /\ y <= j /\ j \in Nat
        BY <1>1, <3>2
      <3>4. j - 1 \in bounds /\ j - 1 < j
        BY <3>1, <3>3
      <3> QED BY <2>4, <3>4
    <2> QED BY <2>5
  <1>2. \A T \in SUBSET (1..n) : T # {} => S!Max(T) \in T
    BY <1>1, Zenon DEF S!Max
  <1>3. \A i \in 0..n : 1..i # {} => S!Max(1..i) = i /\ (1..i) \ {i} = 1..(i - 1) /\ i >= 1
    <2> TAKE i \in 0..n
    <2> HAVE 1..i # {}
    <2>1. i >= 1 /\ i \in 1..i /\ \A y \in 1..i : i >= y
      OBVIOUS
    <2>2. S!Max(1..i) \in 1..i /\ \A y \in 1..i : S!Max(1..i) >= y
      BY <2>1 DEF S!Max
    <2> QED BY <2>1, <2>2
  <1> QED BY <1>2, <1>3

\* Reading a queue of events, one after the other.
LEMMA HearingAll ==
    ASSUME NEW q, IsQueue(q), NEW us, \A i \in DOMAIN q : us[i] = ReadEvent(us[i - 1], q[i])
    PROVE  S!FoldLeft(ReadEvent, us[0], q) = us[Len(q)]
  <1> DEFINE env == [queue |-> q, views |-> us]
             n == Len(q)
  <1>1. n \in Nat /\ DOMAIN q = 1..n
    BY AppendFacts
  <1>2. env.queue = q /\ env.views = us
    OBVIOUS
  <1> HIDE DEF env, n
  <1>3. IsFiniteSet(1..n) /\ Hearing!IsFiniteSet(1..n)
    <2>1. IsFiniteSet(1..n)
      BY <1>1, FS_Interval
    <2> QED BY <2>1 DEF IsFiniteSet, Hearing!IsFiniteSet
  <1>4. Hearing!Picks(1..n)
    BY <1>1, LastOf, Zenon DEF Hearing!Picks
  <1>5. UpTo(env, {}, us[0])
    <2> SUFFICES ASSUME NEW i \in 0..Len(env.queue), {} = 1..i PROVE us[0] = env.views[i]
      BY DEF UpTo
    <2>1. i = 0
      BY <1>1, <1>2 DEF n
    <2> QED BY <1>2, <2>1
  <1>6. \A T \in SUBSET (1..n) : \A v :
           T # {} /\ UpTo(env, T \ {S!Max(T)}, v) => UpTo(env, T, ReadEvent(v, env.queue[S!Max(T)]))
    <2> TAKE T \in SUBSET (1..n)
    <2> TAKE v
    <2> HAVE T # {} /\ UpTo(env, T \ {S!Max(T)}, v)
    <2> SUFFICES ASSUME NEW i \in 0..Len(env.queue), T = 1..i
                 PROVE  ReadEvent(v, env.queue[S!Max(T)]) = env.views[i]
      BY DEF UpTo
    <2>1. i \in 0..n
      BY <1>2 DEF n
    <2>2. S!Max(1..i) = i /\ (1..i) \ {i} = 1..(i - 1) /\ i >= 1
      BY <1>1, <2>1, LastOf
    <2>3. i - 1 \in 0..n /\ i \in 1..n
      BY <1>1, <2>1, <2>2
    <2>4. v = us[i - 1]
      BY <1>2, <2>2, <2>3 DEF n, UpTo
    <2> QED BY <1>1, <1>2, <2>2, <2>3, <2>4
  <1>7. UpTo(env, 1..n, Hearing!Fold(env, us[0], 1..n))
    BY <1>3, <1>4, <1>5, <1>6, Hearing!FoldKeeps, Zenon
  <1>8. Hearing!Fold(env, us[0], 1..n) = us[n]
    <2>1. n \in 0..Len(env.queue)
      BY <1>1, <1>2 DEF n
    <2> QED BY <1>2, <1>7, <2>1 DEF UpTo
  <1>9. S!FoldLeft(ReadEvent, us[0], q) = Hearing!Fold(env, us[0], 1..n)
    BY <1>1, <1>2 DEF S!FoldLeft, S!MapThenFoldSet, Hearing!Fold
  <1> QED BY <1>8, <1>9 DEF n
\* Reading a queue of frames, one after the other.
LEMMA ReadingAll ==
    ASSUME NEW q, IsQueue(q), NEW ws, \A i \in DOMAIN q : ws[i] = ReadFrame(ws[i - 1], q[i])
    PROVE  S!FoldLeft(ReadFrame, ws[0], q) = ws[Len(q)]
  <1> DEFINE env == [queue |-> q, views |-> ws]
             n == Len(q)
  <1>1. n \in Nat /\ DOMAIN q = 1..n
    BY AppendFacts
  <1>2. env.queue = q /\ env.views = ws
    OBVIOUS
  <1> HIDE DEF env, n
  <1>3. IsFiniteSet(1..n) /\ Reading!IsFiniteSet(1..n)
    <2>1. IsFiniteSet(1..n)
      BY <1>1, FS_Interval
    <2> QED BY <2>1 DEF IsFiniteSet, Reading!IsFiniteSet
  <1>4. Reading!Picks(1..n)
    BY <1>1, LastOf, Zenon DEF Reading!Picks
  <1>5. UpTo(env, {}, ws[0])
    <2> SUFFICES ASSUME NEW i \in 0..Len(env.queue), {} = 1..i PROVE ws[0] = env.views[i]
      BY DEF UpTo
    <2>1. i = 0
      BY <1>1, <1>2 DEF n
    <2> QED BY <1>2, <2>1
  <1>6. \A T \in SUBSET (1..n) : \A v :
           T # {} /\ UpTo(env, T \ {S!Max(T)}, v) => UpTo(env, T, ReadFrame(v, env.queue[S!Max(T)]))
    <2> TAKE T \in SUBSET (1..n)
    <2> TAKE v
    <2> HAVE T # {} /\ UpTo(env, T \ {S!Max(T)}, v)
    <2> SUFFICES ASSUME NEW i \in 0..Len(env.queue), T = 1..i
                 PROVE  ReadFrame(v, env.queue[S!Max(T)]) = env.views[i]
      BY DEF UpTo
    <2>1. i \in 0..n
      BY <1>2 DEF n
    <2>2. S!Max(1..i) = i /\ (1..i) \ {i} = 1..(i - 1) /\ i >= 1
      BY <1>1, <2>1, LastOf
    <2>3. i - 1 \in 0..n /\ i \in 1..n
      BY <1>1, <2>1, <2>2
    <2>4. v = ws[i - 1]
      BY <1>2, <2>2, <2>3 DEF n, UpTo
    <2> QED BY <1>1, <1>2, <2>2, <2>3, <2>4
  <1>7. UpTo(env, 1..n, Reading!Fold(env, ws[0], 1..n))
    BY <1>3, <1>4, <1>5, <1>6, Reading!FoldKeeps, Zenon
  <1>8. Reading!Fold(env, ws[0], 1..n) = ws[n]
    <2>1. n \in 0..Len(env.queue)
      BY <1>1, <1>2 DEF n
    <2> QED BY <1>2, <1>7, <2>1 DEF UpTo
  <1>9. S!FoldLeft(ReadFrame, ws[0], q) = Reading!Fold(env, ws[0], 1..n)
    BY <1>1, <1>2 DEF S!FoldLeft, S!MapThenFoldSet, Reading!Fold
  <1> QED BY <1>8, <1>9 DEF n

\* The view of a session that reads all that is on its way to it.
LEMMA FinalFacts ==
    ASSUME Sound(m), NEW s \in Sessions, Attended(m, s), NEW k, NEW ws, NEW us,
           Told(m, s, k, view[s], ws, us)
    PROVE  IF Sub(m, s).resync THEN FinalView(s).lost
           ELSE FinalView(s) = us[Len(Sub(m, s).queue)]
  <1> DEFINE q == Sub(m, s).queue
             v == us[Len(q)]
             read == S!FoldLeft(ReadFrame, view[s], m.outbox[s])
  <1>1. /\ IsQueue(m.outbox[s]) /\ IsQueue(q) /\ Len(q) \in Nat
        /\ Sub(m, s).resync => q = <<>>
    <2>1. SubscriptionOK(Sub(m, s))
      BY DEF Sound, AgentsOK, SessionOK, Attended, Sub
    <2> QED BY <2>1, AppendFacts DEF Sound, SubscriptionOK
  <1>2. read = us[0]
    <2>1. /\ ws[0] = view[s] /\ us[0] = ws[Len(m.outbox[s])]
          /\ \A i \in DOMAIN m.outbox[s] : ws[i] = ReadFrame(ws[i - 1], m.outbox[s][i])
      BY DEF Told
    <2>2. S!FoldLeft(ReadFrame, ws[0], m.outbox[s]) = ws[Len(m.outbox[s])]
      BY <1>1, <2>1, ReadingAll, Zenon
    <2> QED BY <2>1, <2>2
  <1>3. FinalView(s) = S!FoldLeft(ReadEvent, us[0], Backlog(s))
    BY <1>2 DEF FinalView
  <1> HIDE DEF read
  <1>4. CASE ~ Sub(m, s).resync
    <2>1. Backlog(s) = q
      BY <1>4 DEF Backlog, Sub
    <2>2. \A i \in DOMAIN q : us[i] = ReadEvent(us[i - 1], q[i])
      BY DEF Told
    <2> HIDE DEF q
    <2>3. S!FoldLeft(ReadEvent, us[0], q) = us[Len(q)]
      BY <1>1, <2>2, HearingAll, Zenon
    <2> QED BY <1>3, <1>4, <2>1, <2>3 DEF q
  <1>5. CASE Sub(m, s).resync
    <2> DEFINE event == NextEvent(m.agents, s)
               told == [i \in Nat |-> IF i = 0 THEN us[0] ELSE ReadEvent(us[0], event)]
    <2>1. Backlog(s) = <<event>> /\ event.event.kind = "resync_required"
      BY <1>5 DEF Backlog, Sub, NextEvent, Stamped, ResyncRequired
    <2> HIDE DEF event
    <2>2. IsQueue(<<event>>) /\ Len(<<event>>) = 1 /\ DOMAIN <<event>> = {1} /\ <<event>>[1] = event
      <3>1. <<event>> \in Seq({event})
        OBVIOUS
      <3>2. IsQueue(<<event>>)
        BY <3>1, Zenon DEF IsQueue
      <3> QED BY <3>2
    <2>3. told[0] = us[0] /\ told[1] = ReadEvent(us[0], event)
      OBVIOUS
    <2> HIDE DEF told
    <2>4. \A i \in DOMAIN <<event>> : told[i] = ReadEvent(told[i - 1], <<event>>[i])
      BY <2>2, <2>3
    <2>5. S!FoldLeft(ReadEvent, told[0], <<event>>) = told[Len(<<event>>)]
      BY <2>2, <2>4, HearingAll, Zenon
    <2>6. FinalView(s) = ReadEvent(us[0], event)
      BY <1>3, <2>1, <2>2, <2>3, <2>5, Zenon
    <2>7. "lost" \in DOMAIN us[0]
      <3>1. ViewOK(us[0])
        BY <1>1 DEF Told, Fits
      <3> QED BY <3>1 DEF ViewOK, ViewFields
    <2>8. FinalView(s).lost = TRUE
      BY <2>1, <2>6, <2>7 DEF ReadEvent
    <2> QED BY <1>5, <2>8
  <1> QED BY <1>4, <1>5 DEF q

\* What the shadow says is true of the desktop when nothing is left to be announced.
LEMMA FollowsIsTrue ==
    ASSUME Sound(m), Settled(m), NEW s \in OpenSessions(m.agents), NEW k, k.client = NoClient,
           NEW v, NEW c \in Clients, Follows(m, s, k, c, v), c \notin k.doubt[s],
           Concealed(m, s) \subseteq k.doubt[s]
    PROVE  TrueOf(s, v, c)
  <1>1. AllFields = {"title", "state", "place"} /\ Asked(k, c) = AllFields
    BY NoClientAssumption DEF AllFields, Asked
  <1>2. CASE ~ Managed(m, c)
    BY <1>2 DEF Settled, Follows, TrueOf, Seen
  <1>3. CASE Managed(m, c) /\ ~ Perceives(m.agents, s, c)
    BY <1>3 DEF Settled, Met, Concealed
  <1>4. CASE Managed(m, c) /\ Perceives(m.agents, s, c)
    <2>1. Met(m, c)
      BY <1>4 DEF Settled
    <2>2. v.clients[c].known /\ Agrees(m, s, c, v, AllFields)
      BY <1>1, <1>4, <2>1 DEF Follows, Met
    <2> QED BY <1>1, <1>4, <2>1, <2>2 DEF Agrees, Readable, ReadableTitle, Met, TrueOf, Seen
  <1> QED BY <1>2, <1>3, <1>4

\* What the invariant says of what will have been read when nothing is going on.
LEMMA InvTracks ==
    ASSUME Inv PROVE ViewTracksDesktop
  <1> SUFFICES ASSUME phase = "idle", NEW s \in Sessions, Informed(s)
               PROVE  TrueView(s, FinalView(s), doubt[s].unsettled \cup doubt[s].concealed)
    BY DEF ViewTracksDesktop
  <1> DEFINE k == Known(lives, doubt, view)
             excepted == doubt[s].unsettled \cup doubt[s].concealed
             v == FinalView(s)
  <1>1. /\ Ok(m, k) /\ Sound(m) /\ DoubtShape(doubt) /\ Settled(m)
        /\ Concealed(m, s) \subseteq excepted
    BY DEF Inv, InvAt, Ok
  <1>2. /\ k.view = view /\ k.client = NoClient /\ k.pending = {} /\ k.doubt[s] = excepted
    BY <1>1, KnownFacts
  <1>3. Attended(m, s) /\ Sub(m, s).on /\ ~ v.lost /\ s \in OpenSessions(m.agents)
    BY DEF Informed, Subscribed, Served, Attended, Sub
  <1>4. PICK ws, us : Told(m, s, k, view[s], ws, us)
    BY <1>1, <1>2, <1>3 DEF Ok, Informs
  <1> HIDE DEF k, excepted, v
  <1>5. ~ Sub(m, s).resync /\ v = us[Len(Sub(m, s).queue)]
    BY <1>1, <1>3, <1>4, FinalFacts, Zenon DEF v
  <1>6. Tracks(m, s, k, v)
    BY <1>3, <1>4, <1>5 DEF Told
  <1>7. \A c \in Clients \ excepted : TrueOf(s, v, c)
    BY <1>1, <1>2, <1>3, <1>6, FollowsIsTrue DEF Tracks
  <1>8. \/ "focus" \in excepted \/ m.focus \in excepted \/ v.focus \in excepted
        \/ v.focus = SeenFocus(m, s)
    <2>1. m.shownFocus = m.focus
      BY <1>1 DEF Settled
    <2>2. CASE m.focus # NoClient /\ ~ Perceives(m.agents, s, m.focus)
      <3>1. m.focus \in Clients /\ Managed(m, m.focus)
        BY <1>1, <2>2 DEF Sound, DeskOK
      <3>2. m.focus \in Concealed(m, s)
        BY <1>1, <1>3, <2>2, <3>1 DEF Concealed, Settled, Met
      <3> QED BY <1>1, <3>2
    <2>3. CASE m.focus = NoClient \/ Perceives(m.agents, s, m.focus)
      <3>1. SeenFocus(m, s) = m.focus
        BY <2>3 DEF SeenFocus
      <3> QED BY <1>2, <1>6, <2>1, <2>3, <3>1 DEF Tracks, FollowsFocus
    <2> QED BY <2>2, <2>3
  <1>9. "workspace" \in excepted \/ v.current = m.current
    BY <1>1, <1>2, <1>6 DEF Tracks, FollowsWorkspace, Settled
  <1> QED BY <1>7, <1>8, <1>9 DEF TrueView, excepted, v

\* What the invariant says of what has been read, however long ago.
LEMMA InvTells ==
    ASSUME Inv PROVE GenerationTells
  <1> SUFFICES ASSUME phase = "idle", NEW s \in Sessions, NEW c \in Clients,
                      Served(s), Seen(m, s, c), c \notin doubt[s].ever,
                      view[s].clients[c].known, view[s].clients[c].life = m.desk[c].life,
                      CheckExpects(m.agents, c, view[s].clients[c].generation)
               PROVE  TrueOf(s, view[s], c)
    BY DEF GenerationTells
  <1> DEFINE k == Known(lives, doubt, view)
             v == view[s]
  <1>1. Ok(m, k) /\ Sound(m) /\ DoubtShape(doubt) /\ Settled(m) /\ lives \in [Clients -> Nat]
    BY DEF Inv, InvAt, Ok
  <1>2. /\ k.view = view /\ k.client = NoClient /\ k.lives = lives /\ k.ever[s] = doubt[s].ever
    BY <1>1, KnownFacts
  <1>3. Attended(m, s) /\ Managed(m, c) /\ Perceives(m.agents, s, c)
    BY DEF Served, Attended, Seen
  <1>4. PICK ws, us : Told(m, s, k, v, ws, us)
    BY <1>1, <1>2, <1>3 DEF Ok, Informs
  <1> HIDE DEF k
  <1>5. Fits(m, s, k, v)
    <2>1. 0 \in 0..Len(m.outbox[s])
      BY <1>1, AppendFacts DEF Sound
    <2> QED BY <1>4, <2>1 DEF Told
  <1>6. v.clients[c].generation \in Nat \ {0} /\ v.clients[c].life = lives[c]
    <2>1. Lively(m, lives)
      BY <1>1, <1>2 DEF Ok
    <2> QED BY <1>3, <1>5, <2>1 DEF Fits, ViewOK, Lively
  <1>7. v.clients[c].generation = m.agents.generation[c]
    <2>1. m.agents.generation[c] > 0 /\ m.agents.generation[c] \in Nat
      BY <1>1, <1>2, <1>3 DEF Ok, Lively, Sound, AgentsOK
    <2> QED BY <1>6, <2>1 DEF CheckExpects, Generation
  <1>8. Agrees(m, s, c, v, AllFields)
    <2>1. Knows(m, s, k, c, v) /\ Asked(k, c) = AllFields
      BY <1>2, <1>5, NoClientAssumption DEF Fits, Asked
    <2>2. ~ (v.clients[c].life < lives[c])
      BY <1>1, <1>6
    <2> QED BY <1>2, <1>3, <1>7, <2>1, <2>2 DEF Knows
  <1>9. Met(m, c)
    BY <1>1, <1>3 DEF Settled
  <1> QED BY <1>3, <1>8, <1>9 DEF Agrees, AllFields, Readable, ReadableTitle, Met, TrueOf, Seen

(* ---- The start ---- *)
\* Nothing is private, and nothing that is managed is to be.
Mild(n) ==
    /\ Sane(n)
    /\ \A c \in Clients : /\ n.agents.visibility[c] = "visible"
                          /\ Managed(n, c) => Rule[n.desk[c].title] = "visible"

\* The desktop stays, and nothing becomes private.
StaysMild(n0, n) == Mild(n) /\ n.desk = n0.desk

\* Only some clients have been compared with a shadow that was empty.
StaysClear(n0, T, n) ==
    /\ StaysMild(n0, n) /\ Sound(n)
    /\ n.focus = n0.focus /\ n.shownFocus = n0.shownFocus
    /\ n.current = n0.current /\ n.shownWorkspace = n0.shownWorkspace
    /\ \A c \in Clients \ T : ~ n.shadow[c].known

\* Registering, comparing and closing at the start.
Opening ==
    INSTANCE FoldFacts WITH
        Op <- LAMBDA env, c, n : Register(n, c),
        Pick <- LAMBDA T : CHOOSE c \in T : TRUE,
        Holds <- LAMBDA n0, T, n : StaysMild(n0, n)

Starting ==
    INSTANCE FoldFacts WITH
        Op <- LAMBDA env, c, n : SyncClient(n, c),
        Pick <- LAMBDA T : CHOOSE c \in T : TRUE,
        Holds <- LAMBDA n0, T, n : StaysClear(n0, T, n)

Vacancy ==
    INSTANCE FoldFacts WITH
        Op <- LAMBDA env, c, n : SyncClosed(n, c),
        Pick <- LAMBDA T : CHOOSE c \in T : TRUE,
        Holds <- LAMBDA env, T, n : n = env

\* Registering a client that is not private.
LEMMA MildRegister ==
    ASSUME NEW n, Mild(n), NEW c \in Clients, Managed(n, c)
    PROVE  Mild(Register(n, c)) /\ Register(n, c).desk = n.desk
  <1> DEFINE n2 == Register(n, c)
  <1>1. Registered(n, n2, {c}) /\ Sane(n)
    BY RegisterFacts DEF Mild
  <1>2. n2.agents = ObserveClient(n.agents, c, Rule[n.desk[c].title], {s \in Sessions : c \in n.matchers[s]})
    BY <1>1 DEF Sane, ManagerFields, Register
  <1> HIDE DEF n2
  <1>3. n2.agents.visibility[c] = MorePrivate(n.agents.visibility[c], Rule[n.desk[c].title])
    BY <1>1, <1>2 DEF Sane, AgentsOK, ObserveClient
  <1>4. n2.agents.visibility[c] = "visible"
    BY <1>3 DEF Mild, MorePrivate
  <1>5. \A d \in Clients : n2.agents.visibility[d] = "visible"
    BY <1>1, <1>4 DEF Registered, Mild
  <1>6. Sane(n2) /\ n2.desk = n.desk
    BY <1>1 DEF Registered, Sane
  <1>7. Mild(n2)
    BY <1>5, <1>6 DEF Mild, Managed
  <1> QED BY <1>6, <1>7 DEF n2

\* Registering clients that are not private.
LEMMA MildRegisterAll ==
    ASSUME NEW n, Mild(n)
    PROVE  Mild(RegisterAll(n))
  <1> DEFINE all == {c \in Clients : Managed(n, c)}
  <1>1. Opening!IsFiniteSet(all)
    <2>1. IsFiniteSet(all)
      BY FiniteAssumption, FS_Subset
    <2> QED BY <2>1 DEF IsFiniteSet, Opening!IsFiniteSet
  <1>2. Opening!Picks(all)
    BY DEF Opening!Picks
  <1>3. StaysMild(n, n)
    BY DEF StaysMild
  <1>4. ASSUME NEW T \in SUBSET all, NEW n1, T # {}, StaysMild(n, n1)
        PROVE  StaysMild(n, Register(n1, CHOOSE c \in T : TRUE))
    <2> DEFINE c == CHOOSE c \in T : TRUE
    <2>1. c \in T /\ c \in Clients /\ Managed(n1, c)
      BY <1>4 DEF StaysMild, Managed
    <2> HIDE DEF c
    <2>2. Mild(Register(n1, c)) /\ Register(n1, c).desk = n1.desk
      BY <1>4, <2>1, MildRegister DEF StaysMild
    <2>3. StaysMild(n, Register(n1, c))
      BY <1>4, <2>2 DEF StaysMild
    <2> QED BY <2>3 DEF c
  <1>5. RegisterAll(n) = Opening!Fold(n, n, all)
    BY DEF RegisterAll, FoldSet, MapThenFoldSet, Opening!Fold
  <1> HIDE DEF all
  <1>6. StaysMild(n, Opening!Fold(n, n, all))
    BY <1>1, <1>2, <1>3, <1>4, Opening!FoldKeeps
  <1> QED BY <1>5, <1>6 DEF StaysMild

\* The first comparison of one more client.
LEMMA ClearStep ==
    ASSUME NEW n0, NEW T, NEW c \in Clients, c \in T, NEW n, StaysClear(n0, T \ {c}, n)
    PROVE  StaysClear(n0, T, SyncClient(n, c))
  <1> DEFINE n1 == [n EXCEPT !.shadow[c] = Live(n, c)]
             n2 == SyncClient(n, c)
             event == [s \in OpenSessions(n.agents) |->
                [kind |-> "client_mapped", client |-> c, descriptor |-> Descriptor(n, s, c)]]
  <1>1. Sound(n) /\ Mild(n) /\ n.desk = n0.desk /\ ~ n.shadow[c].known
    BY DEF StaysClear, StaysMild
  <1>2. CASE ~ Managed(n, c)
    <2>1. n2 = n
      BY <1>2 DEF SyncClient
    <2> QED BY <2>1 DEF StaysClear
  <1>3. CASE Managed(n, c)
    <2>1. n2 = Emit(n1, "client_mapped", c, event)
      BY <1>1, <1>3 DEF SyncClient, SyncMapped
    <2>2. Live(n, c).known \in BOOLEAN
      BY DEF Live
    <2>3. /\ Sound(n1) /\ n1.agents = n.agents /\ n1.desk = n.desk
          /\ n1.focus = n.focus /\ n1.shownFocus = n.shownFocus
          /\ n1.current = n.current /\ n1.shownWorkspace = n.shownWorkspace
          /\ \A d \in Clients \ {c} : n1.shadow[d] = n.shadow[d]
      BY <1>1, <2>2, ShadowFacts DEF Framed
    <2>4. \A s \in OpenSessions(n1.agents) : event[s].kind # "resync_required"
      BY <2>3
    <2> HIDE DEF n1, n2, event
    <2>5. Sound(n2) /\ SameFace(n1, n2)
      BY <2>1, <2>3, <2>4, EmitFacts
    <2>6. Mild(n2) /\ n2.desk = n0.desk
      BY <1>1, <2>3, <2>5 DEF Mild, Sane, Sound, SameFace, Managed
    <2>7. \A d \in Clients \ T : ~ n2.shadow[d].known
      BY <2>3, <2>5 DEF SameFace, StaysClear
    <2>8. /\ n2.focus = n0.focus /\ n2.shownFocus = n0.shownFocus
          /\ n2.current = n0.current /\ n2.shownWorkspace = n0.shownWorkspace
      BY <2>3, <2>5 DEF SameFace, StaysClear
    <2> QED BY <2>5, <2>6, <2>7, <2>8 DEF StaysClear, StaysMild, n2
  <1> QED BY <1>2, <1>3

\* When nobody has gone there is nobody to tell of.
LEMMA NobodyGone ==
    ASSUME NEW n, Gone(n) = {}
    PROVE  CloseGone(n) = n
  <1>1. Vacancy!IsFiniteSet({})
    <2>1. IsFiniteSet({})
      BY FS_EmptySet
    <2> QED BY <2>1 DEF IsFiniteSet, Vacancy!IsFiniteSet
  <1>2. Vacancy!Picks({})
    BY DEF Vacancy!Picks
  <1>3. CloseGone(n) = Vacancy!Fold(n, n, {})
    BY DEF CloseGone, FoldSet, MapThenFoldSet, Vacancy!Fold
  <1>4. \A T \in SUBSET {} : \A x : T # {} /\ x = n => SyncClosed(x, CHOOSE c \in T : TRUE) = n
    OBVIOUS
  <1> QED BY <1>1, <1>2, <1>3, <1>4, Vacancy!FoldKeeps

\* The first comparison, when nothing is private.
LEMMA MildSync ==
    ASSUME NEW n, Mild(n), Sound(n), \A c \in Clients : ~ n.shadow[c].known,
           n.shownFocus = n.focus, n.shownWorkspace = n.current
    PROVE  Mild(SyncEvents(n))
  <1> DEFINE n2 == CompareAll(n)
  <1>1. Gone(n) = {}
    BY DEF Gone
  <1>2. StaysClear(n, {}, n)
    BY DEF StaysClear, StaysMild
  <1>3. Starting!IsFiniteSet(Clients)
    <2>1. IsFiniteSet(Clients)
      BY FiniteAssumption
    <2> QED BY <2>1 DEF IsFiniteSet, Starting!IsFiniteSet
  <1>4. Starting!Picks(Clients)
    BY DEF Starting!Picks
  <1>5. \A T \in SUBSET Clients : \A n1 :
           T # {} /\ StaysClear(n, T \ {CHOOSE c \in T : TRUE}, n1) =>
              StaysClear(n, T, SyncClient(n1, CHOOSE c \in T : TRUE))
    <2> TAKE T \in SUBSET Clients
    <2> TAKE n1
    <2> HAVE T # {} /\ StaysClear(n, T \ {CHOOSE c \in T : TRUE}, n1)
    <2> DEFINE c == CHOOSE c \in T : TRUE
    <2>1. c \in T /\ c \in Clients /\ StaysClear(n, T \ {c}, n1)
      OBVIOUS
    <2> HIDE DEF c
    <2>2. StaysClear(n, T, SyncClient(n1, c))
      BY <2>1, ClearStep
    <2> QED BY <2>2 DEF c
  <1>6. n2 = Starting!Fold(n, n, Clients)
    BY DEF CompareAll, FoldSet, MapThenFoldSet, Starting!Fold
  <1>7. StaysClear(n, Clients, Starting!Fold(n, n, Clients))
    BY <1>2, <1>3, <1>4, <1>5, Starting!FoldKeeps
  <1>8. SyncEvents(n) = SyncWorkspace(SyncFocus(n2))
    <2>1. SyncEvents(n) = SyncWorkspace(SyncFocus(CompareAll(CloseGone(n))))
      BY DEF SyncEvents, CloseGone, CompareAll, Gone
    <2> QED BY <1>1, <2>1, NobodyGone
  <1> HIDE DEF n2
  <1>9. StaysClear(n, Clients, n2)
    BY <1>6, <1>7
  <1>10. SyncFocus(n2) = n2 /\ SyncWorkspace(n2) = n2
    BY <1>9 DEF StaysClear, SyncFocus, SyncWorkspace
  <1> QED BY <1>8, <1>9, <1>10 DEF StaysClear, StaysMild

\* Nobody has read anything, and nothing is in doubt.
Fresh ==
    /\ lives = [c \in Clients |-> 0]
    /\ view = [s \in Sessions |-> NoView]
    /\ doubt = [s \in Sessions |-> [unsettled |-> {}, concealed |-> {}, ever |-> {}, revoked |-> FALSE]]

\* What is known at the start.
LEMMA FreshFacts ==
    ASSUME Fresh
    PROVE  LET k == Known(lives, doubt, view)
           IN  /\ DoubtShape(doubt) /\ lives \in [Clients -> Nat] /\ DOMAIN view = Sessions
               /\ Ghost(k) /\ k.lives = lives /\ k.view = view /\ k.client = NoClient
               /\ k.fields = {} /\ k.pending = {} /\ Amid(k, NoClient, {}, {}) = k
               /\ \A s \in Sessions : DoubtGrows(k, k, s) /\ k.view[s] = NoView
               /\ \A c \in Clients : lives[c] = 0
  <1> DEFINE k == Known(lives, doubt, view)
  <1>1. lives \in [Clients -> Nat] /\ DOMAIN view = Sessions /\ \A c \in Clients : lives[c] = 0
    BY DEF Fresh
  <1>2. DoubtShape(doubt)
    <2>1. \A s \in Sessions :
              doubt[s] = [unsettled |-> {}, concealed |-> {}, ever |-> {}, revoked |-> FALSE]
      BY DEF Fresh
    <2>2. DOMAIN doubt = Sessions
      BY DEF Fresh
    <2> DEFINE x == [unsettled |-> {}, concealed |-> {}, ever |-> {}, revoked |-> FALSE]
    <2>3. /\ x \in [unsettled : SUBSET Doubts, concealed : SUBSET Doubts,
                    ever : SUBSET Doubts, revoked : BOOLEAN]
          /\ x.unsettled \cup x.concealed \subseteq x.ever
      OBVIOUS
    <2>4. \A s \in Sessions : doubt[s] = x
      BY <2>1
    <2> HIDE DEF x
    <2> QED BY <2>2, <2>3, <2>4 DEF DoubtShape
  <1>3. /\ k.lives = lives /\ k.view = view /\ k.client = NoClient /\ k.fields = {}
        /\ k.pending = {} /\ Ghost(k) /\ Amid(k, NoClient, {}, {}) = k
        /\ \A s \in Sessions : k.doubt[s] \subseteq k.ever[s]
    BY <1>1, <1>2, KnownFacts
  <1>4. \A s \in Sessions : view[s] = NoView
    BY DEF Fresh
  <1> HIDE DEF k
  <1>5. \A s \in Sessions : DoubtGrows(k, k, s) /\ k.view[s] = NoView
    BY <1>3, <1>4 DEF DoubtGrows
  <1> QED BY <1>1, <1>2, <1>3, <1>5 DEF k

\* The manager at the start, in full.
LEMMA StartedFacts ==
    /\ DOMAIN Started = ManagerFields
    /\ DOMAIN Started.desk = Clients /\ DOMAIN Started.shadow = Clients
    /\ \A c \in Clients : /\ Started.desk[c] = Unmanaged /\ ~ Managed(Started, c)
                          /\ Started.shadow[c] = NoShadow
                          /\ Started.agents.visibility[c] = "visible"
    /\ Started.focus = NoClient /\ Started.shownFocus = NoClient
    /\ Started.current = Started.shownWorkspace
    /\ Started.drag = NoDrag /\ OpenSessions(Started.agents) = {} /\ AgentsOK(Started.agents)
    /\ Started.matchers \in [Sessions -> SUBSET Clients]
    /\ DOMAIN Started.link = Sessions /\ DOMAIN Started.outbox = Sessions
    /\ \A s \in Sessions : Started.link[s] = "none" /\ Started.outbox[s] = <<>>
    /\ Started.text = NoText /\ Started.observations = {} /\ Started.semantics = {}
  <1>1. /\ DOMAIN Started = ManagerFields
        /\ Started.desk = [c \in Clients |-> Unmanaged] /\ Started.agents = NoAgents
        /\ Started.shadow = [c \in Clients |-> NoShadow]
        /\ Started.focus = NoClient /\ Started.shownFocus = NoClient
        /\ Started.current = Started.shownWorkspace
        /\ Started.drag = NoDrag
        /\ Started.matchers = [s \in Sessions |-> Clients]
        /\ Started.link = [s \in Sessions |-> "none"]
        /\ Started.outbox = [s \in Sessions |-> <<>>]
        /\ Started.text = NoText /\ Started.observations = {} /\ Started.semantics = {}
    BY DEF Started, ManagerFields
  <1>2. /\ OpenSessions(NoAgents) = {} /\ DOMAIN NoAgents = {"sessions", "visibility", "generation"}
        /\ NoAgents.visibility = [c \in Clients |-> "visible"]
        /\ NoAgents.generation = [c \in Clients |-> 0]
    BY DEF NoAgents, OpenSessions
  <1>3. AgentsOK(NoAgents)
    BY <1>2 DEF AgentsOK, Visibilities
  <1> QED BY <1>1, <1>2, <1>3 DEF Managed, Unmanaged

\* The invariant at the start, with nothing managed and nobody connected.
LEMMA StartedKeeps ==
    ASSUME Fresh
    PROVE  /\ Ok(Started, Known(lives, doubt, view)) /\ FocusKnown(Started) /\ Settled(Started)
           /\ Mild(Started) /\ Gone(Started) = {}
  <1> DEFINE k == Known(lives, doubt, view)
             n == Started
  <1>1. NoShadow.known = FALSE /\ Unmanaged.managed = FALSE /\ DOMAIN Unmanaged = {"managed"}
    BY DEF NoShadow, Unmanaged
  <1>2. DeskOK(n)
    BY <1>1, StartedFacts, Zenon DEF DeskOK, Managed
  <1>3. Scoping(n)
    BY StartedFacts DEF Scoping
  <1>4. Sound(n)
    BY <1>1, <1>2, <1>3, StartedFacts, EmptyFacts, Zenon DEF Sound
  <1>5. Lively(n, k.lives)
    BY StartedFacts DEF Lively
  <1>6. \A s \in Sessions : Linked(n, s, k.view[s])
    BY FreshFacts, StartedFacts DEF Linked
  <1>7. \A s \in Sessions : Informs(n, s, k, k.view[s])
    BY StartedFacts DEF Informs, Attended
  <1> HIDE DEF n, k
  <1>8. Ok(n, k)
    BY <1>4, <1>5, <1>6, <1>7 DEF Ok
  <1>9. FocusKnown(n) /\ Settled(n) /\ Mild(n) /\ Gone(n) = {}
    BY <1>1, StartedFacts DEF FocusKnown, Settled, Mild, Gone, Sane, n
  <1> QED BY <1>8, <1>9 DEF n, k

\* The only client is announced, and nobody is connected.
Announced(n, k, s) ==
    /\ Ok(n, k) /\ Settled(n) /\ FocusKnown(n) /\ Mild(n)
    /\ OpenSessions(n.agents) = {} /\ n.link[s] = "none" /\ n.outbox[s] = <<>>

\* The invariant once a client has appeared and been announced.
LEMMA AppearedKeeps ==
    ASSUME Fresh, NEW c \in Clients, NEW t, Rule[t] = "visible", NEW place, NEW s \in Sessions
    PROVE  Announced(SyncEvents(Appeared(Started, c, t, place)), Known(lives, doubt, view), s)
  <1> DEFINE born == [managed |-> TRUE, title |-> t, workspace |-> Started.current,
                      place |-> place, life |-> lives[c]]
             n == Started
             n1 == [n EXCEPT !.desk[c] = born]
             n2 == Register(n1, c)
             n3 == SyncEvents(n2)
             k == Known(lives, doubt, view)
  <1>1. n2 = Appeared(Started, c, t, place)
    BY DEF Appeared
  <1>2. /\ Ok(n, k) /\ Sound(n) /\ FocusKnown(n) /\ Mild(n) /\ DeskOK(n)
        /\ DOMAIN n = ManagerFields /\ AgentsOK(n.agents) /\ OpenSessions(n.agents) = {}
        /\ n.shownFocus = NoClient /\ n.focus = NoClient /\ n.current = n.shownWorkspace
        /\ n.link[s] = "none" /\ n.outbox[s] = <<>>
        /\ \A d \in Clients : ~ Managed(n, d) /\ n.shadow[d].known = FALSE
    BY StartedKeeps, StartedFacts DEF Ok, Sound, NoShadow
  <1>3. /\ DOMAIN n1 = DOMAIN n /\ n1.desk = [n.desk EXCEPT ![c] = born]
        /\ n1.focus = n.focus /\ n1.current = n.current /\ n1.agents = n.agents
        /\ n1.shadow = n.shadow /\ n1.shownFocus = n.shownFocus
        /\ n1.shownWorkspace = n.shownWorkspace
        /\ n1.matchers = n.matchers /\ n1.link = n.link /\ n1.outbox = n.outbox
        /\ n1.text = n.text /\ n1.observations = n.observations /\ n1.semantics = n.semantics
    BY <1>2 DEF ManagerFields
  <1>4. /\ born.managed = TRUE /\ "managed" \in DOMAIN born /\ "life" \in DOMAIN born
        /\ born.life = lives[c] /\ born.title = t
    OBVIOUS
  <1>5. /\ Ghost(k) /\ k.lives = lives /\ lives \in [Clients -> Nat]
        /\ k.client = NoClient /\ k.fields = {} /\ k.pending = {} /\ Amid(k, NoClient, {}, {}) = k
        /\ \A r \in Sessions : DoubtGrows(k, k, r)
    BY FreshFacts
  <1> HIDE DEF n, n1, born, k
  <1>6. /\ DOMAIN n1.desk = Clients /\ n1.desk[c] = born
        /\ \A d \in Clients \ {c} : n1.desk[d] = n.desk[d]
    BY <1>2, <1>3 DEF DeskOK
  <1>7. Sane(n1) /\ Registered(n1, n2, {c})
    BY <1>2, <1>3, RegisterFacts DEF Sane
  <1>8. Mild(n1) /\ Managed(n1, c)
    BY <1>2, <1>3, <1>4, <1>6, <1>7 DEF Mild, Managed
  <1>9. Mild(n2)
    BY <1>8, MildRegister
  <1> HIDE DEF n2
  <1>10. Prepared(n, n1, {})
    <2>1. DeskOK(n1)
      BY <1>2, <1>3, <1>4, <1>6, Zenon DEF DeskOK, Managed
    <2>2. n1.matchers \in [Sessions -> SUBSET Clients]
      BY <1>2, <1>3 DEF Sound
    <2> QED BY <1>2, <1>3, <2>1, <2>2 DEF Prepared
  <1>11. \A d \in Clients : /\ Managed(n, d) => Managed(n1, d)
                            /\ Managed(n1, d) => Managed(n, d) \/ d \in {c}
                            /\ Managed(n1, d) => n1.desk[d].life = k.lives[d]
    <2> TAKE d \in Clients
    <2>1. CASE d = c
      BY <1>2, <1>4, <1>5, <1>6, <2>1 DEF Managed
    <2>2. CASE d # c
      BY <1>2, <1>5, <1>6, <2>2 DEF Managed
    <2> QED BY <2>1, <2>2
  <1>12. OkBut(n2, k, {})
    <2>1. \A r \in OpenSessions(n1.agents), d \in Clients :
              Managed(n1, d) /\ d \in n1.matchers[r] =>
                  d \in {c} \/ Covers(n1.agents.sessions[r].grant, d)
      BY <1>2, <1>3
    <2>2. \A r \in OpenSessions(n.agents) : SameAnnounced(n, n2, r, k.doubt[r])
      BY <1>2
    <2>3. {} \cap OpenSessions(n.agents) = {}
      OBVIOUS
    <2> QED BY <1>2, <1>5, <1>7, <1>10, <1>11, <2>1, <2>2, <2>3, RegisteredKeeps
  <1>13. Ok(n2, k) /\ Sound(n2)
    BY <1>12 DEF OkBut, Ok
  <1>14. /\ n2.shadow = n.shadow /\ n2.shownFocus = NoClient /\ n2.focus = NoClient
         /\ n2.shownWorkspace = n2.current /\ n2.link = n.link /\ n2.outbox = n.outbox
         /\ OpenSessions(n2.agents) = {}
    BY <1>2, <1>3, <1>7 DEF Registered
  <1>15. FocusKnown(n2) /\ GoneTold(n2, k)
    BY <1>14 DEF FocusKnown, GoneTold
  <1>16. Ok(n3, k) /\ Settled(n3) /\ Steady(n2, n3)
    BY <1>5, <1>13, <1>15, SyncEventsKeeps
  <1>17. Mild(n3)
    BY <1>2, <1>9, <1>13, <1>14, MildSync
  <1> HIDE DEF n3
  <1>18. /\ OpenSessions(n3.agents) = {} /\ n3.link[s] = "none" /\ n3.outbox[s] = <<>>
    BY <1>2, <1>14, <1>16 DEF Steady
  <1>19. FocusKnown(n3)
    BY <1>16, SettledFacts DEF Ok
  <1>20. Announced(n3, k, s)
    BY <1>16, <1>17, <1>18, <1>19 DEF Announced
  <1> QED BY <1>1, <1>20 DEF n3, k

\* The session is connected and greeted, and has read its welcome.
LEMMA JoinedKeeps ==
    ASSUME Fresh, NEW n, NEW s \in Sessions, Announced(n, Known(lives, doubt, view), s),
           NEW matcher \in SUBSET Clients, NEW grant \in Grants, grant.scoped = FALSE
    PROVE  LET joined == CompleteGreeting([n EXCEPT !.link[s] = "connected",
                                                    !.matchers[s] = matcher], s, grant)
               n5 == [joined EXCEPT !.outbox[s] = <<>>]
           IN  /\ Ok(n5, Known(lives, doubt, view)) /\ Settled(n5)
               /\ \A r \in Sessions : Concealed(n5, r) = {}
  <1> DEFINE n1 == [n EXCEPT !.link[s] = "connected"]
             n2 == WithSession(n1, s, grant, matcher)
             n3 == RegisterAll(n2)
             n4 == CompleteGreeting([n1 EXCEPT !.matchers[s] = matcher], s, grant)
             n5 == [n4 EXCEPT !.outbox[s] = <<>>]
             k == Known(lives, doubt, view)
             all == {c \in Clients : Managed(n2, c)}
  <1>1. /\ Ok(n, k) /\ Settled(n) /\ FocusKnown(n) /\ Mild(n) /\ Sound(n)
        /\ OpenSessions(n.agents) = {} /\ n.link[s] = "none" /\ n.outbox[s] = <<>>
        /\ DOMAIN n = ManagerFields /\ DOMAIN n.link = Sessions
    BY DEF Announced, Ok, Sound
  <1>2. [n1 EXCEPT !.matchers[s] = matcher]
            = [n EXCEPT !.link[s] = "connected", !.matchers[s] = matcher]
    OBVIOUS
  <1>3. Ok(n1, k) /\ SameSights(n, n1) /\ Sound(n1)
    BY <1>1, ConnectKeeps, Zenon DEF Ok
  <1>4. /\ n1.agents = n.agents /\ n1.outbox = n.outbox /\ n1.link[s] = "connected"
        /\ DOMAIN n1 = DOMAIN n /\ n1.matchers = n.matchers
    BY <1>1 DEF ManagerFields
  <1>5. /\ Ghost(k) /\ k.lives = lives /\ k.view = view /\ lives \in [Clients -> Nat]
        /\ k.client = NoClient /\ k.fields = {} /\ k.pending = {}
        /\ \A r \in Sessions : DoubtGrows(k, k, r) /\ k.view[r] = NoView
    BY FreshFacts
  <1> HIDE DEF n1, k
  <1>6. FocusKnown(n1) /\ OpenSessions(n1.agents) = {} /\ s \notin OpenSessions(n1.agents)
    BY <1>1, <1>3, <1>4 DEF FocusKnown, SameSights
  <1>7. Ok(n4, k)
    <2>1. \A r \in OpenSessions(n1.agents) : SameAnnounced(n1, n4, r, k.doubt[r])
      BY <1>6
    <2> HIDE DEF n4
    <2>2. n4 = CompleteGreeting([n1 EXCEPT !.matchers[s] = matcher], s, grant)
      BY DEF n4
    <2> QED BY <1>3, <1>4, <1>5, <1>6, <2>1, <2>2, GreetingKeeps, Zenon
  <1>8. /\ n4 = [n3 EXCEPT !.link[s] = "greeted", !.outbox[s] = <<Welcome>>]
        /\ Registered(n2, n3, all)
    <2>1. Greets(n1, s, grant, matcher)
      BY <1>1, <1>3, <1>4, <1>6, GreetingFacts
    <2> QED BY <2>1 DEF Greets
  <1>9. /\ Prepared(n1, n2, {s}) /\ Sane(n2) /\ n2.desk = n1.desk
        /\ n2.agents.sessions[s].grant = grant
    <2>1. Opened(n1, s, grant, matcher)
      BY <1>3, <1>6, WithSessionFacts
    <2> QED BY <2>1 DEF Opened
  <1>10. GreetedFrom(n1, n4, s)
    BY <1>1, <1>3, <1>4, <1>6, GreetedFacts, Zenon
  <1> HIDE DEF n4, n2
  <1>11. Mild(n2)
    BY <1>1, <1>3, <1>4, <1>9 DEF Mild, Prepared, SameSights, Managed
  <1>12. Mild(n3)
    BY <1>11, MildRegisterAll
  <1> HIDE DEF n3
  <1>13. DOMAIN n3 = ManagerFields /\ n4.agents = n3.agents
    <2>1. DOMAIN n3 = ManagerFields
      BY <1>12 DEF Mild, Sane
    <2> QED BY <1>8, <2>1 DEF ManagerFields
  <1>14. OpenSessions(n4.agents) = {s} /\ n4.outbox[s] = <<Welcome>>
    BY <1>6, <1>10 DEF GreetedFrom
  <1>15. \A r \in OpenSessions(n4.agents), c \in Clients : Perceives(n4.agents, r, c)
    <2>1. n3.agents.sessions[s].grant.scoped = FALSE
      BY <1>8, <1>9 DEF Registered, Prepared
    <2>2. \A c \in Clients : n3.agents.visibility[c] = "visible"
      BY <1>12 DEF Mild
    <2> QED BY <1>13, <1>14, <2>1, <2>2 DEF Perceives, Covers
  <1>16. Settled(n4)
    BY <1>1, <1>3, <1>10 DEF Settled, Met, ClientState, Managed, SameSights, GreetedFrom
  <1>17. Tail(n4.outbox[s]) = <<>> /\ Head(n4.outbox[s]) = Welcome /\ n4.outbox[s] # <<>>
    <2>1. Tail(<<Welcome>>) = <<>> /\ Head(<<Welcome>>) = Welcome /\ <<Welcome>> # <<>>
      OBVIOUS
    <2> QED BY <1>14, <2>1
  <1>18. n5 = [n4 EXCEPT !.outbox[s] = Tail(@)]
    BY <1>17
  <1> HIDE DEF n5
  <1>19. HasRead(n4, k, n5, k, s)
    <2>1. ReadFrame(NoView, Welcome) = NoView
      BY DEF ReadFrame, Welcome, IsSnapshot
    <2> QED BY <1>5, <1>7, <1>17, <1>18, <2>1, FrameReadKeeps, Zenon
  <1>20. Ok(n5, k) /\ SameFace(n4, n5)
    BY <1>19 DEF HasRead
  <1>21. Settled(n5)
    BY <1>16, <1>20, SettledStays
  <1>22. \A r \in Sessions : Concealed(n5, r) = {}
    BY <1>15, <1>20 DEF Concealed, SameFace, Perceives
  <1>23. n5 = [CompleteGreeting([n EXCEPT !.link[s] = "connected",
                                          !.matchers[s] = matcher], s, grant)
                 EXCEPT !.outbox[s] = <<>>]
    BY <1>2 DEF n4, n5
  <1> QED BY <1>20, <1>21, <1>22, <1>23 DEF k

\* The invariant holds at the start.
LEMMA InitInv ==
    ASSUME Init PROVE Inv
  <1> DEFINE k == Known(lives, doubt, view)
  <1>1. Fresh /\ phase = "idle"
    BY DEF Init, Fresh
  <1>2. /\ DoubtShape(doubt) /\ lives \in [Clients -> Nat] /\ DOMAIN view = Sessions
    BY <1>1, FreshFacts
  <1>3. SUFFICES Ok(m, k) /\ Settled(m) /\ \A s \in Sessions : Concealed(m, s) = {}
    <2>1. FocusKnown(m)
      BY <1>3, SettledFacts DEF Ok
    <2> QED BY <1>1, <1>2, <1>3, <2>1 DEF Inv, InvAt
  <1>4. CASE m = Started
    BY <1>1, <1>4, StartedKeeps, StartedFacts DEF Concealed
  <1>5. ASSUME NEW c \in Clients, NEW t, Rule[t] = "visible", NEW s \in Sessions,
               NEW deal \in Trusting, m = UnderWay(c, t, s, deal)
        PROVE  Ok(m, k) /\ Settled(m) /\ \A r \in Sessions : Concealed(m, r) = {}
    <2> DEFINE there == SyncEvents(Appeared(Started, c, t, CHOOSE p \in Places : TRUE))
    <2>1. Announced(there, k, s)
      BY <1>1, <1>5, AppearedKeeps
    <2>2. deal.matcher \in SUBSET Clients /\ deal.grant \in Grants /\ deal.grant.scoped = FALSE
      <3>1. deal.matcher \in SUBSET Clients /\ deal.grant \in Grants
        BY DealsAssumption DEF Trusting
      <3> QED BY <3>1 DEF Trusting, Unscoped
    <2> HIDE DEF there
    <2>3. m = [CompleteGreeting([there EXCEPT !.link[s] = "connected",
                                              !.matchers[s] = deal.matcher], s, deal.grant)
                 EXCEPT !.outbox[s] = <<>>]
      BY <1>5, Zenon DEF UnderWay, there
    <2> QED BY <1>1, <2>1, <2>2, <2>3, JoinedKeeps, Zenon
  <1> HIDE DEF k
  <1>6. \/ m = Started
        \/ \E c \in Clients, t \in {t \in Titles : Rule[t] = "visible"}, s \in Sessions,
              deal \in Trusting : m = UnderWay(c, t, s, deal)
    BY DEF Init
  <1>7. CASE \E c \in Clients, t \in {t \in Titles : Rule[t] = "visible"}, s \in Sessions,
              deal \in Trusting : m = UnderWay(c, t, s, deal)
    <2>1. PICK c \in Clients, t \in {t \in Titles : Rule[t] = "visible"}, s \in Sessions,
              deal \in Trusting : m = UnderWay(c, t, s, deal)
      BY <1>7
    <2>2. Rule[t] = "visible"
      OBVIOUS
    <2> QED BY <1>5, <2>1, <2>2
  <1> QED BY <1>4, <1>6, <1>7

\* A subscribed session that reads all it is sent knows the desktop (sync_agent_events).
THEOREM ViewFollows ==
    Spec => []ViewTracksDesktop
  <1>1. Init => Inv
    BY InitInv
  <1>2. Inv /\ [Next]_vars => Inv'
    BY NextKeeps
  <1>3. Inv => ViewTracksDesktop
    BY InvTracks
  <1> QED BY <1>1, <1>2, <1>3, PTL DEF Spec

\* The generation a session has read of tells whether it knows the client (check_expects).
THEOREM GenerationSuffices ==
    Spec => []GenerationTells
  <1>1. Init => Inv
    BY InitInv
  <1>2. Inv /\ [Next]_vars => Inv'
    BY NextKeeps
  <1>3. Inv => GenerationTells
    BY InvTells
  <1> QED BY <1>1, <1>2, <1>3, PTL DEF Spec

=============================================================================

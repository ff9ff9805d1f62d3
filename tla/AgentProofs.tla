----------------------------- MODULE AgentProofs -----------------------------
(***************************************************************************)
(* Proofs about what agents are served with: the requests of AgentRequests *)
(* and the transport below them, AgentSeat, for any sessions, requests,    *)
(* clients and bounds.                                                     *)
(*                                                                         *)
(* Requests.  The inductive invariant says of every session and request    *)
(* that one thing at most waits for its answer, that what waits has no     *)
(* answer yet and what was asked and does not wait has exactly one, and    *)
(* that what was overtaken has not succeeded and cannot any more: nothing  *)
(* waits for it but queries that are cancelled.  A handler changes the     *)
(* manager in many calls, some of them folds over the sessions or over     *)
(* what is pending, so the proof speaks of pairs of managers: n leads to   *)
(* n2 when n2 keeps all of this, makes no pending work of its own and lets *)
(* nothing succeed that could not.  Leading is transitive; every call has  *)
(* a lemma that says it leads, every fold an instance of FoldFacts, and an *)
(* action is their composition.  What a step leaves (Kept) also says of    *)
(* each session that it goes on, is given up or is a new one, which is     *)
(* what RequestBook promises.                                              *)
(*                                                                         *)
(* The seat.  No wake-up is lost, and the event loop hears of every        *)
(* session in the order of its life.                                       *)
(***************************************************************************)
EXTENDS AgentRequests, AgentSeat, FiniteSetTheorems, SequenceTheorems, TLAPS

Fields ==
    {"desk", "focus", "current", "drag", "agents", "shadow", "shownFocus", "shownWorkspace",
     "matchers", "link", "outbox", "text", "observations", "semantics", "clipboard",
     "consent", "consented"}

WorkFields == {"session", "request", "target", "generation"}

Asks(pending) == pending.session \in Sessions /\ pending.request \in Requests

Frames(q) == \E S : q \in Seq(S)

\* A manager has its fields, its frames are in sequences and what is pending is work of
\* some session.
Shaped(n) ==
    /\ Fields \subseteq DOMAIN n
    /\ DOMAIN n.link = Sessions /\ DOMAIN n.outbox = Sessions
    /\ \A s \in Sessions : Frames(n.outbox[s])
    /\ n.text.on \in BOOLEAN
    /\ n.text.on => Asks(n.text) /\ WorkFields \cup {"on", "left", "offered"} \subseteq DOMAIN n.text
    /\ IsFiniteSet(n.observations) /\ \A pending \in n.observations : Asks(pending)
    /\ IsFiniteSet(n.semantics)
    /\ \A pending \in n.semantics :
          /\ Asks(pending) /\ pending.cancelled \in BOOLEAN
          /\ WorkFields \cup {"cancelled", "result"} \subseteq DOMAIN pending
    /\ "sessions" \in DOMAIN n.agents /\ OpenSessions(n.agents) \subseteq Sessions
    /\ n.consent \in Seq(Sessions)

\* What waits for the answer to a request.
TextOf(n, s, r) == n.text.on /\ n.text.session = s /\ n.text.request = r

ObservationsOf(n, s, r) == {pending \in n.observations : pending.session = s /\ pending.request = r}

SemanticsOf(n, s, r) == {pending \in n.semantics : pending.session = s /\ pending.request = r}

Waiting(n, s, r) == TextOf(n, s, r) \/ ObservationsOf(n, s, r) # {} \/ SemanticsOf(n, s, r) # {}

Responses(q, r) == {i \in DOMAIN q : q[i].frame = "response" /\ q[i].request = r}

Count(n, H, s, r) == H[s][r] + Cardinality(Responses(n.outbox[s], r))

\* One thing at most waits for the answer to a request.
AtMostOne(n, s, r) ==
    /\ \A p, q \in ObservationsOf(n, s, r) : p = q
    /\ \A p, q \in SemanticsOf(n, s, r) : p = q
    /\ TextOf(n, s, r) => ObservationsOf(n, s, r) = {} /\ SemanticsOf(n, s, r) = {}
    /\ ObservationsOf(n, s, r) # {} => SemanticsOf(n, s, r) = {}

Serving(n, s) == n.link[s] \notin {"ending", "gone"}

\* A request waits and has no answer, or does not wait and has one.
SettledAt(n, A, H, s, r) ==
    /\ AtMostOne(n, s, r)
    /\ r \notin A[s] => ~ Waiting(n, s, r)
    /\ r \notin A[s] \/ Waiting(n, s, r) => Count(n, H, s, r) = 0
    /\ r \in A[s] /\ ~ Waiting(n, s, r) /\ Serving(n, s) => Count(n, H, s, r) = 1
    /\ r \in A[s] /\ Serving(n, s) => Held(n, s)

Settled(n, A, H) == \A s \in Sessions, r \in Requests : SettledAt(n, A, H, s, r)

\* No request of X has succeeded, and none can.
Request(s, r) == [session |-> s, request |-> r]

NoneSucceeded(n, X) ==
    \A s \in Sessions : \A i \in DOMAIN n.outbox[s] :
        n.outbox[s][i].frame = "response" /\ n.outbox[s][i].outcome = "ok"
        => Request(s, n.outbox[s][i].request) \notin X

NoneCan(n, X) ==
    \A s \in Sessions, r \in Requests : Request(s, r) \in X =>
        /\ ~ TextOf(n, s, r) /\ ObservationsOf(n, s, r) = {}
        /\ \A pending \in SemanticsOf(n, s, r) : pending.cancelled

Fine(n, A, H, X) == Settled(n, A, H) /\ NoneSucceeded(n, X) /\ NoneCan(n, X)

TimersFor(n, t) ==
    /\ n.text.on => Timer("text", n.text.generation) \in t
    /\ \A pending \in n.observations : Timer("observation", pending.generation) \in t
    /\ \A pending \in n.semantics : Timer("semantic", pending.generation) \in t

AskedInOrder ==
    /\ DOMAIN asked = Sessions
    /\ \A s \in Sessions : \E k \in Nat : asked[s] = 1..k

PreemptedAsked ==
    \A x \in preempted : \E s \in Sessions : \E r \in asked[s] : x = Request(s, r)

LinksOK == ~ seat => \A s \in Sessions : ~ Held(m, s)

IInv ==
    /\ Shaped(m)
    /\ heard \in [Sessions -> [Requests -> Nat]]
    /\ AskedInOrder
    /\ LinksOK
    /\ TimersFor(m, timers)
    /\ leftover \in BOOLEAN
    /\ ~ leftover => PreemptedAsked /\ Fine(m, asked, heard, preempted)

(* ---- What every step of the manager's own does ---- *)
Derived(q, p) ==
    /\ q.session = p.session /\ q.request = p.request /\ q.generation = p.generation
    /\ p.cancelled => q.cancelled

\* A session that is served is greeted and given up; no other comes to life.
Moved(before, after) ==
    before = after \/ (before \in {"connected", "greeted"} /\ after \in {"greeted", "ending"})

Follows(n0, n) ==
    /\ n.text = n0.text \/ n.text = NoText
    /\ n.observations \subseteq n0.observations
    /\ \A q \in n.semantics : \E p \in n0.semantics : Derived(q, p)
    /\ \A s \in Sessions : Moved(n0.link[s], n.link[s])

HeardType(H) == H \in [Sessions -> [Requests -> Nat]]

\* Nothing is said to have succeeded that was not before.
Silent(n0, n) == \A X : NoneSucceeded(n0, X) => NoneSucceeded(n, X)

Leads(n0, n) ==
    /\ Shaped(n)
    /\ Follows(n0, n) /\ Silent(n0, n)
    /\ \A A, H, X : HeardType(H) /\ Fine(n0, A, H, X) => Fine(n, A, H, X)

LEMMA LeadsRefl == ASSUME NEW n, Shaped(n) PROVE Leads(n, n)
  BY DEF Leads, Follows, Silent, Derived, Moved

LEMMA LeadsTrans ==
    ASSUME NEW n0, NEW n1, NEW n2, Leads(n0, n1), Leads(n1, n2)
    PROVE  Leads(n0, n2)
  <1>1. Follows(n0, n2)
    <2>1. n2.text = n0.text \/ n2.text = NoText
      BY DEF Leads, Follows
    <2>2. n2.observations \subseteq n0.observations
      BY DEF Leads, Follows
    <2>3. \A q \in n2.semantics : \E p \in n0.semantics : Derived(q, p)
      BY DEF Leads, Follows, Derived
    <2>4. \A s \in Sessions : Moved(n0.link[s], n2.link[s])
      BY DEF Leads, Follows, Moved
    <2> QED BY <2>1, <2>2, <2>3, <2>4 DEF Follows
  <1>2. Shaped(n2)
    BY DEF Leads
  <1>3. \A A, H, X : HeardType(H) /\ Fine(n0, A, H, X) => Fine(n2, A, H, X)
    BY DEF Leads
  <1>4. Silent(n0, n2)
    BY DEF Leads, Silent
  <1> QED BY <1>1, <1>2, <1>3, <1>4 DEF Leads

\* What is pending, the links and the frames are all that Fine looks at.
LEMMA FineSame ==
    ASSUME NEW n, NEW n2, NEW A, NEW H, NEW X, Fine(n, A, H, X),
           n2.text = n.text, n2.observations = n.observations, n2.semantics = n.semantics,
           n2.link = n.link, n2.outbox = n.outbox
    PROVE  Fine(n2, A, H, X)
  BY DEF Fine, Settled, SettledAt, AtMostOne, Waiting, Count, Serving, TextOf, ObservationsOf,
         SemanticsOf, Held, NoneSucceeded, NoneCan

AgentsOK(a) == "sessions" \in DOMAIN a /\ OpenSessions(a) \subseteq Sessions

LEMMA QuietLeads ==
    ASSUME NEW n, NEW n2, Shaped(n), Fields \subseteq DOMAIN n2, AgentsOK(n2.agents),
           n2.text = n.text, n2.observations = n.observations, n2.semantics = n.semantics,
           n2.link = n.link, n2.outbox = n.outbox, n2.consent \in Seq(Sessions)
    PROVE  Leads(n, n2)
  <1>1. Shaped(n2)
    BY DEF Shaped, AgentsOK
  <1>2. Follows(n, n2)
    BY DEF Follows, Derived, Moved
  <1>3. Silent(n, n2)
    BY DEF Silent, NoneSucceeded
  <1> QED BY <1>1, <1>2, <1>3, FineSame DEF Leads

LEMMA CancelFacts ==
    ASSUME NEW p, WorkFields \cup {"cancelled", "result"} \subseteq DOMAIN p
    PROVE  /\ Derived(CancelSemantic(p), p)
           /\ CancelSemantic(p).cancelled = TRUE
           /\ DOMAIN CancelSemantic(p) = DOMAIN p
  BY DEF Derived, CancelSemantic, WorkFields

LEMMA QueriesCancelled ==
    ASSUME NEW n, Shaped(n), NEW p \in n.semantics
    PROVE  /\ Derived(CancelSemantic(p), p) /\ CancelSemantic(p).cancelled \in BOOLEAN
           /\ DOMAIN CancelSemantic(p) = DOMAIN p
           /\ Derived(p, p) /\ p.cancelled \in BOOLEAN
  <1>1. WorkFields \cup {"cancelled", "result"} \subseteq DOMAIN p /\ p.cancelled \in BOOLEAN
    BY DEF Shaped
  <1>2. /\ Derived(CancelSemantic(p), p) /\ CancelSemantic(p).cancelled = TRUE
        /\ DOMAIN CancelSemantic(p) = DOMAIN p
    BY <1>1, CancelFacts
  <1> QED BY <1>1, <1>2 DEF Derived

\* Queries that change, by being cancelled or found.
LEMMA QueriesLeads ==
    ASSUME NEW n, NEW n2, NEW g, Shaped(n), Fields \subseteq DOMAIN n2, n2.agents = n.agents,
           n2.text = n.text, n2.observations = n.observations,
           n2.link = n.link, n2.outbox = n.outbox, n2.consent = n.consent,
           \A p \in n.semantics : /\ Derived(g[p], p) /\ g[p].cancelled \in BOOLEAN
                                  /\ DOMAIN g[p] = DOMAIN p,
           n2.semantics = {g[p] : p \in n.semantics}
    PROVE  Leads(n, n2)
  <1>1. \A p \in n.semantics :
           /\ Derived(g[p], p) /\ g[p].cancelled \in BOOLEAN
           /\ DOMAIN g[p] = DOMAIN p
           /\ g[p].session = p.session /\ g[p].request = p.request
           /\ p.cancelled => g[p].cancelled
    BY DEF Derived
  <1>2. IsFiniteSet(n2.semantics)
    <2>1. IsFiniteSet(n.semantics)
      BY DEF Shaped
    <2>2. n2.semantics = {[q \in n.semantics |-> g[q]][p] : p \in n.semantics}
      OBVIOUS
    <2>3. [p \in n.semantics |-> g[p]] \in Surjection(n.semantics, n2.semantics)
      BY <2>2 DEF Surjection
    <2> QED BY <2>1, <2>3, FS_Surjection
  <1>3. Shaped(n2)
    <2>1. \A q \in n2.semantics :
             /\ Asks(q) /\ q.cancelled \in BOOLEAN
             /\ WorkFields \cup {"cancelled", "result"} \subseteq DOMAIN q
      BY <1>1 DEF Shaped, Asks
    <2> QED BY <1>2, <2>1 DEF Shaped
  <1>4. Follows(n, n2)
    BY <1>1 DEF Follows, Moved
  <1>5. ASSUME NEW A, NEW H, NEW X, Fine(n, A, H, X) PROVE Fine(n2, A, H, X)
    <2>1. \A s, r : /\ TextOf(n2, s, r) <=> TextOf(n, s, r)
                    /\ ObservationsOf(n2, s, r) = ObservationsOf(n, s, r)
                    /\ SemanticsOf(n2, s, r) = {g[p] : p \in SemanticsOf(n, s, r)}
                    /\ Count(n2, H, s, r) = Count(n, H, s, r)
                    /\ Serving(n2, s) <=> Serving(n, s)
                    /\ Held(n2, s) <=> Held(n, s)
      BY <1>1 DEF TextOf, ObservationsOf, SemanticsOf, Count, Serving, Held
    <2>2. ASSUME NEW s, NEW r
          PROVE  /\ SemanticsOf(n2, s, r) = {} <=> SemanticsOf(n, s, r) = {}
                 /\ AtMostOne(n, s, r) => AtMostOne(n2, s, r)
                 /\ Waiting(n2, s, r) <=> Waiting(n, s, r)
      <3>1. SemanticsOf(n2, s, r) = {} <=> SemanticsOf(n, s, r) = {}
        <4>1. SemanticsOf(n2, s, r) = {g[p] : p \in SemanticsOf(n, s, r)}
          BY <2>1
        <4>2. \A S : {g[p] : p \in S} = {} <=> S = {}
          OBVIOUS
        <4> QED BY <4>1, <4>2, Zenon
      <3>2. (\A p, q \in SemanticsOf(n, s, r) : p = q)
            => \A p, q \in SemanticsOf(n2, s, r) : p = q
        BY <2>1
      <3>3. AtMostOne(n, s, r) => AtMostOne(n2, s, r)
        BY <2>1, <3>1, <3>2, Zenon DEF AtMostOne
      <3> QED BY <2>1, <3>1, <3>3 DEF Waiting
    <2>3. Settled(n2, A, H)
      BY <1>5, <2>1, <2>2 DEF Fine, Settled, SettledAt
    <2>4. NoneSucceeded(n2, X)
      BY <1>5 DEF Fine, NoneSucceeded
    <2>5. NoneCan(n2, X)
      <3> SUFFICES ASSUME NEW s \in Sessions, NEW r \in Requests, Request(s, r) \in X
                   PROVE  /\ ~ TextOf(n2, s, r) /\ ObservationsOf(n2, s, r) = {}
                          /\ \A pending \in SemanticsOf(n2, s, r) : pending.cancelled
        BY DEF NoneCan
      <3>1. /\ ~ TextOf(n, s, r) /\ ObservationsOf(n, s, r) = {}
            /\ \A pending \in SemanticsOf(n, s, r) : pending \in n.semantics /\ pending.cancelled
        BY <1>5 DEF Fine, NoneCan, SemanticsOf
      <3> QED BY <3>1, <2>1, <1>1
    <2> QED BY <2>3, <2>4, <2>5 DEF Fine
  <1>6. Silent(n, n2)
    BY DEF Silent, NoneSucceeded
  <1> QED BY <1>3, <1>4, <1>5, <1>6 DEF Leads

(* ---- Frames ---- *)
LEMMA AppendFacts ==
    ASSUME NEW q, Frames(q), NEW x
    PROVE  /\ Frames(Append(q, x)) /\ Len(q) \in Nat
           /\ DOMAIN q = 1..Len(q) /\ DOMAIN Append(q, x) = 1..(Len(q) + 1)
           /\ \A i \in 1..Len(q) : Append(q, x)[i] = q[i]
           /\ Append(q, x)[Len(q) + 1] = x
  <1>1. PICK S : q \in Seq(S)
    BY DEF Frames
  <1>2. q \in Seq(S \cup {x}) /\ x \in S \cup {x}
    BY <1>1
  <1>3. Append(q, x) \in Seq(S \cup {x})
    BY <1>2
  <1> QED BY <1>2, <1>3 DEF Frames

LEMMA TailFacts ==
    ASSUME NEW q, Frames(q), q # <<>>
    PROVE  /\ Frames(Tail(q)) /\ Len(q) \in Nat \ {0} /\ Head(q) = q[1]
           /\ DOMAIN q = 1..Len(q) /\ DOMAIN Tail(q) = 1..(Len(q) - 1)
           /\ \A i \in 1..(Len(q) - 1) : Tail(q)[i] = q[i + 1]
  <1>1. PICK S : q \in Seq(S)
    BY DEF Frames
  <1>2. Tail(q) \in Seq(S)
    BY <1>1
  <1> QED BY <1>1, <1>2 DEF Frames

LEMMA ResponsesFinite ==
    ASSUME NEW q, Frames(q), NEW r
    PROVE  IsFiniteSet(Responses(q, r)) /\ Cardinality(Responses(q, r)) \in Nat
  <1>1. DOMAIN q = 1..Len(q) /\ Len(q) \in Nat
    BY AppendFacts
  <1>2. IsFiniteSet(DOMAIN q)
    BY <1>1, FS_Interval
  <1>3. Responses(q, r) \subseteq DOMAIN q
    BY DEF Responses
  <1> QED BY <1>2, <1>3, FS_Subset, FS_CardinalityType

IsAnswer(x, r) == x.frame = "response" /\ x.request = r

LEMMA ResponsesAppend ==
    ASSUME NEW q, Frames(q), NEW x, NEW r
    PROVE  Cardinality(Responses(Append(q, x), r))
           = Cardinality(Responses(q, r)) + (IF IsAnswer(x, r) THEN 1 ELSE 0)
  <1>1. Responses(Append(q, x), r)
        = Responses(q, r) \cup (IF IsAnswer(x, r) THEN {Len(q) + 1} ELSE {})
    BY AppendFacts DEF Responses, IsAnswer
  <1>2. Len(q) + 1 \notin Responses(q, r)
    BY AppendFacts DEF Responses
  <1>3. IsFiniteSet(Responses(q, r)) /\ Cardinality(Responses(q, r)) \in Nat
    BY ResponsesFinite
  <1>4. Cardinality(Responses(q, r) \cup {Len(q) + 1}) = Cardinality(Responses(q, r)) + 1
    BY <1>2, <1>3, FS_AddElement
  <1>5. CASE IsAnswer(x, r)
    BY <1>1, <1>4, <1>5
  <1>6. CASE ~ IsAnswer(x, r)
    BY <1>1, <1>3, <1>6
  <1> QED BY <1>5, <1>6

LEMMA ResponsesTail ==
    ASSUME NEW q, Frames(q), q # <<>>, NEW r
    PROVE  Cardinality(Responses(q, r))
           = Cardinality(Responses(Tail(q), r)) + (IF IsAnswer(Head(q), r) THEN 1 ELSE 0)
  <1> DEFINE R == Responses(Tail(q), r)
             shift == [i \in R |-> i + 1]
             rest == Responses(q, r) \ {1}
  <1>1. \A i \in R : i \in 1..(Len(q) - 1) /\ i + 1 \in rest
    BY TailFacts DEF Responses
  <1>2. \A j \in rest : j \in 2..Len(q) /\ j - 1 \in R
    BY TailFacts DEF Responses
  <1>3. shift \in Bijection(R, rest)
    <2>1. shift \in [R -> rest]
      BY <1>1
    <2>2. \A i, j \in R : shift[i] = shift[j] => i = j
      BY <1>1
    <2>3. \A j \in rest : \E i \in R : shift[i] = j
      BY <1>2
    <2> HIDE DEF R, rest, shift
    <2>4. shift \in Injection(R, rest)
      BY <2>1, <2>2 DEF Injection, IsInjective
    <2>5. shift \in Surjection(R, rest)
      BY <2>1, <2>3, Zenon DEF Surjection
    <2> QED BY <2>4, <2>5 DEF Bijection
  <1>4. IsFiniteSet(R) /\ Cardinality(R) \in Nat
    BY TailFacts, ResponsesFinite
  <1>5. IsFiniteSet(rest) /\ Cardinality(rest) = Cardinality(R)
    <2>1. ExistsBijection(R, rest)
      BY <1>3, Zenon DEF ExistsBijection
    <2> HIDE DEF R, shift, rest
    <2> QED BY <1>4, <2>1, FS_Bijection
  <1>6. Responses(q, r) = rest \cup (IF IsAnswer(Head(q), r) THEN {1} ELSE {})
    BY TailFacts DEF Responses, IsAnswer
  <1>7. 1 \notin rest
    OBVIOUS
  <1> HIDE DEF R, rest
  <1>8. CASE IsAnswer(Head(q), r)
    <2>1. Responses(q, r) = rest \cup {1}
      BY <1>6, <1>8
    <2>2. Cardinality(rest \cup {1}) = Cardinality(rest) + 1
      BY <1>5, <1>7, FS_AddElement
    <2> QED BY <1>5, <1>8, <2>1, <2>2 DEF R
  <1>9. CASE ~ IsAnswer(Head(q), r)
    BY <1>4, <1>5, <1>6, <1>9 DEF R
  <1> QED BY <1>8, <1>9

\* Frames that answer nothing go out, and sessions are given up.
LEMMA PutLeads ==
    ASSUME NEW n, NEW n2, Shaped(n), Fields \subseteq DOMAIN n2, AgentsOK(n2.agents),
           n2.text = n.text, n2.observations = n.observations, n2.semantics = n.semantics,
           n2.consent = n.consent,
           DOMAIN n2.link = Sessions, DOMAIN n2.outbox = Sessions,
           \A s \in Sessions : Moved(n.link[s], n2.link[s]),
           \A s \in Sessions : \/ n2.outbox[s] = n.outbox[s]
                               \/ \E x : x.frame # "response" /\ n2.outbox[s] = Append(n.outbox[s], x)
    PROVE  Leads(n, n2)
  <1>1. Shaped(n2)
    <2>1. ASSUME NEW s \in Sessions PROVE Frames(n2.outbox[s])
      <3>1. Frames(n.outbox[s])
        BY DEF Shaped
      <3>2. \A x : Frames(Append(n.outbox[s], x))
        BY <3>1, AppendFacts
      <3> QED BY <3>1, <3>2
    <2> QED BY <2>1 DEF Shaped, AgentsOK
  <1>2. Follows(n, n2)
    BY DEF Follows, Derived, Moved
  <1>4. ASSUME NEW X, NoneSucceeded(n, X) PROVE NoneSucceeded(n2, X)
    <2> SUFFICES ASSUME NEW s \in Sessions, NEW i \in DOMAIN n2.outbox[s],
                        n2.outbox[s][i].frame = "response", n2.outbox[s][i].outcome = "ok"
                 PROVE  Request(s, n2.outbox[s][i].request) \notin X
      BY DEF NoneSucceeded
    <2>1. i \in DOMAIN n.outbox[s] /\ n.outbox[s][i] = n2.outbox[s][i]
      BY AppendFacts DEF Shaped
    <2> QED BY <2>1, <1>4 DEF NoneSucceeded
  <1>3. ASSUME NEW A, NEW H, NEW X, Fine(n, A, H, X) PROVE Fine(n2, A, H, X)
    <2>1. ASSUME NEW s \in Sessions, NEW r
          PROVE  /\ Count(n2, H, s, r) = Count(n, H, s, r)
                 /\ TextOf(n2, s, r) <=> TextOf(n, s, r)
                 /\ ObservationsOf(n2, s, r) = ObservationsOf(n, s, r)
                 /\ SemanticsOf(n2, s, r) = SemanticsOf(n, s, r)
                 /\ Serving(n2, s) => Serving(n, s)
                 /\ Serving(n2, s) /\ Held(n, s) => Held(n2, s)
      <3>1. Count(n2, H, s, r) = Count(n, H, s, r)
        <4>1. Frames(n.outbox[s])
          BY DEF Shaped
        <4>2. Cardinality(Responses(n2.outbox[s], r)) = Cardinality(Responses(n.outbox[s], r))
          <5>1. CASE n2.outbox[s] = n.outbox[s]
            BY <5>1
          <5>2. ASSUME NEW x, x.frame # "response", n2.outbox[s] = Append(n.outbox[s], x)
                PROVE  Cardinality(Responses(n2.outbox[s], r)) = Cardinality(Responses(n.outbox[s], r))
            <6>1. ~ IsAnswer(x, r)
              BY <5>2 DEF IsAnswer
            <6>2. Cardinality(Responses(Append(n.outbox[s], x), r))
                  = Cardinality(Responses(n.outbox[s], r)) + 0
              BY <4>1, <6>1, ResponsesAppend
            <6>3. Cardinality(Responses(n.outbox[s], r)) \in Nat
              BY <4>1, ResponsesFinite
            <6> QED BY <5>2, <6>2, <6>3
          <5> QED BY <5>1, <5>2
        <4> QED BY <4>2 DEF Count
      <3> QED BY <3>1 DEF TextOf, ObservationsOf, SemanticsOf, Serving, Held, Moved
    <2>2. Settled(n2, A, H)
      BY <1>3, <2>1 DEF Fine, Settled, SettledAt, AtMostOne, Waiting
    <2>3. NoneSucceeded(n2, X)
      BY <1>3, <1>4 DEF Fine
    <2>4. NoneCan(n2, X)
      BY <1>3, <2>1 DEF Fine, NoneCan
    <2> QED BY <2>2, <2>3, <2>4 DEF Fine
  <1> QED BY <1>1, <1>2, <1>3, <1>4 DEF Leads, Silent

LEMMA CloseLinkFacts ==
    ASSUME NEW n, NEW s \in Sessions, Shaped(n)
    PROVE  LET n2 == CloseLink(n, s) IN
           /\ Leads(n, n2)
           /\ ~ Held(n2, s)
           /\ n2.agents = n.agents
           /\ n2.observations = n.observations /\ n2.semantics = n.semantics /\ n2.text = n.text
  <1> DEFINE n2 == CloseLink(n, s)
  <1>1. CASE ~ Held(n, s)
    BY <1>1, LeadsRefl DEF CloseLink
  <1>2. CASE Held(n, s)
    <2>1. /\ Fields \subseteq DOMAIN n2 /\ n2.agents = n.agents /\ n2.consent = n.consent
          /\ n2.text = n.text /\ n2.observations = n.observations /\ n2.semantics = n.semantics
          /\ n2.link = [n.link EXCEPT ![s] = "ending"]
          /\ n2.outbox = [n.outbox EXCEPT ![s] =
                IF HasRoom(n, s) THEN Append(@, [frame |-> "goodbye"]) ELSE @]
      BY <1>2 DEF CloseLink, Shaped, Fields
    <2>2. AgentsOK(n2.agents)
      BY <2>1 DEF Shaped, AgentsOK
    <2>3. /\ DOMAIN n2.link = Sessions /\ DOMAIN n2.outbox = Sessions
          /\ \A t \in Sessions : Moved(n.link[t], n2.link[t])
          /\ \A t \in Sessions : \/ n2.outbox[t] = n.outbox[t]
                                 \/ n2.outbox[t] = Append(n.outbox[t], [frame |-> "goodbye"])
          /\ ~ Held(n2, s)
      BY <1>2, <2>1 DEF Shaped, Held, Moved
    <2>4. \A t \in Sessions :
             \/ n2.outbox[t] = n.outbox[t]
             \/ \E x : x.frame # "response" /\ n2.outbox[t] = Append(n.outbox[t], x)
      BY <2>3
    <2> HIDE DEF n2
    <2>5. Leads(n, n2)
      BY <2>1, <2>2, <2>3, <2>4, PutLeads
    <2> QED BY <2>1, <2>3, <2>5 DEF n2
  <1> QED BY <1>1, <1>2

\* What sending does to the transport.
Sent(n, n2, s, frame) ==
    /\ Fields \subseteq DOMAIN n2 /\ n2.agents = n.agents /\ n2.consent = n.consent
    /\ n2.text = n.text /\ n2.observations = n.observations /\ n2.semantics = n.semantics
    /\ DOMAIN n2.link = Sessions /\ DOMAIN n2.outbox = Sessions
    /\ \A t \in Sessions : t # s => n2.link[t] = n.link[t] /\ n2.outbox[t] = n.outbox[t]
    /\ \/ /\ ~ Held(n, s) /\ n2.link[s] = n.link[s] /\ n2.outbox[s] = n.outbox[s]
       \/ /\ Held(n, s) /\ n2.link[s] = n.link[s]
          /\ n2.outbox[s] = Append(n.outbox[s], frame)
       \/ /\ Held(n, s) /\ n2.link[s] = "ending" /\ n2.outbox[s] = n.outbox[s]

LEMMA SendFacts ==
    ASSUME NEW n, NEW s \in Sessions, NEW frame, Shaped(n)
    PROVE  Sent(n, Send(n, s, frame), s, frame)
  <1> DEFINE n2 == Send(n, s, frame)
  <1>1. CASE ~ Held(n, s)
    BY <1>1 DEF Sent, Send, Shaped
  <1>2. CASE Held(n, s) /\ HasRoom(n, s)
    BY <1>2 DEF Sent, Send, Shaped, Fields
  <1>3. CASE Held(n, s) /\ ~ HasRoom(n, s)
    BY <1>3 DEF Sent, Send, CloseLink, Shaped, Fields
  <1> QED BY <1>1, <1>2, <1>3

LEMMA SendLeads ==
    ASSUME NEW n, NEW s \in Sessions, NEW frame, Shaped(n), frame.frame # "response"
    PROVE  Leads(n, Send(n, s, frame))
  <1> DEFINE n2 == Send(n, s, frame)
  <1>0. Sent(n, n2, s, frame)
    BY SendFacts
  <1> HIDE DEF n2
  <1>1. AgentsOK(n2.agents)
    BY <1>0 DEF Sent, Shaped, AgentsOK
  <1>2. \A t \in Sessions : Moved(n.link[t], n2.link[t])
    BY <1>0 DEF Sent, Held, Moved
  <1>3. \A t \in Sessions : \/ n2.outbox[t] = n.outbox[t]
                            \/ \E x : x.frame # "response" /\ n2.outbox[t] = Append(n.outbox[t], x)
    BY <1>0 DEF Sent
  <1>4. Leads(n, n2)
    BY <1>0, <1>1, <1>2, <1>3, PutLeads DEF Sent
  <1> QED BY <1>4 DEF n2

(* ---- Answers ---- *)
\* A request has been taken from what is pending, to be answered.
Owed(n, A, H, X, s, r) ==
    /\ \A t \in Sessions, q \in Requests : <<t, q>> # <<s, r>> => SettledAt(n, A, H, t, q)
    /\ ~ Waiting(n, s, r) /\ Count(n, H, s, r) = 0 /\ r \in A[s]
    /\ Serving(n, s) => Held(n, s)
    /\ NoneSucceeded(n, X) /\ NoneCan(n, X)

LEMMA RespondShaped ==
    ASSUME NEW n, NEW s \in Sessions, NEW r, NEW outcome, Shaped(n)
    PROVE  LET n2 == Respond(n, s, r, outcome) IN
           /\ Shaped(n2) /\ Follows(n, n2)
           /\ n2.agents = n.agents
           /\ n2.text = n.text /\ n2.observations = n.observations /\ n2.semantics = n.semantics
           /\ outcome # "ok" => Silent(n, n2)
  <1> DEFINE frame == [frame |-> "response", request |-> r, outcome |-> outcome]
             n2 == Send(n, s, frame)
  <1>0. Sent(n, n2, s, frame)
    BY SendFacts
  <1> HIDE DEF n2
  <1>1. \A t \in Sessions : Frames(n2.outbox[t])
    <2>1. \A t \in Sessions : n2.outbox[t] = n.outbox[t] \/ n2.outbox[t] = Append(n.outbox[t], frame)
      BY <1>0 DEF Sent
    <2>2. \A t \in Sessions : Frames(n.outbox[t]) /\ Frames(Append(n.outbox[t], frame))
      <3> HIDE DEF frame
      <3>1. \A t \in Sessions : Frames(n.outbox[t])
        BY DEF Shaped
      <3>2. \A t \in Sessions : Frames(Append(n.outbox[t], frame))
        BY <3>1, AppendFacts
      <3> QED BY <3>1, <3>2
    <2> HIDE DEF frame
    <2> QED BY <2>1, <2>2
  <1>2. Shaped(n2)
    <2> HIDE DEF frame
    <2> QED BY <1>1, <1>0 DEF Sent, Shaped
  <1>3. Follows(n, n2)
    <2> HIDE DEF frame
    <2> QED BY <1>0 DEF Sent, Follows, Derived, Held, Moved
  <1>4. /\ n2.agents = n.agents
        /\ n2.text = n.text /\ n2.observations = n.observations /\ n2.semantics = n.semantics
    <2> HIDE DEF frame
    <2> QED BY <1>0 DEF Sent
  <1>5. outcome # "ok" => Silent(n, n2)
    <2> SUFFICES ASSUME outcome # "ok", NEW X, NoneSucceeded(n, X),
                        NEW t \in Sessions, NEW i \in DOMAIN n2.outbox[t],
                        n2.outbox[t][i].frame = "response", n2.outbox[t][i].outcome = "ok"
                 PROVE  Request(t, n2.outbox[t][i].request) \notin X
      BY DEF Silent, NoneSucceeded
    <2>0. frame.outcome # "ok"
      OBVIOUS
    <2> HIDE DEF frame
    <2>1. n2.outbox[t] = n.outbox[t] \/ n2.outbox[t] = Append(n.outbox[t], frame)
      BY <1>0 DEF Sent
    <2>2. Frames(n.outbox[t])
      BY DEF Shaped
    <2>3. \/ i \in DOMAIN n.outbox[t] /\ n2.outbox[t][i] = n.outbox[t][i]
          \/ n2.outbox[t][i] = frame
      BY <2>1, <2>2, AppendFacts
    <2> QED BY <2>0, <2>3 DEF NoneSucceeded
  <1> QED BY <1>2, <1>3, <1>4, <1>5 DEF Respond, n2

LEMMA RespondSettles ==
    ASSUME NEW n, NEW A, NEW H, NEW X, NEW s \in Sessions, NEW r \in Requests, NEW outcome,
           Shaped(n), HeardType(H), Owed(n, A, H, X, s, r),
           outcome = "ok" => Request(s, r) \notin X
    PROVE  Fine(Respond(n, s, r, outcome), A, H, X)
  <1> DEFINE frame == [frame |-> "response", request |-> r, outcome |-> outcome]
             n2 == Send(n, s, frame)
  <1>0. Sent(n, n2, s, frame)
    BY SendFacts
  <1> HIDE DEF n2
  <1>1. /\ frame.frame = "response" /\ frame.request = r /\ frame.outcome = outcome
        /\ \A q : IsAnswer(frame, q) <=> q = r
    BY DEF IsAnswer
  <1> HIDE DEF frame
  <1>2. \A t, q : /\ TextOf(n2, t, q) <=> TextOf(n, t, q)
                  /\ ObservationsOf(n2, t, q) = ObservationsOf(n, t, q)
                  /\ SemanticsOf(n2, t, q) = SemanticsOf(n, t, q)
    BY <1>0 DEF Sent, TextOf, ObservationsOf, SemanticsOf
  <1>3. \A t \in Sessions : /\ Serving(n2, t) => Serving(n, t)
                            /\ Serving(n2, t) /\ Held(n, t) => Held(n2, t)
    BY <1>0 DEF Sent, Serving, Held
  <1>4. ASSUME NEW t \in Sessions, NEW q \in Requests, <<t, q>> # <<s, r>>
        PROVE  SettledAt(n2, A, H, t, q)
    <2>1. n2.outbox[t] = n.outbox[t] \/ (t = s /\ n2.outbox[t] = Append(n.outbox[t], frame))
      BY <1>0 DEF Sent
    <2>2. Frames(n.outbox[t])
      BY DEF Shaped
    <2>3. t = s => q # r
      BY <1>4
    <2>4. Cardinality(Responses(n2.outbox[t], q)) = Cardinality(Responses(n.outbox[t], q))
      <3>1. CASE n2.outbox[t] = n.outbox[t]
        BY <3>1
      <3>2. CASE t = s /\ n2.outbox[t] = Append(n.outbox[t], frame)
        <4>1. ~ IsAnswer(frame, q)
          BY <1>1, <2>3, <3>2
        <4>2. Cardinality(Responses(Append(n.outbox[t], frame), q))
              = Cardinality(Responses(n.outbox[t], q)) + 0
          BY <2>2, <4>1, ResponsesAppend
        <4>3. Cardinality(Responses(n.outbox[t], q)) \in Nat
          BY <2>2, ResponsesFinite
        <4> QED BY <3>2, <4>2, <4>3
      <3> QED BY <2>1, <3>1, <3>2
    <2>5. Count(n2, H, t, q) = Count(n, H, t, q)
      BY <2>4 DEF Count
    <2>6. SettledAt(n, A, H, t, q)
      BY <1>4 DEF Owed
    <2> QED BY <1>2, <1>3, <2>5, <2>6 DEF SettledAt, AtMostOne, Waiting
  <1>5. SettledAt(n2, A, H, s, r)
    <2>1. Frames(n.outbox[s]) /\ H[s][r] \in Nat
      BY DEF Shaped, HeardType
    <2>2. CASE n2.outbox[s] = Append(n.outbox[s], frame)
      <3>1. Cardinality(Responses(n2.outbox[s], r)) = Cardinality(Responses(n.outbox[s], r)) + 1
        <4> QED BY <1>1, <2>1, <2>2, ResponsesAppend
      <3>2. Cardinality(Responses(n.outbox[s], r)) \in Nat
        BY <2>1, ResponsesFinite
      <3>3. Count(n2, H, s, r) = 1
        <4> QED BY <3>1, <3>2, <2>1 DEF Owed, Count
      <3> QED BY <1>2, <1>3, <3>3 DEF Owed, SettledAt, AtMostOne, Waiting
    <2>3. CASE n2.outbox[s] # Append(n.outbox[s], frame)
      <3>1. n2.outbox[s] = n.outbox[s] /\ ~ Serving(n2, s)
        <4>1. CASE Held(n, s)
          BY <2>3, <4>1, <1>0 DEF Sent, Serving
        <4>2. CASE ~ Held(n, s)
          BY <4>2, <1>0 DEF Sent, Owed, Serving
        <4> QED BY <4>1, <4>2
      <3>2. Count(n2, H, s, r) = 0
        BY <3>1 DEF Owed, Count
      <3> QED BY <1>2, <3>1, <3>2 DEF Owed, SettledAt, AtMostOne, Waiting
    <2> QED BY <2>2, <2>3
  <1>6. NoneSucceeded(n2, X)
    <2> SUFFICES ASSUME NEW t \in Sessions, NEW i \in DOMAIN n2.outbox[t],
                        n2.outbox[t][i].frame = "response", n2.outbox[t][i].outcome = "ok"
                 PROVE  Request(t, n2.outbox[t][i].request) \notin X
      BY DEF NoneSucceeded
    <2>1. n2.outbox[t] = n.outbox[t] \/ (t = s /\ n2.outbox[t] = Append(n.outbox[t], frame))
      BY <1>0 DEF Sent
    <2>2. Frames(n.outbox[t])
      BY DEF Shaped
    <2>3. \/ i \in DOMAIN n.outbox[t] /\ n2.outbox[t][i] = n.outbox[t][i]
          \/ t = s /\ n2.outbox[t][i] = frame
      BY <2>1, <2>2, AppendFacts
    <2> QED BY <2>3, <1>1 DEF Owed, NoneSucceeded
  <1>7. NoneCan(n2, X)
    <2> QED BY <1>2 DEF Owed, NoneCan
  <1>8. Settled(n2, A, H)
    BY <1>4, <1>5 DEF Settled
  <1> QED BY <1>6, <1>7, <1>8 DEF Fine, Respond, n2, frame

\* What waited for a request is taken away: its answer is owed.
LEMMA TakeObservation ==
    ASSUME NEW n, NEW n2, NEW A, NEW H, NEW X, NEW p \in n.observations,
           Shaped(n), Fine(n, A, H, X),
           n2.text = n.text, n2.observations = n.observations \ {p}, n2.semantics = n.semantics,
           n2.link = n.link, n2.outbox = n.outbox
    PROVE  /\ Owed(n2, A, H, X, p.session, p.request)
           /\ Request(p.session, p.request) \notin X
  <1> DEFINE s == p.session
             r == p.request
  <1>1. s \in Sessions /\ r \in Requests
    BY DEF Shaped, Asks
  <1>2. SettledAt(n, A, H, s, r)
    BY <1>1 DEF Fine, Settled
  <1>3. p \in ObservationsOf(n, s, r)
    BY DEF ObservationsOf
  <1>4. /\ ObservationsOf(n2, s, r) = {} /\ SemanticsOf(n2, s, r) = {} /\ ~ TextOf(n2, s, r)
        /\ Count(n, H, s, r) = 0 /\ r \in A[s]
        /\ Serving(n, s) => Held(n, s)
    <2>1. \A q \in ObservationsOf(n, s, r) : q = p
      BY <1>2, <1>3 DEF SettledAt, AtMostOne
    <2>2. ObservationsOf(n2, s, r) = {}
      BY <2>1 DEF ObservationsOf
    <2> QED BY <1>2, <1>3, <2>2 DEF SettledAt, AtMostOne, Waiting, TextOf, SemanticsOf
  <1>5. ASSUME NEW t \in Sessions, NEW q \in Requests, <<t, q>> # <<s, r>>
        PROVE  SettledAt(n2, A, H, t, q)
    <2>1. ObservationsOf(n2, t, q) = ObservationsOf(n, t, q)
      BY <1>5 DEF ObservationsOf
    <2>2. SettledAt(n, A, H, t, q)
      BY DEF Fine, Settled
    <2> QED BY <2>1, <2>2 DEF SettledAt, AtMostOne, Waiting, TextOf, SemanticsOf, Count, Serving, Held
  <1>6. NoneSucceeded(n2, X)
    BY DEF Fine, NoneSucceeded
  <1>7. NoneCan(n2, X)
    BY DEF Fine, NoneCan, TextOf, ObservationsOf, SemanticsOf
  <1>8. Request(s, r) \notin X
    BY <1>1, <1>3 DEF Fine, NoneCan
  <1> QED BY <1>4, <1>5, <1>6, <1>7, <1>8 DEF Owed, Waiting, Count, Serving, Held

LEMMA TakeSemantic ==
    ASSUME NEW n, NEW n2, NEW A, NEW H, NEW X, NEW p \in n.semantics,
           Shaped(n), Fine(n, A, H, X),
           n2.text = n.text, n2.observations = n.observations, n2.semantics = n.semantics \ {p},
           n2.link = n.link, n2.outbox = n.outbox
    PROVE  /\ Owed(n2, A, H, X, p.session, p.request)
           /\ Request(p.session, p.request) \in X => p.cancelled
  <1> DEFINE s == p.session
             r == p.request
  <1>1. s \in Sessions /\ r \in Requests
    BY DEF Shaped, Asks
  <1>2. SettledAt(n, A, H, s, r)
    BY <1>1 DEF Fine, Settled
  <1>3. p \in SemanticsOf(n, s, r)
    BY DEF SemanticsOf
  <1>4. /\ ObservationsOf(n2, s, r) = {} /\ SemanticsOf(n2, s, r) = {} /\ ~ TextOf(n2, s, r)
        /\ Count(n, H, s, r) = 0 /\ r \in A[s]
        /\ Serving(n, s) => Held(n, s)
    <2>1. \A q \in SemanticsOf(n, s, r) : q = p
      BY <1>2, <1>3 DEF SettledAt, AtMostOne
    <2>2. SemanticsOf(n2, s, r) = {}
      BY <2>1 DEF SemanticsOf
    <2> QED BY <1>2, <1>3, <2>2 DEF SettledAt, AtMostOne, Waiting, TextOf, ObservationsOf
  <1>5. ASSUME NEW t \in Sessions, NEW q \in Requests, <<t, q>> # <<s, r>>
        PROVE  SettledAt(n2, A, H, t, q)
    <2>1. SemanticsOf(n2, t, q) = SemanticsOf(n, t, q)
      BY <1>5 DEF SemanticsOf
    <2>2. SettledAt(n, A, H, t, q)
      BY DEF Fine, Settled
    <2> QED BY <2>1, <2>2
            DEF SettledAt, AtMostOne, Waiting, TextOf, ObservationsOf, Count, Serving, Held
  <1>6. NoneSucceeded(n2, X)
    BY DEF Fine, NoneSucceeded
  <1>7. NoneCan(n2, X)
    BY DEF Fine, NoneCan, TextOf, ObservationsOf, SemanticsOf
  <1>8. Request(s, r) \in X => p.cancelled
    BY <1>1, <1>3 DEF Fine, NoneCan
  <1> QED BY <1>4, <1>5, <1>6, <1>7, <1>8 DEF Owed, Waiting, Count, Serving, Held

LEMMA TakeText ==
    ASSUME NEW n, NEW n2, NEW A, NEW H, NEW X, n.text.on,
           Shaped(n), Fine(n, A, H, X),
           n2.text = NoText, n2.observations = n.observations, n2.semantics = n.semantics,
           n2.link = n.link, n2.outbox = n.outbox
    PROVE  /\ Owed(n2, A, H, X, n.text.session, n.text.request)
           /\ Request(n.text.session, n.text.request) \notin X
  <1> DEFINE s == n.text.session
             r == n.text.request
  <1>1. s \in Sessions /\ r \in Requests
    BY DEF Shaped, Asks
  <1>2. SettledAt(n, A, H, s, r)
    BY <1>1 DEF Fine, Settled
  <1>3. TextOf(n, s, r) /\ \A t, q : ~ TextOf(n2, t, q)
    BY DEF TextOf, NoText
  <1>4. /\ ObservationsOf(n2, s, r) = {} /\ SemanticsOf(n2, s, r) = {}
        /\ Count(n, H, s, r) = 0 /\ r \in A[s]
        /\ Serving(n, s) => Held(n, s)
    BY <1>2, <1>3 DEF SettledAt, AtMostOne, Waiting, ObservationsOf, SemanticsOf
  <1>5. ASSUME NEW t \in Sessions, NEW q \in Requests, <<t, q>> # <<s, r>>
        PROVE  SettledAt(n2, A, H, t, q)
    <2>1. ~ TextOf(n, t, q)
      BY <1>5 DEF TextOf
    <2>2. SettledAt(n, A, H, t, q)
      BY DEF Fine, Settled
    <2> QED BY <1>3, <2>1, <2>2
            DEF SettledAt, AtMostOne, Waiting, ObservationsOf, SemanticsOf, Count, Serving, Held
  <1>6. NoneSucceeded(n2, X)
    BY DEF Fine, NoneSucceeded
  <1>7. NoneCan(n2, X)
    BY <1>3 DEF Fine, NoneCan, ObservationsOf, SemanticsOf
  <1>8. Request(s, r) \notin X
    BY <1>1, <1>3 DEF Fine, NoneCan
  <1> QED BY <1>3, <1>4, <1>5, <1>6, <1>7, <1>8 DEF Owed, Waiting, Count, Serving, Held

(* ---- Work that fails is answered ---- *)
LEMMA FinishTextErrorFacts ==
    ASSUME NEW n, Shaped(n), n.text.on
    PROVE  LET n2 == FinishTextError(n) IN
           /\ Leads(n, n2)
           /\ n2.text = NoText /\ n2.agents = n.agents
           /\ n2.observations = n.observations /\ n2.semantics = n.semantics
  <1> DEFINE s == n.text.session
             r == n.text.request
             n1 == [n EXCEPT !.text = NoText, !.clipboard = @ /\ ~ n.text.offered]
             n2 == Respond(n1, s, r, "error")
  <1>1. s \in Sessions /\ r \in Requests
    BY DEF Shaped, Asks
  <1>2. /\ n1.text = NoText /\ n1.observations = n.observations /\ n1.semantics = n.semantics
        /\ n1.link = n.link /\ n1.outbox = n.outbox /\ n1.agents = n.agents
        /\ n1.consent = n.consent
        /\ Fields \subseteq DOMAIN n1
    BY DEF Shaped, Fields
  <1> HIDE DEF n1
  <1>3. Shaped(n1) /\ Follows(n, n1)
    BY <1>2 DEF Shaped, Follows, Derived, Moved, NoText
  <1>4. /\ Shaped(n2) /\ Follows(n1, n2) /\ n2.agents = n1.agents
        /\ n2.text = n1.text /\ n2.observations = n1.observations /\ n2.semantics = n1.semantics
        /\ Silent(n1, n2)
    BY <1>1, <1>3, RespondShaped
  <1>5. ASSUME NEW A, NEW H, NEW X, HeardType(H), Fine(n, A, H, X) PROVE Fine(n2, A, H, X)
    <2>1. Owed(n1, A, H, X, s, r)
      BY <1>2, <1>5, TakeText
    <2> QED BY <1>1, <1>3, <1>5, <2>1, RespondSettles
  <1> HIDE DEF n2
  <1>6. Follows(n, n2)
    BY <1>2, <1>3, <1>4 DEF Follows, Moved
  <1>7. Silent(n, n2)
    BY <1>2, <1>4 DEF Silent, NoneSucceeded
  <1> QED BY <1>2, <1>4, <1>5, <1>6, <1>7 DEF Leads, FinishTextError, n2, n1

LEMMA FailTextFacts ==
    ASSUME NEW n, Shaped(n), NEW s
    PROVE  LET n2 == FailText(n, s) IN
           /\ Leads(n, n2)
           /\ ~ (n2.text.on /\ n2.text.session = s) /\ n2.agents = n.agents
           /\ n2.observations = n.observations /\ n2.semantics = n.semantics
  BY FinishTextErrorFacts, LeadsRefl DEF FailText, NoText

LEMMA FailObservationFacts ==
    ASSUME NEW n, Shaped(n), NEW p \in n.observations
    PROVE  LET n2 == FailObservation(n, p) IN
           /\ Leads(n, n2)
           /\ n2.text = n.text /\ n2.agents = n.agents
           /\ n2.observations = n.observations \ {p} /\ n2.semantics = n.semantics
  <1> DEFINE s == p.session
             r == p.request
             n1 == [n EXCEPT !.observations = @ \ {p}]
             n2 == Respond(n1, s, r, "error")
  <1>1. s \in Sessions /\ r \in Requests
    BY DEF Shaped, Asks
  <1>2. /\ n1.text = n.text /\ n1.observations = n.observations \ {p} /\ n1.semantics = n.semantics
        /\ n1.link = n.link /\ n1.outbox = n.outbox /\ n1.agents = n.agents
        /\ n1.consent = n.consent
        /\ Fields \subseteq DOMAIN n1
    BY DEF Shaped, Fields
  <1> HIDE DEF n1
  <1>3. Shaped(n1) /\ Follows(n, n1)
    <2>1. IsFiniteSet(n1.observations)
      BY <1>2, FS_Subset DEF Shaped
    <2> QED BY <1>2, <2>1 DEF Shaped, Follows, Derived, Moved
  <1>4. /\ Shaped(n2) /\ Follows(n1, n2) /\ n2.agents = n1.agents
        /\ n2.text = n1.text /\ n2.observations = n1.observations /\ n2.semantics = n1.semantics
        /\ Silent(n1, n2)
    BY <1>1, <1>3, RespondShaped
  <1>5. ASSUME NEW A, NEW H, NEW X, HeardType(H), Fine(n, A, H, X) PROVE Fine(n2, A, H, X)
    <2>1. Owed(n1, A, H, X, s, r)
      BY <1>2, <1>5, TakeObservation
    <2> QED BY <1>1, <1>3, <1>5, <2>1, RespondSettles
  <1> HIDE DEF n2
  <1>6. Follows(n, n2)
    BY <1>2, <1>3, <1>4 DEF Follows, Moved
  <1>7. Silent(n, n2)
    BY <1>2, <1>4 DEF Silent, NoneSucceeded
  <1> QED BY <1>2, <1>4, <1>5, <1>6, <1>7 DEF Leads, FailObservation, n2, n1

LEMMA FailSemanticFacts ==
    ASSUME NEW n, Shaped(n), NEW p \in n.semantics
    PROVE  LET n2 == FailSemantic(n, p) IN
           /\ Leads(n, n2)
           /\ n2.text = n.text /\ n2.agents = n.agents
           /\ n2.observations = n.observations /\ n2.semantics = n.semantics \ {p}
  <1> DEFINE s == p.session
             r == p.request
             n1 == [n EXCEPT !.semantics = @ \ {p}]
             n2 == Respond(n1, s, r, "error")
  <1>1. s \in Sessions /\ r \in Requests
    BY DEF Shaped, Asks
  <1>2. /\ n1.text = n.text /\ n1.observations = n.observations /\ n1.semantics = n.semantics \ {p}
        /\ n1.link = n.link /\ n1.outbox = n.outbox /\ n1.agents = n.agents
        /\ n1.consent = n.consent
        /\ Fields \subseteq DOMAIN n1
    BY DEF Shaped, Fields
  <1> HIDE DEF n1
  <1>3. Shaped(n1) /\ Follows(n, n1)
    <2>1. IsFiniteSet(n1.semantics)
      BY <1>2, FS_Subset DEF Shaped
    <2> QED BY <1>2, <2>1 DEF Shaped, Follows, Derived, Moved
  <1>4. /\ Shaped(n2) /\ Follows(n1, n2) /\ n2.agents = n1.agents
        /\ n2.text = n1.text /\ n2.observations = n1.observations /\ n2.semantics = n1.semantics
        /\ Silent(n1, n2)
    BY <1>1, <1>3, RespondShaped
  <1>5. ASSUME NEW A, NEW H, NEW X, HeardType(H), Fine(n, A, H, X) PROVE Fine(n2, A, H, X)
    <2>1. Owed(n1, A, H, X, s, r)
      BY <1>2, <1>5, TakeSemantic
    <2> QED BY <1>1, <1>3, <1>5, <2>1, RespondSettles
  <1> HIDE DEF n2
  <1>6. Follows(n, n2)
    BY <1>2, <1>3, <1>4 DEF Follows, Moved, Derived
  <1>7. Silent(n, n2)
    BY <1>2, <1>4 DEF Silent, NoneSucceeded
  <1> QED BY <1>2, <1>4, <1>5, <1>6, <1>7 DEF Leads, FailSemantic, n2, n1

\* All of them, one after the other.
FailedObservations(n0, T, n) ==
    /\ Leads(n0, n)
    /\ n.text = n0.text /\ n.agents = n0.agents
    /\ n.observations = n0.observations \ T /\ n.semantics = n0.semantics

Watching ==
    INSTANCE FoldFacts WITH
        Op <- LAMBDA n0, pending, n : FailObservation(n, pending),
        Pick <- LAMBDA T : CHOOSE pending \in T : TRUE,
        Holds <- FailedObservations

LEMMA FailObservationsKeeps ==
    ASSUME NEW n, Shaped(n), NEW S \in SUBSET n.observations
    PROVE  FailedObservations(n, S, Watching!Fold(n, n, S))
  <1>1. Watching!IsFiniteSet(S)
    <2>1. IsFiniteSet(S)
      BY FS_Subset DEF Shaped
    <2> QED BY <2>1 DEF IsFiniteSet, Watching!IsFiniteSet
  <1>2. Watching!Picks(S)
    BY DEF Watching!Picks
  <1>3. FailedObservations(n, {}, n)
    BY LeadsRefl DEF FailedObservations
  <1>4. ASSUME NEW T \in SUBSET S, NEW k, NEW p \in T, FailedObservations(n, T \ {p}, k)
        PROVE  FailedObservations(n, T, FailObservation(k, p))
    <2>1. Shaped(k) /\ p \in k.observations
      BY <1>4 DEF FailedObservations, Leads
    <2> DEFINE k2 == FailObservation(k, p)
    <2>2. /\ Leads(k, k2) /\ k2.text = k.text /\ k2.agents = k.agents
          /\ k2.observations = k.observations \ {p} /\ k2.semantics = k.semantics
      BY <2>1, FailObservationFacts
    <2> HIDE DEF k2
    <2>3. Leads(n, k2)
      BY <1>4, <2>2, LeadsTrans DEF FailedObservations
    <2>4. FailedObservations(n, T, k2)
      BY <1>4, <2>2, <2>3 DEF FailedObservations
    <2> QED BY <2>4 DEF k2
  <1>5. \A T \in SUBSET S : \A k :
           LET p == CHOOSE pending \in T : TRUE IN
           T # {} /\ FailedObservations(n, T \ {p}, k) => FailedObservations(n, T, FailObservation(k, p))
    BY <1>4
  <1> QED BY <1>1, <1>2, <1>3, <1>5, Watching!FoldKeeps

FailedSemantics(n0, T, n) ==
    /\ Leads(n0, n)
    /\ n.text = n0.text /\ n.agents = n0.agents
    /\ n.observations = n0.observations /\ n.semantics = n0.semantics \ T

Querying ==
    INSTANCE FoldFacts WITH
        Op <- LAMBDA n0, pending, n : FailSemantic(n, pending),
        Pick <- LAMBDA T : CHOOSE pending \in T : TRUE,
        Holds <- FailedSemantics

LEMMA FailSemanticsKeeps ==
    ASSUME NEW n, Shaped(n), NEW S \in SUBSET n.semantics
    PROVE  FailedSemantics(n, S, Querying!Fold(n, n, S))
  <1>1. Querying!IsFiniteSet(S)
    <2>1. IsFiniteSet(S)
      BY FS_Subset DEF Shaped
    <2> QED BY <2>1 DEF IsFiniteSet, Querying!IsFiniteSet
  <1>2. Querying!Picks(S)
    BY DEF Querying!Picks
  <1>3. FailedSemantics(n, {}, n)
    BY LeadsRefl DEF FailedSemantics
  <1>4. ASSUME NEW T \in SUBSET S, NEW k, NEW p \in T, FailedSemantics(n, T \ {p}, k)
        PROVE  FailedSemantics(n, T, FailSemantic(k, p))
    <2>1. Shaped(k) /\ p \in k.semantics
      BY <1>4 DEF FailedSemantics, Leads
    <2> DEFINE k2 == FailSemantic(k, p)
    <2>2. /\ Leads(k, k2) /\ k2.text = k.text /\ k2.agents = k.agents
          /\ k2.observations = k.observations /\ k2.semantics = k.semantics \ {p}
      BY <2>1, FailSemanticFacts
    <2> HIDE DEF k2
    <2>3. Leads(n, k2)
      BY <1>4, <2>2, LeadsTrans DEF FailedSemantics
    <2>4. FailedSemantics(n, T, k2)
      BY <1>4, <2>2, <2>3 DEF FailedSemantics
    <2> QED BY <2>4 DEF k2
  <1>5. \A T \in SUBSET S : \A k :
           LET p == CHOOSE pending \in T : TRUE IN
           T # {} /\ FailedSemantics(n, T \ {p}, k) => FailedSemantics(n, T, FailSemantic(k, p))
    BY <1>4
  <1> QED BY <1>1, <1>2, <1>3, <1>5, Querying!FoldKeeps

NothingOf(n, s) ==
    /\ ~ (n.text.on /\ n.text.session = s)
    /\ OfSession(n.observations, s) = {} /\ OfSession(n.semantics, s) = {}

LEMMA FailWorkFacts ==
    ASSUME NEW n, Shaped(n), NEW s
    PROVE  /\ Leads(n, FailWork(n, s)) /\ FailWork(n, s).agents = n.agents
           /\ NothingOf(FailWork(n, s), s)
  <1> DEFINE n1 == FailText(n, s)
             S == OfSession(n1.observations, s)
             n2 == Watching!Fold(n1, n1, S)
             Q == OfSession(n2.semantics, s)
             n3 == Querying!Fold(n2, n2, Q)
  <1>1. Leads(n, n1) /\ ~ (n1.text.on /\ n1.text.session = s) /\ n1.agents = n.agents
    BY FailTextFacts
  <1>2. FailObservations(n1, s) = n2
    BY DEF FailObservations, FoldSet, MapThenFoldSet, Watching!Fold
  <1> HIDE DEF n1
  <1>3. S \in SUBSET n1.observations
    BY DEF OfSession
  <1>4. FailedObservations(n1, S, n2)
    BY <1>1, <1>3, FailObservationsKeeps DEF Leads
  <1>5. FailSemantics(n2, s) = n3
    BY DEF FailSemantics, FoldSet, MapThenFoldSet, Querying!Fold
  <1> HIDE DEF n2
  <1>6. Q \in SUBSET n2.semantics
    BY DEF OfSession
  <1>7. FailedSemantics(n2, Q, n3)
    BY <1>4, <1>6, FailSemanticsKeeps DEF Leads, FailedObservations
  <1> HIDE DEF n3
  <1>8. Leads(n, n3)
    BY <1>1, <1>4, <1>7, LeadsTrans DEF FailedObservations, FailedSemantics
  <1>9. NothingOf(n3, s) /\ n3.agents = n.agents
    BY <1>1, <1>4, <1>7 DEF FailedObservations, FailedSemantics, NothingOf, OfSession
  <1>10. FailWork(n, s) = n3
    BY <1>2, <1>5 DEF FailWork, n1
  <1> QED BY <1>8, <1>9, <1>10

\* What fails for some stays so for all.
LEMMA NothingStays ==
    ASSUME NEW n, NEW n2, Leads(n, n2), NEW s, NothingOf(n, s)
    PROVE  NothingOf(n2, s)
  BY DEF Leads, Follows, NothingOf, OfSession, Derived, NoText

FailedWork(n0, T, n) ==
    /\ Leads(n0, n) /\ n.agents = n0.agents
    /\ \A s \in T : NothingOf(n, s)

Working ==
    INSTANCE FoldFacts WITH
        Op <- LAMBDA n0, s, n : FailWork(n, s),
        Pick <- LAMBDA T : CHOOSE s \in T : TRUE,
        Holds <- FailedWork

LEMMA FailAllWorkFacts ==
    ASSUME NEW n, Shaped(n), NEW S, IsFiniteSet(S)
    PROVE  FailedWork(n, S, FailAllWork(n, S))
  <1>1. Working!IsFiniteSet(S)
    BY DEF IsFiniteSet, Working!IsFiniteSet
  <1>2. Working!Picks(S)
    BY DEF Working!Picks
  <1>3. FailedWork(n, {}, n)
    BY LeadsRefl DEF FailedWork
  <1>4. ASSUME NEW T \in SUBSET S, NEW k, NEW s \in T, FailedWork(n, T \ {s}, k)
        PROVE  FailedWork(n, T, FailWork(k, s))
    <2> DEFINE k2 == FailWork(k, s)
    <2>1. Leads(k, k2) /\ k2.agents = k.agents /\ NothingOf(k2, s)
      BY <1>4, FailWorkFacts DEF FailedWork, Leads
    <2> HIDE DEF k2
    <2>2. Leads(n, k2)
      BY <1>4, <2>1, LeadsTrans DEF FailedWork
    <2>3. \A t \in T : NothingOf(k2, t)
      BY <1>4, <2>1, NothingStays DEF FailedWork
    <2>4. FailedWork(n, T, k2)
      BY <1>4, <2>1, <2>2, <2>3 DEF FailedWork
    <2> QED BY <2>4 DEF k2
  <1>5. \A T \in SUBSET S : \A k :
           LET s == CHOOSE s \in T : TRUE IN
           T # {} /\ FailedWork(n, T \ {s}, k) => FailedWork(n, T, FailWork(k, s))
    BY <1>4
  <1>6. FailedWork(n, S, Working!Fold(n, n, S))
    BY <1>1, <1>2, <1>3, <1>5, Working!FoldKeeps
  <1>7. FailAllWork(n, S) = Working!Fold(n, n, S)
    BY DEF FailAllWork, FoldSet, MapThenFoldSet, Working!Fold
  <1> QED BY <1>6, <1>7

\* A person takes over: what was typed and watched has failed, what was asked is cancelled.
LEMMA InterruptWorkFacts ==
    ASSUME NEW n, Shaped(n)
    PROVE  LET n2 == InterruptWork(n) IN
           /\ Leads(n, n2) /\ n2.agents = n.agents
           /\ n2.text = NoText \/ ~ n2.text.on
           /\ n2.observations = {} /\ \A pending \in n2.semantics : pending.cancelled
  <1> DEFINE n1 == IF n.text.on THEN FinishTextError(n) ELSE n
             S == n1.observations
             n2 == Watching!Fold(n1, n1, S)
             n3 == [n2 EXCEPT !.semantics = {CancelSemantic(pending) : pending \in @}]
             g == [p \in n2.semantics |-> CancelSemantic(p)]
  <1>1. Leads(n, n1) /\ (n1.text = NoText \/ ~ n1.text.on) /\ n1.agents = n.agents
    BY FinishTextErrorFacts, LeadsRefl
  <1>2. InterruptWork(n) = n3
    BY DEF InterruptWork, FoldSet, MapThenFoldSet, Watching!Fold
  <1> HIDE DEF n1
  <1>3. FailedObservations(n1, S, n2)
    BY <1>1, FailObservationsKeeps DEF Leads
  <1> HIDE DEF n2
  <1>4. /\ Fields \subseteq DOMAIN n3 /\ n3.agents = n2.agents /\ n3.text = n2.text
        /\ n3.observations = n2.observations /\ n3.link = n2.link /\ n3.outbox = n2.outbox
        /\ n3.consent = n2.consent
        /\ n3.semantics = {CancelSemantic(pending) : pending \in n2.semantics}
    BY <1>3 DEF FailedObservations, Leads, Shaped, Fields
  <1>5. \A p \in n2.semantics : g[p] = CancelSemantic(p)
    OBVIOUS
  <1> HIDE DEF n3, g
  <1>6. n3.semantics = {g[p] : p \in n2.semantics}
    BY <1>4, <1>5
  <1>7. Leads(n2, n3)
    <2>1. Shaped(n2)
      BY <1>3 DEF FailedObservations, Leads
    <2>2. \A p \in n2.semantics : /\ Derived(g[p], p) /\ g[p].cancelled \in BOOLEAN
                                  /\ DOMAIN g[p] = DOMAIN p
      BY <1>5, <2>1, QueriesCancelled
    <2> QED BY <1>4, <1>6, <2>1, <2>2, QueriesLeads
  <1>8. Leads(n, n3)
    BY <1>1, <1>3, <1>7, LeadsTrans DEF FailedObservations
  <1>9. \A p \in n2.semantics : CancelSemantic(p).cancelled
    BY <1>3, CancelFacts DEF FailedObservations, Leads, Shaped
  <1>10. n3.observations = {}
    BY <1>3, <1>4 DEF FailedObservations
  <1>11. \A pending \in n3.semantics : pending.cancelled
    BY <1>4, <1>9
  <1>12. (n3.text = NoText \/ ~ n3.text.on) /\ n3.agents = n.agents
    BY <1>1, <1>3, <1>4 DEF FailedObservations
  <1> QED BY <1>2, <1>8, <1>10, <1>11, <1>12

(* ---- Events ---- *)
LEMMA CancelAboutLeads ==
    ASSUME NEW n, Shaped(n), NEW subject
    PROVE  LET n2 == CancelSemanticsAbout(n, subject) IN
           /\ Leads(n, n2) /\ n2.agents = n.agents
  <1> DEFINE n2 == CancelSemanticsAbout(n, subject)
             g == [p \in n.semantics |-> IF p.target = subject THEN CancelSemantic(p) ELSE p]
  <1>1. /\ Fields \subseteq DOMAIN n2 /\ n2.agents = n.agents /\ n2.text = n.text
        /\ n2.observations = n.observations /\ n2.link = n.link /\ n2.outbox = n.outbox
        /\ n2.consent = n.consent
        /\ n2.semantics = {IF pending.target = subject THEN CancelSemantic(pending) ELSE pending :
                               pending \in n.semantics}
    BY DEF CancelSemanticsAbout, Shaped, Fields
  <1>2. \A p \in n.semantics :
           /\ g[p] = IF p.target = subject THEN CancelSemantic(p) ELSE p
           /\ g[p] = p \/ g[p] = CancelSemantic(p)
    OBVIOUS
  <1> HIDE DEF n2, g
  <1>3. n2.semantics = {g[p] : p \in n.semantics}
    BY <1>1, <1>2
  <1>4. Leads(n, n2)
    <2>1. \A p \in n.semantics : /\ Derived(g[p], p) /\ g[p].cancelled \in BOOLEAN
                                 /\ DOMAIN g[p] = DOMAIN p
      BY <1>2, QueriesCancelled
    <2> QED BY <1>1, <1>3, <2>1, QueriesLeads
  <1> QED BY <1>1, <1>4 DEF n2

LEMMA PublishOK ==
    ASSUME NEW a, AgentsOK(a), NEW subject, NEW events
    PROVE  AgentsOK(TouchObservers(a, subject)) /\ AgentsOK(Publish(a, events))
  BY DEF AgentsOK, OpenSessions, TouchObservers, Publish

LEMMA EmitLeads ==
    ASSUME NEW n, Shaped(n), NEW kind, NEW subject, NEW event
    PROVE  Leads(n, Emit(n, kind, subject, event))
  <1> DEFINE touched == TouchObservers(n.agents, subject)
             told == [s \in Subscribers(touched, kind, subject) |-> event[s]]
             agents == Publish(touched, told)
             n1 == CancelSemanticsAbout(n, subject)
             n2 == [n1 EXCEPT !.agents = agents]
  <1>1. AgentsOK(agents)
    <2>1. AgentsOK(n.agents)
      BY DEF Shaped, AgentsOK
    <2> HIDE DEF told
    <2> QED BY <2>1, PublishOK
  <1>2. Leads(n, n1)
    BY CancelAboutLeads
  <1> HIDE DEF agents, n1
  <1>3. /\ Fields \subseteq DOMAIN n2 /\ n2.agents = agents /\ n2.text = n1.text
        /\ n2.observations = n1.observations /\ n2.link = n1.link /\ n2.outbox = n1.outbox
        /\ n2.semantics = n1.semantics /\ n2.consent = n1.consent
    BY <1>2 DEF Leads, Shaped, Fields
  <1>4. Emit(n, kind, subject, event) = n2
    BY DEF Emit, n1, agents
  <1> HIDE DEF n2
  <1>5. Leads(n1, n2)
    BY <1>1, <1>2, <1>3, QuietLeads DEF Leads, Shaped
  <1> QED BY <1>2, <1>4, <1>5, LeadsTrans

\* A step that changes other fields only.
LEMMA FieldLeads ==
    ASSUME NEW n, Shaped(n), NEW f \in {"shadow", "shownFocus", "shownWorkspace", "matchers",
                                         "consented", "desk", "focus", "clipboard"},
           NEW x
    PROVE  Leads(n, [n EXCEPT ![f] = x])
  <1> DEFINE n2 == [n EXCEPT ![f] = x]
  <1>1. /\ Fields \subseteq DOMAIN n2 /\ n2.agents = n.agents /\ n2.text = n.text
        /\ n2.observations = n.observations /\ n2.link = n.link /\ n2.outbox = n.outbox
        /\ n2.semantics = n.semantics /\ n2.consent = n.consent
    BY DEF Shaped, Fields
  <1> HIDE DEF n2
  <1>2. Leads(n, n2)
    BY <1>1, QuietLeads DEF Shaped, AgentsOK
  <1> QED BY <1>2 DEF n2

LEMMA AgentsLeads ==
    ASSUME NEW n, Shaped(n), NEW a, AgentsOK(a)
    PROVE  Leads(n, [n EXCEPT !.agents = a])
  <1> DEFINE n2 == [n EXCEPT !.agents = a]
  <1>1. /\ Fields \subseteq DOMAIN n2 /\ n2.agents = a /\ n2.text = n.text
        /\ n2.observations = n.observations /\ n2.link = n.link /\ n2.outbox = n.outbox
        /\ n2.semantics = n.semantics /\ n2.consent = n.consent
    BY DEF Shaped, Fields
  <1> HIDE DEF n2
  <1>2. Leads(n, n2)
    BY <1>1, QuietLeads DEF Shaped
  <1> QED BY <1>2 DEF n2

LEMMA RegisterLeads ==
    ASSUME NEW n, Shaped(n), NEW c
    PROVE  Leads(n, Register(n, c)) /\ Register(n, c).link = n.link
  <1> DEFINE a == ObserveClient(n.agents, c, Rule[n.desk[c].title], {s \in Sessions : c \in n.matchers[s]})
  <1>1. AgentsOK(a)
    BY DEF ObserveClient, Shaped, AgentsOK, OpenSessions
  <1>2. Register(n, c) = [n EXCEPT !.agents = a]
    BY DEF Register
  <1> HIDE DEF a
  <1>3. Register(n, c).link = n.link
    BY <1>2 DEF Shaped, Fields
  <1> QED BY <1>1, <1>2, <1>3, AgentsLeads

RegisteredFrom(n0, T, n) == Leads(n0, n) /\ n.link = n0.link

Registering ==
    INSTANCE FoldFacts WITH
        Op <- LAMBDA n0, c, n : Register(n, c),
        Pick <- LAMBDA T : CHOOSE c \in T : TRUE,
        Holds <- RegisteredFrom

LEMMA RegisterAllLeads ==
    ASSUME NEW n, Shaped(n)
    PROVE  Leads(n, RegisterAll(n)) /\ RegisterAll(n).link = n.link
  <1> DEFINE S == {c \in Clients : Managed(n, c)}
  <1>1. Registering!IsFiniteSet(S)
    <2>1. IsFiniteSet(S)
      BY FiniteAssumption, FS_Subset
    <2> QED BY <2>1 DEF IsFiniteSet, Registering!IsFiniteSet
  <1>2. Registering!Picks(S)
    BY DEF Registering!Picks
  <1>3. RegisteredFrom(n, {}, n)
    BY LeadsRefl DEF RegisteredFrom
  <1>4. \A T \in SUBSET S : \A k :
           LET c == CHOOSE c \in T : TRUE IN
           T # {} /\ RegisteredFrom(n, T \ {c}, k) => RegisteredFrom(n, T, Register(k, c))
    BY RegisterLeads, LeadsTrans DEF RegisteredFrom, Leads
  <1>5. RegisterAll(n) = Registering!Fold(n, n, S)
    BY DEF RegisterAll, FoldSet, MapThenFoldSet, Registering!Fold
  <1> HIDE DEF S
  <1>6. RegisteredFrom(n, S, Registering!Fold(n, n, S))
    BY <1>1, <1>2, <1>3, <1>4, Registering!FoldKeeps
  <1> QED BY <1>5, <1>6 DEF RegisteredFrom

LEMMA AnnounceLeads ==
    ASSUME NEW n, Shaped(n), NEW c, NEW kind, NEW value
    PROVE  Leads(n, Announce(n, c, kind, value))
  <1> DEFINE touched == [n EXCEPT !.agents = Touch(@, c)]
             event == [s \in OpenSessions(n.agents) |->
                          [kind |-> kind, client |-> c, value |-> value[s],
                           generation |-> Generation(touched.agents, c)]]
  <1>1. AgentsOK(Touch(n.agents, c))
    BY DEF Touch, Shaped, AgentsOK, OpenSessions
  <1>2. Leads(n, touched)
    BY <1>1, AgentsLeads
  <1>3. Announce(n, c, kind, value) = Emit(touched, kind, c, event)
    BY DEF Announce
  <1> HIDE DEF touched, event
  <1>4. Leads(touched, Emit(touched, kind, c, event))
    BY <1>2, EmitLeads DEF Leads
  <1> QED BY <1>2, <1>3, <1>4, LeadsTrans

\* Emitting after a step that leads.
LEMMA ThenEmitLeads ==
    ASSUME NEW n0, NEW n, Leads(n0, n), NEW kind, NEW subject, NEW event
    PROVE  Leads(n0, Emit(n, kind, subject, event))
  <1>1. Leads(n, Emit(n, kind, subject, event))
    BY EmitLeads DEF Leads
  <1> QED BY <1>1, LeadsTrans

LEMMA SyncMappedLeads ==
    ASSUME NEW n, Shaped(n), NEW c
    PROVE  Leads(n, SyncMapped(n, c))
  <1> DEFINE shown == [n EXCEPT !.shadow[c] = Live(n, c)]
             event == [s \in OpenSessions(n.agents) |->
                          [kind |-> "client_mapped", client |-> c, descriptor |-> Descriptor(n, s, c)]]
  <1>1. Leads(n, shown)
    BY FieldLeads
  <1>2. SyncMapped(n, c) = Emit(shown, "client_mapped", c, event)
    BY DEF SyncMapped
  <1> HIDE DEF shown, event
  <1> QED BY <1>1, <1>2, ThenEmitLeads

LEMMA SyncClosedLeads ==
    ASSUME NEW n, Shaped(n), NEW c
    PROVE  Leads(n, SyncClosed(n, c))
  <1> DEFINE hidden == [n EXCEPT !.shadow[c] = NoShadow]
             event == Everyone(n, [kind |-> "client_closed", client |-> c])
             told == Emit(hidden, "client_closed", c, event)
  <1>1. Leads(n, hidden)
    BY FieldLeads
  <1> HIDE DEF hidden, event
  <1>2. Leads(n, told)
    BY <1>1, ThenEmitLeads
  <1>3. SyncClosed(n, c) = [told EXCEPT !.agents = ForgetClient(@, c)]
    BY DEF SyncClosed, hidden, event
  <1> HIDE DEF told
  <1>4. AgentsOK(ForgetClient(told.agents, c))
    BY <1>2 DEF ForgetClient, Leads, Shaped, AgentsOK, OpenSessions
  <1>5. Leads(told, [told EXCEPT !.agents = ForgetClient(@, c)])
    BY <1>2, <1>4, AgentsLeads DEF Leads
  <1> QED BY <1>2, <1>3, <1>5, LeadsTrans

LEMMA SyncKnownLeads ==
    ASSUME NEW n, Shaped(n), NEW c
    PROVE  Leads(n, SyncKnown(n, c))
  <1> DEFINE live == Live(n, c)
             old == n.shadow[c]
             moved == ~ n.drag.on /\ old.place /= live.place
             known == IF old.title /= live.title THEN Register(n, c) ELSE n
             noted == [known EXCEPT !.shadow[c] = Shadowed(n, c, moved)]
             titles == [s \in OpenSessions(n.agents) |-> ReadableTitle(noted, s, c)]
             titled == IF old.title = live.title THEN noted
                       ELSE Announce(noted, c, "title_changed", titles)
             stated == IF old.state = live.state THEN titled
                       ELSE Announce(titled, c, "state_changed", Everyone(n, live.state))
             placed == IF ~ moved THEN stated
                       ELSE Announce(stated, c, "geometry_changed", Everyone(n, live.place))
  <1>1. Leads(n, known)
    BY RegisterLeads, LeadsRefl
  <1>2. SyncKnown(n, c) = placed
    BY DEF SyncKnown
  <1> HIDE DEF known
  <1>3. Leads(known, noted)
    BY <1>1, FieldLeads DEF Leads
  <1> HIDE DEF noted, titles
  <1>4. Leads(noted, titled)
    <2>1. Shaped(noted)
      BY <1>3 DEF Leads
    <2> HIDE DEF live, old
    <2> QED BY <2>1, AnnounceLeads, LeadsRefl
  <1> HIDE DEF titled
  <1>5. Leads(titled, stated)
    <2>1. Shaped(titled)
      BY <1>4 DEF Leads
    <2> HIDE DEF live, old
    <2> QED BY <2>1, AnnounceLeads, LeadsRefl
  <1> HIDE DEF stated
  <1>6. Leads(stated, placed)
    <2>1. Shaped(stated)
      BY <1>5 DEF Leads
    <2> HIDE DEF live, old, moved
    <2> QED BY <2>1, AnnounceLeads, LeadsRefl
  <1> HIDE DEF placed
  <1> QED BY <1>1, <1>2, <1>3, <1>4, <1>5, <1>6, LeadsTrans

LEMMA SyncClientLeads ==
    ASSUME NEW n, Shaped(n), NEW c
    PROVE  Leads(n, SyncClient(n, c))
  BY LeadsRefl, SyncKnownLeads, SyncMappedLeads DEF SyncClient

LEMMA SyncFocusLeads ==
    ASSUME NEW n, Shaped(n)
    PROVE  Leads(n, SyncFocus(n))
  <1> DEFINE shown == [n EXCEPT !.shownFocus = n.focus]
             event == [s \in OpenSessions(n.agents) |->
                          [kind |-> "focus_changed", client |-> SeenFocus(n, s)]]
  <1>1. Leads(n, shown)
    BY FieldLeads
  <1>2. SyncFocus(n) = n \/ SyncFocus(n) = Emit(shown, "focus_changed", NoClient, event)
    BY DEF SyncFocus
  <1> HIDE DEF shown, event
  <1> QED BY <1>1, <1>2, ThenEmitLeads, LeadsRefl

LEMMA SyncWorkspaceLeads ==
    ASSUME NEW n, Shaped(n)
    PROVE  Leads(n, SyncWorkspace(n))
  <1> DEFINE shown == [n EXCEPT !.shownWorkspace = n.current]
             event == Everyone(n, [kind |-> "workspace_switched", workspace |-> n.current])
  <1>1. Leads(n, shown)
    BY FieldLeads
  <1>2. SyncWorkspace(n) = n \/ SyncWorkspace(n) = Emit(shown, "workspace_switched", NoClient, event)
    BY DEF SyncWorkspace
  <1> HIDE DEF shown, event
  <1> QED BY <1>1, <1>2, ThenEmitLeads, LeadsRefl

LeadsFrom(n0, T, n) == Leads(n0, n)

Closing ==
    INSTANCE FoldFacts WITH
        Op <- LAMBDA n0, c, n : SyncClosed(n, c),
        Pick <- LAMBDA T : CHOOSE c \in T : TRUE,
        Holds <- LeadsFrom

Comparing ==
    INSTANCE FoldFacts WITH
        Op <- LAMBDA n0, c, n : SyncClient(n, c),
        Pick <- LAMBDA T : CHOOSE c \in T : TRUE,
        Holds <- LeadsFrom

LEMMA ClosingLeads ==
    ASSUME NEW n, Shaped(n), NEW S \in SUBSET Clients
    PROVE  Leads(n, Closing!Fold(n, n, S))
  <1>1. Closing!IsFiniteSet(S)
    <2>1. IsFiniteSet(S)
      BY FiniteAssumption, FS_Subset
    <2> QED BY <2>1 DEF IsFiniteSet, Closing!IsFiniteSet
  <1>2. Closing!Picks(S)
    BY DEF Closing!Picks
  <1>3. LeadsFrom(n, {}, n)
    BY LeadsRefl DEF LeadsFrom
  <1>4. \A T \in SUBSET S : \A k :
           LET c == CHOOSE c \in T : TRUE IN
           T # {} /\ LeadsFrom(n, T \ {c}, k) => LeadsFrom(n, T, SyncClosed(k, c))
    BY SyncClosedLeads, LeadsTrans DEF LeadsFrom, Leads
  <1>5. LeadsFrom(n, S, Closing!Fold(n, n, S))
    BY <1>1, <1>2, <1>3, <1>4, Closing!FoldKeeps
  <1> QED BY <1>5 DEF LeadsFrom

LEMMA ComparingLeads ==
    ASSUME NEW n, Shaped(n)
    PROVE  Leads(n, Comparing!Fold(n, n, Clients))
  <1>1. Comparing!IsFiniteSet(Clients)
    BY FiniteAssumption DEF IsFiniteSet, Comparing!IsFiniteSet
  <1>2. Comparing!Picks(Clients)
    BY DEF Comparing!Picks
  <1>3. LeadsFrom(n, {}, n)
    BY LeadsRefl DEF LeadsFrom
  <1>4. \A T \in SUBSET Clients : \A k :
           LET c == CHOOSE c \in T : TRUE IN
           T # {} /\ LeadsFrom(n, T \ {c}, k) => LeadsFrom(n, T, SyncClient(k, c))
    BY SyncClientLeads, LeadsTrans DEF LeadsFrom, Leads
  <1>5. LeadsFrom(n, Clients, Comparing!Fold(n, n, Clients))
    BY <1>1, <1>2, <1>3, <1>4, Comparing!FoldKeeps
  <1> QED BY <1>5 DEF LeadsFrom

LEMMA SyncEventsLeads ==
    ASSUME NEW n, Shaped(n)
    PROVE  Leads(n, SyncEvents(n))
  <1> DEFINE gone == {c \in Clients : n.shadow[c].known /\ ~ Managed(n, c)}
             closed == Closing!Fold(n, n, gone)
             synced == Comparing!Fold(closed, closed, Clients)
  <1>1. SyncEvents(n) = SyncWorkspace(SyncFocus(synced))
    BY DEF SyncEvents, FoldSet, MapThenFoldSet, Closing!Fold, Comparing!Fold
  <1>2. Leads(n, closed)
    BY ClosingLeads
  <1> HIDE DEF closed
  <1>3. Leads(closed, synced)
    BY <1>2, ComparingLeads DEF Leads
  <1> HIDE DEF synced
  <1>4. Leads(synced, SyncFocus(synced))
    BY <1>3, SyncFocusLeads DEF Leads
  <1>5. Leads(SyncFocus(synced), SyncWorkspace(SyncFocus(synced)))
    BY <1>4, SyncWorkspaceLeads DEF Leads
  <1> QED BY <1>1, <1>2, <1>3, <1>4, <1>5, LeadsTrans

(* ---- Events leave ---- *)
LEMMA UndeliveredLeads ==
    ASSUME NEW n, Shaped(n), NEW s
    PROVE  Leads(n, Undelivered(n, s))
  <1> DEFINE event == NextEvent(n.agents, s)
             popped == PopEvent(n.agents, s)
             a == RequeueEvent(popped, s, event)
  <1>1. AgentsOK(popped)
    BY DEF PopEvent, Shaped, AgentsOK, OpenSessions
  <1> HIDE DEF popped, event
  <1>2. AgentsOK(a)
    BY <1>1 DEF RequeueEvent, AgentsOK, OpenSessions
  <1>3. Undelivered(n, s) = [n EXCEPT !.agents = a]
    BY DEF Undelivered, popped, event
  <1> HIDE DEF a
  <1> QED BY <1>2, <1>3, AgentsLeads

LEMMA DeliveredLeads ==
    ASSUME NEW n, Shaped(n), NEW s \in Sessions
    PROVE  Leads(n, Delivered(n, s))
  <1> DEFINE popped == PopEvent(n.agents, s)
             frame == [frame |-> "event", event |-> NextEvent(n.agents, s)]
             n2 == Delivered(n, s)
  <1>1. AgentsOK(popped)
    BY DEF PopEvent, Shaped, AgentsOK, OpenSessions
  <1>2. frame.frame # "response"
    OBVIOUS
  <1>3. n2 = [n EXCEPT !.agents = popped, !.outbox[s] = Append(@, frame)]
    BY DEF Delivered
  <1> HIDE DEF popped, frame, n2
  <1>4. /\ Fields \subseteq DOMAIN n2 /\ n2.agents = popped /\ n2.text = n.text
        /\ n2.observations = n.observations /\ n2.semantics = n.semantics
        /\ n2.link = n.link /\ n2.outbox = [n.outbox EXCEPT ![s] = Append(@, frame)]
        /\ n2.consent = n.consent
    BY <1>3 DEF Shaped, Fields
  <1>5. /\ DOMAIN n2.link = Sessions /\ DOMAIN n2.outbox = Sessions
        /\ \A t \in Sessions : Moved(n.link[t], n2.link[t])
        /\ \A t \in Sessions : n2.outbox[t] = n.outbox[t] \/ n2.outbox[t] = Append(n.outbox[t], frame)
    BY <1>4 DEF Shaped, Moved
  <1>6. \A t \in Sessions :
           \/ n2.outbox[t] = n.outbox[t]
           \/ \E x : x.frame # "response" /\ n2.outbox[t] = Append(n.outbox[t], x)
    BY <1>2, <1>5
  <1>7. Leads(n, n2)
    BY <1>1, <1>4, <1>5, <1>6, PutLeads
  <1> QED BY <1>7 DEF n2

Forwarding ==
    INSTANCE FoldFacts WITH
        Op <- LAMBDA env, k, n :
                  IF HasEvents(n.agents, env.session) /\ Accepts(n, env.session)
                  THEN Delivered(n, env.session) ELSE n,
        Pick <- LAMBDA T : CHOOSE k \in T : TRUE,
        Holds <- LAMBDA env, k, n : Leads(env.first, n)

LEMMA FlushSessionLeads ==
    ASSUME NEW n, Shaped(n), NEW s \in Sessions
    PROVE  Leads(n, FlushSession(n, s))
  <1> DEFINE env == [first |-> n, session |-> s]
             last == Forwarding!Loop(env, n, WriterQueue)
  <1>1. env.first = n /\ env.session = s
    OBVIOUS
  <1>2. FlushSession(n, s) = IF HasEvents(last.agents, s) THEN Undelivered(last, s) ELSE last
    BY DEF FlushSession, Forwarding!Loop
  <1> HIDE DEF env
  <1>3. ASSUME NEW k, Leads(n, k)
        PROVE  Leads(n, IF HasEvents(k.agents, s) /\ Accepts(k, s) THEN Delivered(k, s) ELSE k)
    <2>1. Leads(k, Delivered(k, s))
      BY <1>3, DeliveredLeads DEF Leads
    <2>2. Leads(n, Delivered(k, s))
      BY <1>3, <2>1, LeadsTrans
    <2> QED BY <1>3, <2>2
  <1>4. Leads(n, last)
    <2>1. WriterQueue \in Nat
      BY WriterAssumption
    <2>2. Leads(env.first, n)
      BY <1>1, LeadsRefl
    <2>3. \A i \in 1..WriterQueue : \A k : Leads(env.first, k) =>
              Leads(env.first, IF HasEvents(k.agents, env.session) /\ Accepts(k, env.session)
                               THEN Delivered(k, env.session) ELSE k)
      BY <1>1, <1>3
    <2>4. Leads(env.first, last)
      BY <2>1, <2>2, <2>3, Forwarding!LoopKeeps
    <2> QED BY <1>1, <2>4
  <1> HIDE DEF last
  <1>5. Leads(last, Undelivered(last, s))
    BY <1>4, UndeliveredLeads DEF Leads
  <1> QED BY <1>2, <1>4, <1>5, LeadsTrans

Flushing ==
    INSTANCE FoldFacts WITH
        Op <- LAMBDA n0, s, n : FlushSession(n, s),
        Pick <- LAMBDA T : CHOOSE s \in T : TRUE,
        Holds <- LeadsFrom

LEMMA FlushEventsLeads ==
    ASSUME NEW n, Shaped(n)
    PROVE  Leads(n, FlushEvents(n))
  <1> DEFINE S == OpenSessions(n.agents)
  <1>0. S \subseteq Sessions
    BY DEF Shaped
  <1>1. Flushing!IsFiniteSet(S)
    <2>1. IsFiniteSet(S)
      BY <1>0, FiniteAssumption, FS_Subset
    <2> QED BY <2>1 DEF IsFiniteSet, Flushing!IsFiniteSet
  <1>2. Flushing!Picks(S)
    BY DEF Flushing!Picks
  <1>3. LeadsFrom(n, {}, n)
    BY LeadsRefl DEF LeadsFrom
  <1>4. \A T \in SUBSET S : \A k :
           LET s == CHOOSE s \in T : TRUE IN
           T # {} /\ LeadsFrom(n, T \ {s}, k) => LeadsFrom(n, T, FlushSession(k, s))
    BY <1>0, FlushSessionLeads, LeadsTrans DEF LeadsFrom, Leads
  <1>5. FlushEvents(n) = Flushing!Fold(n, n, S)
    BY DEF FlushEvents, FoldSet, MapThenFoldSet, Flushing!Fold
  <1> HIDE DEF S
  <1>6. LeadsFrom(n, S, Flushing!Fold(n, n, S))
    BY <1>1, <1>2, <1>3, <1>4, Flushing!FoldKeeps
  <1> QED BY <1>5, <1>6 DEF LeadsFrom

LEMMA HandledLeads ==
    ASSUME NEW n, Shaped(n)
    PROVE  Leads(n, Handled(n))
  <1>1. Leads(n, SyncEvents(n))
    BY SyncEventsLeads
  <1>2. Leads(SyncEvents(n), FlushEvents(SyncEvents(n)))
    BY <1>1, FlushEventsLeads DEF Leads
  <1> QED BY <1>1, <1>2, LeadsTrans DEF Handled

(* ---- Sessions come and go ---- *)
LEMMA CompleteGreetingLeads ==
    ASSUME NEW n, Shaped(n), NEW s \in Sessions, NEW grant
    PROVE  Leads(n, CompleteGreeting(n, s, grant))
  <1> DEFINE a == Open(n.agents, s, grant)
             n1 == [n EXCEPT !.agents = a]
             opened == RegisterAll(n1)
             greeted == IF Held(n, s) THEN [opened EXCEPT !.link[s] = "greeted"] ELSE opened
             frame == [frame |-> "welcome"]
  <1>1. AgentsOK(a)
    BY DEF Open, Shaped, AgentsOK, OpenSessions
  <1>2. CompleteGreeting(n, s, grant) = Send(greeted, s, frame)
    BY DEF CompleteGreeting
  <1> HIDE DEF a
  <1>3. Leads(n, n1)
    BY <1>1, AgentsLeads
  <1>3a. n1.link = n.link
    BY DEF Shaped, Fields
  <1> HIDE DEF n1
  <1>4. Leads(n1, opened) /\ opened.link = n.link
    BY <1>3, <1>3a, RegisterAllLeads DEF Leads
  <1> HIDE DEF opened
  <1>5. Leads(opened, greeted)
    <2>1. CASE ~ Held(n, s)
      BY <2>1, <1>4, LeadsRefl DEF Leads
    <2>2. CASE Held(n, s)
      <3> DEFINE n2 == [opened EXCEPT !.link[s] = "greeted"]
      <3>1. Shaped(opened) /\ AgentsOK(opened.agents)
        BY <1>4 DEF Leads, Shaped, AgentsOK
      <3>2. /\ Fields \subseteq DOMAIN n2 /\ n2.agents = opened.agents /\ n2.text = opened.text
            /\ n2.observations = opened.observations /\ n2.semantics = opened.semantics
            /\ n2.link = [opened.link EXCEPT ![s] = "greeted"] /\ n2.outbox = opened.outbox
            /\ n2.consent = opened.consent
        BY <3>1 DEF Shaped, Fields
      <3> HIDE DEF n2
      <3>3. /\ DOMAIN n2.link = Sessions /\ DOMAIN n2.outbox = Sessions
            /\ \A t \in Sessions : Moved(opened.link[t], n2.link[t])
        BY <1>4, <2>2, <3>1, <3>2 DEF Shaped, Moved, Held
      <3>4. Leads(opened, n2)
        BY <3>1, <3>2, <3>3, PutLeads
      <3> QED BY <2>2, <3>4 DEF n2
    <2> QED BY <2>1, <2>2
  <1> HIDE DEF greeted
  <1>6. Leads(greeted, Send(greeted, s, frame))
    <2>1. frame.frame # "response"
      OBVIOUS
    <2> QED BY <1>5, <2>1, SendLeads DEF Leads
  <1> HIDE DEF frame
  <1> QED BY <1>2, <1>3, <1>4, <1>5, <1>6, LeadsTrans


\* What a session had pending is dropped.
Cleared(n, n2, s) ==
    /\ Fields \subseteq DOMAIN n2
    /\ n2.text = (IF n.text.on /\ n.text.session = s THEN NoText ELSE n.text)
    /\ n2.observations = n.observations \ OfSession(n.observations, s)
    /\ n2.semantics = n.semantics \ OfSession(n.semantics, s)
    /\ n2.link = n.link /\ n2.outbox = n.outbox /\ n2.consent = n.consent
    /\ AgentsOK(n2.agents)

LEMMA CloseSessionFacts ==
    ASSUME NEW n, Shaped(n), NEW s
    PROVE  Cleared(n, CloseSession(n, s), s)
  <1> DEFINE a == Close(n.agents, s)
             n2 == CloseSession(n, s)
  <1>1. AgentsOK(a)
    BY DEF Close, Shaped, AgentsOK, OpenSessions
  <1>2. n2 = [n EXCEPT !.text = IF @.on /\ @.session = s THEN NoText ELSE @,
                       !.observations = @ \ OfSession(@, s),
                       !.semantics = @ \ OfSession(@, s),
                       !.agents = a,
                       !.matchers[s] = Clients,
                       !.consented = @ \ {s}]
    BY DEF CloseSession
  <1> HIDE DEF a, n2
  <1>3. /\ Fields \subseteq DOMAIN n2 /\ n2.agents = a
        /\ n2.text = (IF n.text.on /\ n.text.session = s THEN NoText ELSE n.text)
        /\ n2.observations = n.observations \ OfSession(n.observations, s)
        /\ n2.semantics = n.semantics \ OfSession(n.semantics, s)
        /\ n2.link = n.link /\ n2.outbox = n.outbox /\ n2.consent = n.consent
    BY <1>2 DEF Shaped, Fields
  <1> QED BY <1>1, <1>3 DEF Cleared, n2

LEMMA ClearedShaped ==
    ASSUME NEW n, NEW n2, NEW s, Shaped(n), Cleared(n, n2, s)
    PROVE  Shaped(n2) /\ Follows(n, n2) /\ NothingOf(n2, s)
  <1>1. IsFiniteSet(n2.observations) /\ IsFiniteSet(n2.semantics)
    BY FS_Subset DEF Shaped, Cleared
  <1>2. n2.text.on \in BOOLEAN /\ (n2.text.on => n2.text = n.text)
    <2>1. n.text.on \in BOOLEAN /\ NoText.on = FALSE
      BY DEF Shaped, NoText
    <2>2. n2.text = NoText \/ n2.text = n.text
      BY DEF Cleared
    <2> QED BY <2>1, <2>2
  <1>3. Shaped(n2)
    BY <1>1, <1>2 DEF Shaped, Cleared, AgentsOK
  <1>4. Follows(n, n2)
    BY DEF Cleared, Follows, Derived, Moved
  <1>5. NothingOf(n2, s)
    BY DEF Cleared, NothingOf, OfSession, NoText
  <1> QED BY <1>3, <1>4, <1>5

\* Nobody is owed an answer in a session that is no longer served.
LEMMA ClearedFine ==
    ASSUME NEW n, NEW n2, NEW s, NEW A, NEW H, NEW X, Shaped(n), Cleared(n, n2, s),
           Fine(n, A, H, X), ~ Serving(n, s)
    PROVE  Fine(n2, A, H, X)
  <1>1. \A r : ~ TextOf(n2, s, r) /\ ObservationsOf(n2, s, r) = {} /\ SemanticsOf(n2, s, r) = {}
    BY DEF Cleared, TextOf, ObservationsOf, SemanticsOf, OfSession, NoText
  <1>2. \A t, r :
           /\ t # s => (TextOf(n2, t, r) <=> TextOf(n, t, r))
           /\ t # s => ObservationsOf(n2, t, r) = ObservationsOf(n, t, r)
           /\ t # s => SemanticsOf(n2, t, r) = SemanticsOf(n, t, r)
           /\ Count(n2, H, t, r) = Count(n, H, t, r)
           /\ Serving(n2, t) <=> Serving(n, t)
           /\ Held(n2, t) <=> Held(n, t)
    BY DEF Cleared, TextOf, ObservationsOf, SemanticsOf, OfSession, NoText, Count, Serving, Held
  <1>3. Settled(n2, A, H)
    <2> SUFFICES ASSUME NEW t \in Sessions, NEW r \in Requests PROVE SettledAt(n2, A, H, t, r)
      BY DEF Settled
    <2>1. SettledAt(n, A, H, t, r)
      BY DEF Fine, Settled
    <2>2. CASE t = s
      BY <1>1, <1>2, <2>1, <2>2 DEF SettledAt, AtMostOne, Waiting
    <2>3. CASE t # s
      BY <1>2, <2>1, <2>3 DEF SettledAt, AtMostOne, Waiting
    <2> QED BY <2>2, <2>3
  <1>4. NoneSucceeded(n2, X)
    BY DEF Fine, NoneSucceeded, Cleared
  <1>5. NoneCan(n2, X)
    <2> SUFFICES ASSUME NEW t \in Sessions, NEW r \in Requests, Request(t, r) \in X
                 PROVE  /\ ~ TextOf(n2, t, r) /\ ObservationsOf(n2, t, r) = {}
                        /\ \A pending \in SemanticsOf(n2, t, r) : pending.cancelled
      BY DEF NoneCan
    <2>1. /\ ~ TextOf(n, t, r) /\ ObservationsOf(n, t, r) = {}
          /\ \A pending \in SemanticsOf(n, t, r) : pending.cancelled
      BY DEF Fine, NoneCan
    <2> QED BY <1>1, <1>2, <2>1
  <1> QED BY <1>3, <1>4, <1>5 DEF Fine

LEMMA FaultLeads ==
    ASSUME NEW n, Shaped(n), NEW s \in Sessions, Held(n, s)
    PROVE  Leads(n, Fault(n, s))
  <1> DEFINE n1 == CloseLink(n, s)
             n2 == CloseSession(n1, s)
  <1>1. Leads(n, n1) /\ ~ Held(n1, s)
    BY CloseLinkFacts
  <1>2. ~ Serving(n1, s)
    <2>1. n1.link = [n.link EXCEPT ![s] = "ending"]
      BY DEF CloseLink, Shaped, Fields
    <2> QED BY <2>1 DEF Serving, Shaped
  <1> HIDE DEF n1
  <1>3. Cleared(n1, n2, s)
    BY <1>1, CloseSessionFacts DEF Leads
  <1> HIDE DEF n2
  <1>4. Leads(n1, n2)
    <2>1. Silent(n1, n2)
      BY <1>3 DEF Cleared, Silent, NoneSucceeded
    <2> QED BY <1>1, <1>2, <1>3, <2>1, ClearedShaped, ClearedFine DEF Leads
  <1>5. Fault(n, s) = n2
    BY DEF Fault, n1, n2
  <1> QED BY <1>1, <1>4, <1>5, LeadsTrans

(* ---- What people do ---- *)
LEMMA ToggleFreezeFacts ==
    ASSUME NEW n, Shaped(n)
    PROVE  /\ Leads(n, ToggleFreeze(n))
           /\ ~ AnyFrozen(n.agents) =>
                 \A s \in StatusChanged(n.agents, FreezeAll(n.agents)) : NothingOf(ToggleFreeze(n), s)
  <1> DEFINE resuming == AnyFrozen(n.agents)
             agents == IF resuming THEN ResumeAll(n.agents) ELSE FreezeAll(n.agents)
             changed == StatusChanged(n.agents, agents)
             set == [n EXCEPT !.agents = agents]
             failed == IF resuming THEN set ELSE FailAllWork(set, changed)
             event == Everyone(n, SessionControl(IF resuming THEN "resumed" ELSE "frozen"))
             told == Emit(failed, "session_control", NoClient, event)
  <1>1. AgentsOK(agents)
    BY DEF ResumeAll, FreezeAll, SetAll, Shaped, AgentsOK, OpenSessions
  <1>2. ToggleFreeze(n) = IF changed = {} THEN n ELSE FlushEvents(told)
    BY DEF ToggleFreeze
  <1>3. ~ resuming => changed = StatusChanged(n.agents, FreezeAll(n.agents))
    OBVIOUS
  <1>4. IsFiniteSet(changed)
    <2>1. changed \subseteq Sessions
      BY <1>1 DEF StatusChanged, AgentsOK, OpenSessions
    <2> QED BY <2>1, FiniteAssumption, FS_Subset
  <1> HIDE DEF agents, changed, event, resuming
  <1>5. Leads(n, set)
    BY <1>1, AgentsLeads
  <1> HIDE DEF set
  <1>6. Leads(n, failed) /\ (~ resuming => \A s \in changed : NothingOf(failed, s))
    <2>1. CASE resuming
      BY <1>5, <2>1
    <2>2. CASE ~ resuming
      <3>1. FailedWork(set, changed, FailAllWork(set, changed))
        BY <1>4, <1>5, FailAllWorkFacts DEF Leads
      <3> QED BY <1>5, <2>2, <3>1, LeadsTrans DEF FailedWork
    <2> QED BY <2>1, <2>2
  <1> HIDE DEF failed
  <1>7. Leads(failed, told)
    BY <1>6, EmitLeads DEF Leads
  <1> HIDE DEF told
  <1>8. Leads(told, FlushEvents(told))
    BY <1>7, FlushEventsLeads DEF Leads
  <1>9. Leads(failed, FlushEvents(told))
    BY <1>7, <1>8, LeadsTrans
  <1>10. Leads(n, ToggleFreeze(n))
    BY <1>2, <1>6, <1>9, LeadsTrans, LeadsRefl
  <1>11. ~ resuming => \A s \in changed : NothingOf(ToggleFreeze(n), s)
    BY <1>2, <1>6, <1>9, NothingStays
  <1> QED BY <1>3, <1>10, <1>11 DEF resuming

LEMMA NoteHumanFacts ==
    ASSUME NEW n, Shaped(n), NEW announced
    PROVE  LET n2 == NoteHuman(n, announced) IN
           /\ Leads(n, n2)
           /\ n2.text = NoText \/ ~ n2.text.on
           /\ n2.observations = {} /\ \A pending \in n2.semantics : pending.cancelled
  <1> DEFINE n1 == InterruptWork(n)
             event == Everyone(n, [kind |-> "human_activity"])
             told == Emit(n1, "human_activity", NoClient, event)
  <1>1. /\ Leads(n, n1)
        /\ n1.text = NoText \/ ~ n1.text.on
        /\ n1.observations = {} /\ \A pending \in n1.semantics : pending.cancelled
    BY InterruptWorkFacts
  <1>2. NoteHuman(n, announced) = IF announced THEN told ELSE n1
    BY DEF NoteHuman
  <1> HIDE DEF n1, event
  <1>3. Leads(n1, told)
    BY <1>1, EmitLeads DEF Leads
  <1> HIDE DEF told
  <1>4. /\ told.text = NoText \/ ~ told.text.on
        /\ told.observations = {}
        /\ \A pending \in told.semantics : pending.cancelled
    BY <1>1, <1>3 DEF Leads, Follows, Derived
  <1>5. Leads(n, told)
    BY <1>1, <1>3, LeadsTrans
  <1>6. CASE announced
    BY <1>2, <1>4, <1>5, <1>6
  <1>7. CASE ~ announced
    BY <1>1, <1>2, <1>7
  <1> QED BY <1>6, <1>7

Granted(env, T, a) == AgentsOK(a)

Granting ==
    INSTANCE FoldFacts WITH
        Op <- LAMBDA grants, s, a : SetGrant(a, s, grants[s]),
        Pick <- LAMBDA T : CHOOSE s \in T : TRUE,
        Holds <- Granted

Revoking ==
    INSTANCE FoldFacts WITH
        Op <- LAMBDA env, s, a : SetStatus(a, s, "revoked"),
        Pick <- LAMBDA T : CHOOSE s \in T : TRUE,
        Holds <- Granted

Dropping ==
    INSTANCE FoldFacts WITH
        Op <- LAMBDA env, s, a : Close(a, s),
        Pick <- LAMBDA T : CHOOSE s \in T : TRUE,
        Holds <- Granted

LEMMA GrantingOK ==
    ASSUME NEW a, AgentsOK(a), NEW S, IsFiniteSet(S), NEW grants
    PROVE  AgentsOK(Granting!Fold(grants, a, S))
  <1>1. Granting!IsFiniteSet(S) /\ Granting!Picks(S)
    BY DEF IsFiniteSet, Granting!IsFiniteSet, Granting!Picks
  <1>2. \A T \in SUBSET S : \A k :
           LET s == CHOOSE s \in T : TRUE IN
           T # {} /\ Granted(grants, T \ {s}, k) => Granted(grants, T, SetGrant(k, s, grants[s]))
    BY DEF Granted, SetGrant, AgentsOK, OpenSessions
  <1>3. Granted(grants, {}, a)
    BY DEF Granted
  <1>4. Granted(grants, S, Granting!Fold(grants, a, S))
    BY <1>1, <1>2, <1>3, Granting!FoldKeeps
  <1> QED BY <1>4 DEF Granted

LEMMA RevokingOK ==
    ASSUME NEW a, AgentsOK(a), NEW S, IsFiniteSet(S), NEW env
    PROVE  AgentsOK(Revoking!Fold(env, a, S))
  <1>1. Revoking!IsFiniteSet(S) /\ Revoking!Picks(S)
    BY DEF IsFiniteSet, Revoking!IsFiniteSet, Revoking!Picks
  <1>2. \A T \in SUBSET S : \A k :
           LET s == CHOOSE s \in T : TRUE IN
           T # {} /\ Granted(env, T \ {s}, k) => Granted(env, T, SetStatus(k, s, "revoked"))
    BY DEF Granted, SetStatus, AgentsOK, OpenSessions
  <1>3. Granted(env, {}, a)
    BY DEF Granted
  <1>4. Granted(env, S, Revoking!Fold(env, a, S))
    BY <1>1, <1>2, <1>3, Revoking!FoldKeeps
  <1> QED BY <1>4 DEF Granted

LEMMA DroppingOK ==
    ASSUME NEW a, AgentsOK(a), NEW S, IsFiniteSet(S), NEW env
    PROVE  AgentsOK(Dropping!Fold(env, a, S))
  <1>1. Dropping!IsFiniteSet(S) /\ Dropping!Picks(S)
    BY DEF IsFiniteSet, Dropping!IsFiniteSet, Dropping!Picks
  <1>2. \A T \in SUBSET S : \A k :
           LET s == CHOOSE s \in T : TRUE IN
           T # {} /\ Granted(env, T \ {s}, k) => Granted(env, T, Close(k, s))
    BY DEF Granted, Close, AgentsOK, OpenSessions
  <1>3. Granted(env, {}, a)
    BY DEF Granted
  <1>4. Granted(env, S, Dropping!Fold(env, a, S))
    BY <1>1, <1>2, <1>3, Dropping!FoldKeeps
  <1> QED BY <1>4 DEF Granted

\* The sessions configured grants apply to.
Regranted(n) == {s \in OpenSessions(n.agents) : Held(n, s) /\ s \notin n.consented}

LEMMA ReapplyGrantsFacts ==
    ASSUME NEW n, Shaped(n), NEW grants, NEW matchers
    PROVE  /\ Leads(n, ReapplyGrants(n, grants, matchers))
           /\ \A s \in Regranted(n) : grants[s].capabilities = {}
                 => NothingOf(ReapplyGrants(n, grants, matchers), s)
  <1> DEFINE served == {s \in OpenSessions(n.agents) : Held(n, s) /\ s \notin n.consented}
             revoked == {s \in served : grants[s].capabilities = {}}
             given == Granting!Fold(grants, n.agents, served)
             matching == [s \in Sessions |-> IF s \in served THEN matchers[s] ELSE n.matchers[s]]
             granted == [n EXCEPT !.matchers = matching, !.agents = given]
             registered == RegisterAll(granted)
             taken == Revoking!Fold(grants, registered.agents, revoked)
             stopped == [registered EXCEPT !.agents = taken]
             event == Everyone(n, SessionControl("revoked"))
             failed == FailAllWork(stopped, revoked)
             told == Emit(failed, "session_control", NoClient, event)
             n2 == ReapplyGrants(n, grants, matchers)
  <1>1. n2 = IF revoked = {} THEN registered ELSE FlushEvents(told)
    BY DEF ReapplyGrants, FoldSet, MapThenFoldSet, Granting!Fold, Revoking!Fold
  <1>2. served = Regranted(n) /\ revoked = {s \in Regranted(n) : grants[s].capabilities = {}}
    BY DEF Regranted
  <1>3. IsFiniteSet(served) /\ IsFiniteSet(revoked)
    <2>1. served \subseteq Sessions /\ revoked \subseteq Sessions
      BY DEF Shaped
    <2> HIDE DEF served, revoked
    <2> QED BY <2>1, FiniteAssumption, FS_Subset
  <1> HIDE DEF served, revoked, n2
  <1>4. AgentsOK(given)
    BY <1>3, GrantingOK DEF Shaped, AgentsOK
  <1> HIDE DEF given, matching
  <1>5. Leads(n, granted)
    <2>1. /\ Fields \subseteq DOMAIN granted /\ granted.agents = given /\ granted.text = n.text
          /\ granted.observations = n.observations /\ granted.link = n.link
          /\ granted.outbox = n.outbox /\ granted.semantics = n.semantics
          /\ granted.consent = n.consent
      BY DEF Shaped, Fields
    <2> HIDE DEF granted
    <2> QED BY <1>4, <2>1, QuietLeads DEF Shaped
  <1> HIDE DEF granted
  <1>6. Leads(granted, registered)
    BY <1>5, RegisterAllLeads DEF Leads
  <1> HIDE DEF registered
  <1>7. AgentsOK(taken)
    BY <1>3, <1>6, RevokingOK DEF Leads, Shaped, AgentsOK
  <1> HIDE DEF taken
  <1>8. Leads(registered, stopped)
    BY <1>6, <1>7, AgentsLeads DEF Leads
  <1> HIDE DEF stopped, event
  <1>9. FailedWork(stopped, revoked, failed)
    BY <1>3, <1>8, FailAllWorkFacts DEF Leads
  <1> HIDE DEF failed
  <1>10. Leads(failed, told)
    BY <1>9, EmitLeads DEF Leads, FailedWork
  <1> HIDE DEF told
  <1>11. Leads(told, FlushEvents(told))
    BY <1>10, FlushEventsLeads DEF Leads
  <1>12. Leads(failed, FlushEvents(told))
    BY <1>10, <1>11, LeadsTrans
  <1>13. Leads(n, registered)
    BY <1>5, <1>6, LeadsTrans
  <1>14. Leads(n, FlushEvents(told))
    BY <1>8, <1>9, <1>12, <1>13, LeadsTrans DEF FailedWork
  <1>15. \A s \in revoked : NothingOf(n2, s)
    BY <1>1, <1>9, <1>12, NothingStays DEF FailedWork
  <1> QED BY <1>1, <1>2, <1>13, <1>14, <1>15 DEF n2

Unlinked(n0, T, n) == Leads(n0, n) /\ \A s \in T : ~ Held(n, s)

Unlinking ==
    INSTANCE FoldFacts WITH
        Op <- LAMBDA n0, s, n : CloseLink(n, s),
        Pick <- LAMBDA T : CHOOSE s \in T : TRUE,
        Holds <- Unlinked

LEMMA NotHeldStays ==
    ASSUME NEW n, NEW n2, Leads(n, n2), NEW s \in Sessions, ~ Held(n, s)
    PROVE  ~ Held(n2, s)
  BY DEF Leads, Follows, Moved, Held

LEMMA UnlinkingFacts ==
    ASSUME NEW n, Shaped(n)
    PROVE  Unlinked(n, Sessions, Unlinking!Fold(n, n, Sessions))
  <1>1. Unlinking!IsFiniteSet(Sessions) /\ Unlinking!Picks(Sessions)
    BY FiniteAssumption DEF IsFiniteSet, Unlinking!IsFiniteSet, Unlinking!Picks
  <1>2. ASSUME NEW T \in SUBSET Sessions, NEW k, NEW s \in T, Unlinked(n, T \ {s}, k)
        PROVE  Unlinked(n, T, CloseLink(k, s))
    <2> DEFINE k2 == CloseLink(k, s)
    <2>1. Leads(k, k2) /\ ~ Held(k2, s)
      BY <1>2, CloseLinkFacts DEF Unlinked, Leads
    <2> HIDE DEF k2
    <2>2. Leads(n, k2)
      BY <1>2, <2>1, LeadsTrans DEF Unlinked
    <2>3. \A t \in T : ~ Held(k2, t)
      BY <1>2, <2>1, NotHeldStays DEF Unlinked
    <2>4. Unlinked(n, T, k2)
      BY <2>2, <2>3 DEF Unlinked
    <2> QED BY <2>4 DEF k2
  <1>3. \A T \in SUBSET Sessions : \A k :
           LET s == CHOOSE s \in T : TRUE IN
           T # {} /\ Unlinked(n, T \ {s}, k) => Unlinked(n, T, CloseLink(k, s))
    BY <1>2
  <1>4. Unlinked(n, {}, n)
    BY LeadsRefl DEF Unlinked
  <1> QED BY <1>1, <1>3, <1>4, Unlinking!FoldKeeps

LEMMA StopSeatFacts ==
    ASSUME NEW n, Shaped(n)
    PROVE  Unlinked(n, Sessions, StopSeat(n))
  <1> DEFINE closed == Unlinking!Fold(n, n, Sessions)
             S == OpenSessions(n.agents)
             a == Dropping!Fold(n, closed.agents, S)
             n2 == [closed EXCEPT
                       !.agents = a,
                       !.matchers = [s \in Sessions |-> Clients],
                       !.consented = {},
                       !.shadow = [c \in Clients |-> NoShadow]]
  <1>1. StopSeat(n) = n2
    BY DEF StopSeat, FoldSet, MapThenFoldSet, Unlinking!Fold, Dropping!Fold
  <1>2. Unlinked(n, Sessions, closed)
    BY UnlinkingFacts
  <1> HIDE DEF closed
  <1>3. IsFiniteSet(S)
    BY FiniteAssumption, FS_Subset DEF Shaped
  <1>4. AgentsOK(a)
    <2> HIDE DEF S
    <2> QED BY <1>2, <1>3, DroppingOK DEF Unlinked, Leads, Shaped, AgentsOK
  <1> HIDE DEF a
  <1>5. /\ Fields \subseteq DOMAIN n2 /\ n2.agents = a /\ n2.text = closed.text
        /\ n2.observations = closed.observations /\ n2.link = closed.link
        /\ n2.outbox = closed.outbox /\ n2.semantics = closed.semantics
        /\ n2.consent = closed.consent
    BY <1>2 DEF Unlinked, Leads, Shaped, Fields
  <1> HIDE DEF n2
  <1>6. Leads(closed, n2)
    BY <1>2, <1>4, <1>5, QuietLeads DEF Unlinked, Leads, Shaped
  <1>7. Leads(n, n2)
    BY <1>2, <1>6, LeadsTrans DEF Unlinked
  <1>8. \A s \in Sessions : ~ Held(n2, s)
    BY <1>2, <1>5 DEF Unlinked, Held
  <1> QED BY <1>1, <1>7, <1>8 DEF Unlinked


(* ---- Requests that are overtaken ---- *)
Requested(over) == {Of(pending) : pending \in over}

AskedOf(A, Y) == \A x \in Y : \E s \in Sessions : \E r \in A[s] : x = Request(s, r)

LEMMA PendingFacts ==
    ASSUME NEW n, NEW A, NEW H, NEW X, Shaped(n), HeardType(H), Fine(n, A, H, X),
           NEW p \in Pending(n)
    PROVE  /\ p.session \in Sessions /\ p.request \in Requests
           /\ Of(p) = Request(p.session, p.request)
           /\ p.request \in A[p.session] /\ Waiting(n, p.session, p.request)
           /\ Responses(n.outbox[p.session], p.request) = {}
  <1> DEFINE s == p.session
             r == p.request
  <1>1. s \in Sessions /\ r \in Requests
    BY DEF Shaped, Asks, Pending, Texts
  <1>2. Waiting(n, s, r)
    BY DEF Pending, Texts, Waiting, TextOf, ObservationsOf, SemanticsOf
  <1>3. r \in A[s] /\ Count(n, H, s, r) = 0
    BY <1>1, <1>2 DEF Fine, Settled, SettledAt
  <1>4. Responses(n.outbox[s], r) = {}
    <2>1. Frames(n.outbox[s]) /\ H[s][r] \in Nat
      BY <1>1 DEF Shaped, HeardType
    <2>2. IsFiniteSet(Responses(n.outbox[s], r)) /\ Cardinality(Responses(n.outbox[s], r)) \in Nat
      BY <2>1, ResponsesFinite
    <2>3. Cardinality(Responses(n.outbox[s], r)) = 0
      BY <1>3, <2>1, <2>2 DEF Count
    <2> QED BY <2>2, <2>3, FS_EmptySet
  <1> QED BY <1>1, <1>2, <1>3, <1>4 DEF Of, Request

\* What waits has not succeeded.
LEMMA PendingUnanswered ==
    ASSUME NEW n, NEW A, NEW H, NEW X, Shaped(n), HeardType(H), Fine(n, A, H, X),
           NEW over \in SUBSET Pending(n)
    PROVE  NoneSucceeded(n, Requested(over)) /\ AskedOf(A, Requested(over))
  <1>1. AskedOf(A, Requested(over))
    BY PendingFacts DEF AskedOf, Requested
  <1>2. NoneSucceeded(n, Requested(over))
    <2> SUFFICES ASSUME NEW t \in Sessions, NEW i \in DOMAIN n.outbox[t],
                        n.outbox[t][i].frame = "response",
                        NEW p \in over, Request(t, n.outbox[t][i].request) = Of(p)
                 PROVE  FALSE
      BY DEF NoneSucceeded, Requested
    <2>1. p.session = t /\ p.request = n.outbox[t][i].request
      BY DEF Request, Of
    <2>2. i \in Responses(n.outbox[p.session], p.request)
      BY <2>1 DEF Responses
    <2> QED BY <2>2, PendingFacts
  <1> QED BY <1>1, <1>2

\* A cancelled query is all that waits for its request.
LEMMA CancelledCannot ==
    ASSUME NEW n, NEW A, NEW H, NEW X, Shaped(n), HeardType(H), Fine(n, A, H, X)
    PROVE  NoneCan(n, Requested(Cancelled(n)))
  <1> SUFFICES ASSUME NEW s \in Sessions, NEW r \in Requests,
                      NEW p \in Cancelled(n), Request(s, r) = Of(p)
               PROVE  /\ ~ TextOf(n, s, r) /\ ObservationsOf(n, s, r) = {}
                      /\ \A pending \in SemanticsOf(n, s, r) : pending.cancelled
    BY DEF NoneCan, Requested
  <1>1. p.session = s /\ p.request = r
    BY DEF Request, Of
  <1>2. p \in SemanticsOf(n, s, r) /\ p.cancelled
    BY <1>1 DEF Cancelled, SemanticsOf
  <1>3. AtMostOne(n, s, r)
    BY DEF Fine, Settled, SettledAt
  <1> QED BY <1>2, <1>3 DEF AtMostOne

LEMMA NothingCannot ==
    ASSUME NEW n, NEW over, \A p \in over : NothingOf(n, p.session)
    PROVE  NoneCan(n, Requested(over))
  <1> SUFFICES ASSUME NEW s \in Sessions, NEW r \in Requests,
                      NEW p \in over, Request(s, r) = Of(p)
               PROVE  /\ ~ TextOf(n, s, r) /\ ObservationsOf(n, s, r) = {}
                      /\ SemanticsOf(n, s, r) = {}
    BY DEF NoneCan, Requested
  <1>1. p.session = s
    BY DEF Request, Of
  <1> QED BY <1>1 DEF NothingOf, TextOf, ObservationsOf, SemanticsOf, OfSession

LEMMA CannotUnion ==
    ASSUME NEW n, NEW X, NEW Y
    PROVE  /\ NoneCan(n, X) /\ NoneCan(n, Y) => NoneCan(n, X \cup Y)
           /\ NoneSucceeded(n, X) /\ NoneSucceeded(n, Y) => NoneSucceeded(n, X \cup Y)
  BY DEF NoneCan, NoneSucceeded

LEMMA TimersStay ==
    ASSUME NEW n, NEW n2, Follows(n, n2), NEW t, TimersFor(n, t), NEW u, t \subseteq u
    PROVE  TimersFor(n2, u)
  BY DEF Follows, Derived, TimersFor, NoText

(***************************************************************************)
(* What a step leaves: the invariant, and the session as it was, given up  *)
(* or, when the seat is opened, taken for a new one.                       *)
(***************************************************************************)
GivesUp(s) == ~ Serving(m, s)'

GoesOn(s) ==
    /\ Serving(m, s) /\ Serving(m, s)'
    /\ asked[s] \subseteq asked'[s]
    /\ \A r \in Requests : Waiting(m, s, r)' => Waiting(m, s, r) \/ r \notin asked[s]

Renews(s) ==
    /\ Serving(m, s)'
    /\ \A r \in Requests : r \notin asked'[s] /\ ~ Waiting(m, s, r)'
    /\ ~ Serving(m, s) \/ \A r \in Requests : r \notin asked[s]

Kept ==
    /\ IInv'
    /\ ~ leftover' => \A s \in Sessions : GivesUp(s) \/ GoesOn(s) \/ Renews(s)

LEMMA FollowsGoesOn ==
    ASSUME Follows(m, m'), NEW s \in Sessions, asked[s] \subseteq asked'[s]
    PROVE  GivesUp(s) \/ GoesOn(s)
  <1>1. Serving(m, s)' => Serving(m, s)
    BY DEF Follows, Moved, Serving
  <1>2. ASSUME NEW r, Waiting(m, s, r)' PROVE Waiting(m, s, r)
    BY <1>2 DEF Follows, Waiting, TextOf, ObservationsOf, SemanticsOf, Derived, NoText
  <1> QED BY <1>1, <1>2 DEF GivesUp, GoesOn

\* A step of the manager's own that overtakes the requests of Y.
LEMMA OwnStepKept ==
    ASSUME IInv, Leads(m, m'), UNCHANGED <<asked, heard, leftover>>,
           seat' = seat \/ (\A s \in Sessions : ~ Held(m, s)'),
           TimersFor(m', timers'),
           NEW Y, preempted' = preempted \cup Y,
           ~ leftover => NoneCan(m', Y) /\ NoneSucceeded(m', Y) /\ AskedOf(asked, Y)
    PROVE  Kept
  <1>1. HeardType(heard)
    BY DEF IInv, HeardType
  <1>2. LinksOK'
    BY NotHeldStays DEF IInv, LinksOK, Held
  <1>3. ASSUME ~ leftover PROVE PreemptedAsked' /\ Fine(m', asked, heard, preempted')
    <2>1. Fine(m', asked, heard, preempted)
      BY <1>1, <1>3 DEF IInv, Leads
    <2>2. Fine(m', asked, heard, preempted')
      BY <1>3, <2>1, CannotUnion DEF Fine
    <2>3. PreemptedAsked'
      BY <1>3 DEF IInv, PreemptedAsked, AskedOf
    <2> QED BY <2>2, <2>3
  <1>4. IInv'
    <2>1. Shaped(m')
      BY DEF Leads
    <2> QED BY <1>2, <1>3, <2>1 DEF IInv, AskedInOrder
  <1>5. \A s \in Sessions : GivesUp(s) \/ GoesOn(s)
    BY FollowsGoesOn DEF Leads
  <1> QED BY <1>4, <1>5 DEF Kept

LEMMA QuietStepKept ==
    ASSUME IInv, Leads(m, m'), UNCHANGED <<asked, heard, leftover, timers, preempted>>,
           seat' = seat
    PROVE  Kept
  <1>1. TimersFor(m', timers')
    BY TimersStay DEF IInv, Leads
  <1>2. preempted' = preempted \cup {} /\ NoneCan(m', {}) /\ NoneSucceeded(m', {}) /\ AskedOf(asked, {})
    BY DEF NoneCan, NoneSucceeded, AskedOf
  <1> QED BY <1>1, <1>2, OwnStepKept

LEMMA BecomeKept ==
    ASSUME IInv, NEW n, Leads(m, n), NEW armed, NEW over \in SUBSET Pending(m), Become(n, armed, over),
           UNCHANGED <<asked, heard, leftover>>, seat' = seat \/ (\A s \in Sessions : ~ Held(n, s)),
           TimersFor(n, armed), ~ leftover => NoneCan(n, Requested(over))
    PROVE  Kept
  <1> DEFINE Y == Requested(over) \cup Requested(Cancelled(n))
  <1>1. m' = n /\ timers' = armed /\ preempted' = preempted \cup Y
    BY DEF Become, Requested
  <1>2. HeardType(heard) /\ Shaped(m) /\ Shaped(n)
    BY DEF IInv, HeardType, Leads
  <1>3. ASSUME ~ leftover PROVE NoneCan(n, Y) /\ NoneSucceeded(n, Y) /\ AskedOf(asked, Y)
    <2>1. Fine(m, asked, heard, preempted) /\ Fine(n, asked, heard, preempted)
      BY <1>2, <1>3 DEF IInv, Leads
    <2>2. NoneSucceeded(m, Requested(over)) /\ AskedOf(asked, Requested(over))
      BY <1>2, <2>1, PendingUnanswered
    <2>3. NoneSucceeded(n, Requested(over))
      BY <2>2 DEF Leads, Silent
    <2>4. Cancelled(n) \in SUBSET Pending(n)
      BY DEF Cancelled, Pending
    <2>5. NoneSucceeded(n, Requested(Cancelled(n))) /\ AskedOf(asked, Requested(Cancelled(n)))
      BY <1>2, <2>1, <2>4, PendingUnanswered
    <2>6. NoneCan(n, Requested(Cancelled(n)))
      BY <1>2, <2>1, CancelledCannot
    <2>7. AskedOf(asked, Y)
      BY <2>2, <2>5 DEF AskedOf
    <2> HIDE DEF Requested
    <2> QED BY <1>3, <2>3, <2>5, <2>6, <2>7, CannotUnion
  <1> HIDE DEF Y
  <1>4. seat' = seat \/ (\A s \in Sessions : ~ Held(m, s)')
    BY <1>1 DEF Held
  <1> QED BY <1>1, <1>3, <1>4, OwnStepKept

\* The same when nothing is overtaken.
LEMMA BecomeQuietKept ==
    ASSUME IInv, NEW n, Leads(m, n), NEW armed, Become(n, armed, {}),
           UNCHANGED <<asked, heard, leftover, seat>>, TimersFor(n, armed)
    PROVE  Kept
  <1>1. NoneCan(n, Requested({}))
    BY DEF NoneCan, Requested
  <1> QED BY <1>1, BecomeKept

(* ---- The desktop and people ---- *)
LEMMA TimersLeads ==
    ASSUME IInv, NEW n, Leads(m, n)
    PROVE  TimersFor(n, timers)
  BY TimersStay DEF IInv, Leads

LEMMA RetitleKept ==
    ASSUME IInv, NEW c, NEW title, Retitle(c, title)
    PROVE  Kept
  <1> DEFINE n == [m EXCEPT !.desk[c].title = title]
  <1>1. Leads(m, n)
    BY FieldLeads DEF IInv
  <1>2. Become(n, timers, {}) /\ UNCHANGED <<asked, heard, leftover, seat>>
    BY DEF Retitle, Happens
  <1> HIDE DEF n
  <1> QED BY <1>1, <1>2, TimersLeads, BecomeQuietKept

LEMMA RefocusKept ==
    ASSUME IInv, NEW f, Refocus(f)
    PROVE  Kept
  <1> DEFINE n == [m EXCEPT !.focus = f]
  <1>1. Leads(m, n)
    BY FieldLeads DEF IInv
  <1>2. Become(n, timers, {}) /\ UNCHANGED <<asked, heard, leftover, seat>>
    BY DEF Refocus, Happens
  <1> HIDE DEF n
  <1> QED BY <1>1, <1>2, TimersLeads, BecomeQuietKept

LEMMA UnmanageKept ==
    ASSUME IInv, NEW c, Unmanage(c)
    PROVE  Kept
  <1> DEFINE n1 == [m EXCEPT !.desk[c] = Unmanaged]
             n == [m EXCEPT !.desk[c] = Unmanaged, !.focus = IF @ = c THEN NoClient ELSE @]
  <1>1. Leads(m, n)
    <2>1. /\ Fields \subseteq DOMAIN n /\ n.agents = m.agents /\ n.text = m.text
          /\ n.observations = m.observations /\ n.semantics = m.semantics
          /\ n.link = m.link /\ n.outbox = m.outbox /\ n.consent = m.consent
      BY DEF IInv, Shaped, Fields
    <2> HIDE DEF n
    <2> QED BY <2>1, QuietLeads DEF IInv, Shaped, AgentsOK
  <1>2. Become(n, timers, {}) /\ UNCHANGED <<asked, heard, leftover, seat>>
    BY DEF Unmanage, Happens
  <1> HIDE DEF n
  <1> QED BY <1>1, <1>2, TimersLeads, BecomeQuietKept

LEMMA BoundaryKept ==
    ASSUME IInv, Boundary
    PROVE  Kept
  <1> DEFINE n == FlushEvents(SyncEvents(m))
  <1>1. Leads(m, n)
    BY HandledLeads DEF IInv, Handled
  <1>2. Become(n, timers, {}) /\ UNCHANGED <<asked, heard, leftover, seat>>
    BY DEF Boundary
  <1> HIDE DEF n
  <1> QED BY <1>1, <1>2, TimersLeads, BecomeQuietKept

LEMMA LoseSelectionKept ==
    ASSUME IInv, LoseSelection
    PROVE  Kept
  <1> DEFINE n1 == [m EXCEPT !.clipboard = FALSE]
             n == IF m.text.on /\ m.text.offered THEN FinishTextError(n1) ELSE n1
  <1>1. Leads(m, n1) /\ n1.text = m.text
    <2>1. Leads(m, n1)
      BY FieldLeads DEF IInv
    <2> QED BY <2>1 DEF IInv, Shaped, Fields
  <1>2. Become(n, timers, {}) /\ UNCHANGED <<asked, heard, leftover, seat>>
    BY DEF LoseSelection, Happens
  <1> HIDE DEF n1
  <1>3. Leads(m, n)
    <2>1. CASE m.text.on /\ m.text.offered
      <3>1. Leads(n1, FinishTextError(n1))
        BY <1>1, <2>1, FinishTextErrorFacts DEF Leads
      <3> QED BY <1>1, <2>1, <3>1, LeadsTrans
    <2>2. CASE ~ (m.text.on /\ m.text.offered)
      BY <1>1, <2>2
    <2> QED BY <2>1, <2>2
  <1> HIDE DEF n
  <1> QED BY <1>2, <1>3, TimersLeads, BecomeQuietKept

LEMMA HumanInputKept ==
    ASSUME IInv, HumanInput
    PROVE  Kept
  <1>1. PICK announced \in BOOLEAN : Happens(NoteHuman(m, announced), Pending(m))
    BY DEF HumanInput
  <1> DEFINE n == NoteHuman(m, announced)
             over == Pending(m)
  <1>2. /\ Leads(m, n)
        /\ n.text = NoText \/ ~ n.text.on
        /\ n.observations = {} /\ \A pending \in n.semantics : pending.cancelled
    BY NoteHumanFacts DEF IInv
  <1>3. Become(n, timers, over) /\ UNCHANGED <<asked, heard, leftover, seat>>
    BY <1>1 DEF Happens
  <1> HIDE DEF n
  <1>4. NoneCan(n, Requested(over))
    BY <1>2 DEF NoneCan, TextOf, ObservationsOf, SemanticsOf, NoText
  <1> HIDE DEF over
  <1>5. over \in SUBSET Pending(m)
    BY DEF over
  <1> QED BY <1>2, <1>3, <1>4, <1>5, TimersLeads, BecomeKept

LEMMA KillChordKept ==
    ASSUME IInv, KillChord
    PROVE  Kept
  <1> DEFINE resuming == AnyFrozen(m.agents)
             frozen == IF resuming THEN {} ELSE StatusChanged(m.agents, FreezeAll(m.agents))
             n == ToggleFreeze(m)
             over == UNION {OfSession(Pending(m), s) : s \in frozen}
  <1>1. Leads(m, n) /\ \A s \in frozen : NothingOf(n, s)
    BY ToggleFreezeFacts DEF IInv
  <1>2. Become(n, timers, over) /\ UNCHANGED <<asked, heard, leftover, seat>>
    BY DEF KillChord
  <1> HIDE DEF n, frozen
  <1>3. over \in SUBSET Pending(m) /\ \A p \in over : p.session \in frozen
    BY DEF OfSession
  <1> HIDE DEF over
  <1>4. NoneCan(n, Requested(over))
    BY <1>1, <1>3, NothingCannot
  <1> QED BY <1>1, <1>2, <1>3, <1>4, TimersLeads, BecomeKept

LEMMA RevokeKept ==
    ASSUME IInv, Revoke
    PROVE  Kept
  <1> DEFINE nothing == [s \in Sessions |-> Denied]
             taken == {s \in OpenSessions(m.agents) : Held(m, s) /\ s \notin m.consented}
             n == ReapplyGrants(m, nothing, [s \in Sessions |-> Clients])
             over == UNION {OfSession(Pending(m), s) : s \in taken}
  <1>1. Leads(m, n) /\ \A s \in taken : NothingOf(n, s)
    <2>1. \A s \in taken : nothing[s].capabilities = {}
      BY DEF IInv, Shaped, Denied, Unscoped
    <2>2. taken = Regranted(m)
      BY DEF Regranted
    <2>3. Shaped(m)
      BY DEF IInv
    <2> HIDE DEF taken, nothing
    <2> QED BY <2>1, <2>2, <2>3, ReapplyGrantsFacts
  <1>2. Become(n, timers, over) /\ UNCHANGED <<asked, heard, leftover, seat>>
    BY DEF Revoke, Happens
  <1> HIDE DEF n, taken
  <1>3. over \in SUBSET Pending(m) /\ \A p \in over : p.session \in taken
    BY DEF OfSession
  <1> HIDE DEF over
  <1>4. NoneCan(n, Requested(over))
    BY <1>1, <1>3, NothingCannot
  <1> QED BY <1>1, <1>2, <1>3, <1>4, TimersLeads, BecomeKept

LEMMA CloseSeatKept ==
    ASSUME IInv, CloseSeat
    PROVE  Kept
  <1> DEFINE n == StopSeat(m)
             over == {}
  <1>1. Leads(m, n) /\ \A s \in Sessions : ~ Held(n, s)
    BY StopSeatFacts DEF IInv, Unlinked
  <1>2. Become(n, timers, over) /\ UNCHANGED <<asked, heard, leftover>>
    BY DEF CloseSeat
  <1> HIDE DEF n
  <1>3. over \in SUBSET Pending(m) /\ NoneCan(n, Requested(over))
    BY DEF NoneCan, Requested
  <1> HIDE DEF over
  <1> QED BY <1>1, <1>2, <1>3, TimersLeads, BecomeKept

\* The seat is opened: the numbers of the sessions are used again.
LEMMA OpenSeatKept ==
    ASSUME IInv, OpenSeat
    PROVE  Kept
  <1>1. /\ ~ seat /\ seat' = TRUE
        /\ m' = [m EXCEPT !.link = [s \in Sessions |-> "none"], !.outbox = [s \in Sessions |-> <<>>]]
        /\ asked' = [s \in Sessions |-> {}] /\ heard' = [s \in Sessions |-> Unheard]
        /\ preempted' = {} /\ leftover' = (leftover \/ Pending(m) /= {}) /\ timers' = timers
    BY DEF OpenSeat
  <1>2. /\ Fields \subseteq DOMAIN m' /\ m'.agents = m.agents /\ m'.text = m.text
        /\ m'.observations = m.observations /\ m'.semantics = m.semantics /\ m'.consent = m.consent
        /\ m'.link = [s \in Sessions |-> "none"] /\ m'.outbox = [s \in Sessions |-> <<>>]
    BY <1>1 DEF IInv, Shaped, Fields
  <1>3. Shaped(m')
    <2>1. <<>> \in Seq(Sessions)
      OBVIOUS
    <2>2. Frames(<<>>)
      BY <2>1 DEF Frames
    <2> QED BY <1>2, <2>2 DEF IInv, Shaped
  <1>4. ASSUME ~ leftover'
        PROVE  \A s, r : ~ Waiting(m', s, r)
    <2>1. Pending(m) = {}
      BY <1>1, <1>4 DEF IInv
    <2>2. ~ m.text.on /\ m.observations = {} /\ m.semantics = {}
      BY <2>1 DEF Pending, Texts
    <2> QED BY <1>2, <2>2 DEF Waiting, TextOf, ObservationsOf, SemanticsOf
  <1>5. ASSUME ~ leftover' PROVE PreemptedAsked' /\ Fine(m', asked', heard', preempted')
    <2>1. \A s \in Sessions, r \in Requests : Count(m', heard', s, r) = 0
      <3>1. \A r : Responses(<<>>, r) = {}
        BY DEF Responses
      <3>2. Cardinality({}) = 0
        BY FS_EmptySet
      <3>3. \A s \in Sessions, r \in Requests :
               Cardinality(Responses(m'.outbox[s], r)) = 0 /\ heard'[s][r] = 0
        BY <1>1, <1>2, <3>1, <3>2 DEF Unheard
      <3> HIDE DEF Responses
      <3> QED BY <3>3 DEF Count
    <2>2. Settled(m', asked', heard')
      BY <1>1, <1>4, <1>5, <2>1 DEF Settled, SettledAt, AtMostOne, Waiting
    <2> QED BY <1>1, <2>2 DEF Fine, NoneSucceeded, NoneCan, PreemptedAsked
  <1>6. IInv'
    <2>1. heard' \in [Sessions -> [Requests -> Nat]]
      BY <1>1 DEF Unheard
    <2>2. AskedInOrder'
      <3>1. {} = 1..0
        OBVIOUS
      <3> QED BY <1>1, <3>1 DEF AskedInOrder
    <2>3. LinksOK' /\ leftover' \in BOOLEAN
      BY <1>1 DEF LinksOK, IInv
    <2>4. TimersFor(m', timers')
      BY <1>1, <1>2 DEF IInv, TimersFor
    <2> QED BY <1>3, <1>5, <2>1, <2>2, <2>3, <2>4 DEF IInv
  <1>7. ASSUME ~ leftover', NEW s \in Sessions PROVE Renews(s)
    <2>1. ~ leftover
      BY <1>1, <1>7 DEF IInv
    <2>2. ASSUME Serving(m, s), NEW r \in Requests PROVE r \notin asked[s]
      <3>1. SettledAt(m, asked, heard, s, r)
        BY <2>1 DEF IInv, Fine, Settled
      <3> QED BY <1>1, <2>2, <3>1 DEF SettledAt, IInv, LinksOK
    <2>3. Serving(m, s)'
      BY <1>2 DEF Serving
    <2> QED BY <1>1, <1>4, <1>7, <2>2, <2>3 DEF Renews
  <1> QED BY <1>6, <1>7 DEF Kept

LEMMA ForgottenKept ==
    ASSUME IInv, Forgotten
    PROVE  Kept
  <1>1. Leads(m, m')
    BY LeadsRefl DEF IInv, Forgotten
  <1> QED BY <1>1, QuietStepKept DEF Forgotten

(* ---- Timers ---- *)
\* Like Leads, for steps that may also say that requests have succeeded.
Settles(n0, n) ==
    /\ Shaped(n)
    /\ \A s \in Sessions : Moved(n0.link[s], n.link[s])
    /\ \A s, r : Waiting(n, s, r) => Waiting(n0, s, r)
    /\ \A A, H, X : HeardType(H) /\ Fine(n0, A, H, X) => Fine(n, A, H, X)

LEMMA LeadsSettles ==
    ASSUME NEW n0, NEW n, Leads(n0, n)
    PROVE  Settles(n0, n)
  <1>1. ASSUME NEW s, NEW r, Waiting(n, s, r) PROVE Waiting(n0, s, r)
    BY <1>1 DEF Leads, Follows, Waiting, TextOf, ObservationsOf, SemanticsOf, Derived, NoText
  <1> QED BY <1>1 DEF Leads, Follows, Settles

LEMMA SettlesTrans ==
    ASSUME NEW n0, NEW n1, NEW n2, Settles(n0, n1), Settles(n1, n2)
    PROVE  Settles(n0, n2)
  <1>1. \A s \in Sessions : Moved(n0.link[s], n2.link[s])
    BY DEF Settles, Moved
  <1> QED BY <1>1 DEF Settles

LEMMA SettlesKept ==
    ASSUME IInv, NEW n, Settles(m, n), NEW armed, Become(n, armed, {}),
           UNCHANGED <<asked, heard, leftover, seat>>, TimersFor(n, armed)
    PROVE  Kept
  <1> DEFINE Y == Requested(Cancelled(n))
  <1>1. m' = n /\ timers' = armed /\ preempted' = preempted \cup Y
    BY DEF Become, Requested
  <1>2. HeardType(heard) /\ Shaped(n)
    BY DEF IInv, HeardType, Settles
  <1>3. LinksOK'
    BY <1>1 DEF Settles, Moved, IInv, LinksOK, Held
  <1>4. ASSUME ~ leftover PROVE PreemptedAsked' /\ Fine(n, asked, heard, preempted')
    <2>1. Fine(n, asked, heard, preempted)
      BY <1>2, <1>4 DEF IInv, Settles
    <2>2. Cancelled(n) \in SUBSET Pending(n)
      BY DEF Cancelled, Pending
    <2>3. NoneSucceeded(n, Y) /\ AskedOf(asked, Y)
      BY <1>2, <2>1, <2>2, PendingUnanswered
    <2>4. NoneCan(n, Y)
      BY <1>2, <2>1, CancelledCannot
    <2> HIDE DEF Y
    <2>5. Fine(n, asked, heard, preempted')
      BY <1>1, <2>1, <2>3, <2>4, CannotUnion DEF Fine
    <2>6. PreemptedAsked'
      BY <1>1, <1>4, <2>3 DEF IInv, PreemptedAsked, AskedOf
    <2> QED BY <2>5, <2>6
  <1>5. IInv'
    BY <1>1, <1>2, <1>3, <1>4 DEF IInv, AskedInOrder
  <1>6. ASSUME NEW s \in Sessions PROVE GivesUp(s) \/ GoesOn(s)
    BY <1>1 DEF Settles, Moved, Serving, GivesUp, GoesOn
  <1> QED BY <1>5, <1>6 DEF Kept

\* A text is typed on: its request still waits.
LEMMA TextMoves ==
    ASSUME NEW n, NEW n2, Shaped(n), n.text.on, Fields \subseteq DOMAIN n2,
           n2.text.on = TRUE, n2.text.session = n.text.session, n2.text.request = n.text.request,
           DOMAIN n2.text = DOMAIN n.text,
           n2.observations = n.observations, n2.semantics = n.semantics, n2.agents = n.agents,
           n2.link = n.link, n2.outbox = n.outbox, n2.consent = n.consent
    PROVE  Settles(n, n2)
  <1>1. Shaped(n2)
    BY DEF Shaped, Asks
  <1>2. \A s, r : /\ TextOf(n2, s, r) <=> TextOf(n, s, r)
                  /\ ObservationsOf(n2, s, r) = ObservationsOf(n, s, r)
                  /\ SemanticsOf(n2, s, r) = SemanticsOf(n, s, r)
    BY DEF TextOf, ObservationsOf, SemanticsOf
  <1>3. \A s, r : Waiting(n2, s, r) <=> Waiting(n, s, r)
    BY <1>2 DEF Waiting
  <1>4. ASSUME NEW A, NEW H, NEW X, Fine(n, A, H, X) PROVE Fine(n2, A, H, X)
    BY <1>2, <1>3, <1>4 DEF Fine, Settled, SettledAt, AtMostOne, Count, Serving, Held,
                            NoneSucceeded, NoneCan
  <1> QED BY <1>1, <1>3, <1>4 DEF Settles, Moved

\* A text that has been typed is answered or watched.
LEMMA TextDone ==
    ASSUME NEW n, Shaped(n), n.text.on
    PROVE  LET n2 == FinishTextSuccess(n) IN
           /\ Settles(n, n2)
           /\ ~ n2.text.on
           /\ n2.observations \in {n.observations, n.observations \cup
                {Observation(n.text.session, n.text.request, n.text.target)}}
           /\ n2.semantics = n.semantics
  <1> DEFINE s == n.text.session
             r == n.text.request
             n1 == [n EXCEPT !.text = NoText]
             o == Observation(s, r, n.text.target)
             watched == Observe(n1, o)
             answered == Respond(n1, s, r, "ok")
  <1>1. s \in Sessions /\ r \in Requests
    BY DEF Shaped, Asks
  <1>2. /\ n1.text = NoText /\ n1.observations = n.observations /\ n1.semantics = n.semantics
        /\ n1.link = n.link /\ n1.outbox = n.outbox /\ n1.agents = n.agents
        /\ n1.consent = n.consent /\ Fields \subseteq DOMAIN n1
    BY DEF Shaped, Fields
  <1>3. FinishTextSuccess(n) = watched \/ FinishTextSuccess(n) = answered
    BY DEF FinishTextSuccess
  <1>4. o.session = s /\ o.request = r
    BY DEF Observation
  <1> HIDE DEF n1, o
  <1>5. Shaped(n1)
    BY <1>2 DEF Shaped, NoText
  <1>6. Settles(n, answered)
    <2>1. /\ Shaped(answered) /\ Follows(n1, answered)
          /\ answered.text = n1.text /\ answered.observations = n1.observations
          /\ answered.semantics = n1.semantics
      BY <1>1, <1>5, RespondShaped
    <2>2. ASSUME NEW A, NEW H, NEW X, HeardType(H), Fine(n, A, H, X) PROVE Fine(answered, A, H, X)
      <3>1. Owed(n1, A, H, X, s, r) /\ Request(s, r) \notin X
        BY <1>2, <2>2, TakeText
      <3> QED BY <1>1, <1>5, <2>2, <3>1, RespondSettles
    <2> HIDE DEF answered
    <2>3. \A t, q : Waiting(answered, t, q) => Waiting(n, t, q)
      BY <1>2, <2>1 DEF Waiting, TextOf, ObservationsOf, SemanticsOf, NoText
    <2>4. \A t \in Sessions : Moved(n.link[t], answered.link[t])
      BY <1>2, <2>1 DEF Follows
    <2> QED BY <2>1, <2>2, <2>3, <2>4 DEF Settles
  <1>7. /\ watched.text = NoText /\ watched.observations = n.observations \cup {o}
        /\ watched.semantics = n.semantics
        /\ watched.link = n.link /\ watched.outbox = n.outbox /\ watched.agents = n.agents
        /\ watched.consent = n.consent /\ Fields \subseteq DOMAIN watched
    BY <1>2 DEF Observe, Fields
  <1>8. Settles(n, watched)
    <2> HIDE DEF watched
    <2>1. Shaped(watched)
      <3>1. IsFiniteSet(n.observations \cup {o})
        BY FS_AddElement DEF Shaped
      <3>2. \A pending \in watched.observations : Asks(pending)
        BY <1>1, <1>4, <1>7 DEF Shaped, Asks
      <3> QED BY <1>7, <3>1, <3>2 DEF Shaped, NoText
    <2>2. TextOf(n, s, r)
      BY DEF TextOf
    <2>3. \A t, q : /\ ~ TextOf(watched, t, q)
                    /\ SemanticsOf(watched, t, q) = SemanticsOf(n, t, q)
                    /\ (t = s /\ q = r) => ObservationsOf(watched, t, q) = ObservationsOf(n, t, q) \cup {o}
                    /\ ~ (t = s /\ q = r) => ObservationsOf(watched, t, q) = ObservationsOf(n, t, q)
                    /\ TextOf(n, t, q) <=> (t = s /\ q = r)
      BY <1>4, <1>7 DEF TextOf, NoText, SemanticsOf, ObservationsOf
    <2>4. \A t, q : Waiting(watched, t, q) <=> Waiting(n, t, q)
      BY <2>3 DEF Waiting
    <2>5. ASSUME NEW A, NEW H, NEW X, Fine(n, A, H, X) PROVE Fine(watched, A, H, X)
      <3>1. ASSUME NEW t \in Sessions, NEW q \in Requests PROVE SettledAt(watched, A, H, t, q)
        <4>1. SettledAt(n, A, H, t, q)
          BY <2>5 DEF Fine, Settled
        <4>2. Count(watched, H, t, q) = Count(n, H, t, q)
          BY <1>7 DEF Count
        <4>3. (Serving(watched, t) <=> Serving(n, t)) /\ (Held(watched, t) <=> Held(n, t))
          BY <1>7 DEF Serving, Held
        <4>4. AtMostOne(watched, t, q)
          <5>1. AtMostOne(n, t, q)
            BY <4>1 DEF SettledAt
          <5>2. CASE t = s /\ q = r
            <6>1. ObservationsOf(n, t, q) = {} /\ SemanticsOf(n, t, q) = {}
              BY <2>3, <5>1, <5>2 DEF AtMostOne
            <6>2. ObservationsOf(watched, t, q) = {o} /\ SemanticsOf(watched, t, q) = {}
              BY <2>3, <5>2, <6>1
            <6> QED BY <2>3, <6>2 DEF AtMostOne
          <5>3. CASE ~ (t = s /\ q = r)
            BY <2>3, <5>1, <5>3 DEF AtMostOne
          <5> QED BY <5>2, <5>3
        <4> QED BY <2>4, <4>1, <4>2, <4>3, <4>4 DEF SettledAt
      <3>2. NoneSucceeded(watched, X)
        BY <1>7, <2>5 DEF Fine, NoneSucceeded
      <3>3. NoneCan(watched, X)
        <4>1. Request(s, r) \notin X
          BY <1>1, <2>2, <2>5 DEF Fine, NoneCan
        <4> QED BY <2>3, <2>5, <4>1 DEF Fine, NoneCan
      <3> QED BY <3>1, <3>2, <3>3 DEF Fine, Settled
    <2> QED BY <1>7, <2>1, <2>4, <2>5 DEF Settles, Moved
  <1>9. ~ answered.text.on /\ answered.observations = n.observations /\ answered.semantics = n.semantics
    <2>1. /\ answered.text = n1.text /\ answered.observations = n1.observations
          /\ answered.semantics = n1.semantics
      BY <1>1, <1>5, RespondShaped
    <2> HIDE DEF answered
    <2> QED BY <1>2, <2>1 DEF NoText
  <1>10. ~ watched.text.on
    <2> HIDE DEF watched
    <2> QED BY <1>7 DEF NoText
  <1> HIDE DEF answered, watched
  <1> QED BY <1>3, <1>6, <1>7, <1>8, <1>9, <1>10 DEF o

\* One more character, or the next turn of the offer.
LEMMA TypedFacts ==
    ASSUME NEW n, Shaped(n), n.text.on
    PROVE  LET n2 == Typed(n) IN
           /\ Settles(n, n2)
           /\ n2.text.on => n2.text.generation = n.text.generation
           /\ n2.semantics = n.semantics
  <1> DEFINE n1 == [n EXCEPT !.clipboard = FALSE]
  <1>1. Settles(n, n1) /\ n1.text = n.text /\ n1.semantics = n.semantics
    <2>1. Leads(n, n1)
      BY FieldLeads
    <2> QED BY <2>1, LeadsSettles DEF Shaped, Fields
  <1> HIDE DEF n1
  <1>2. LET n2 == FinishTextSuccess(n1) IN
        Settles(n, n2) /\ ~ n2.text.on /\ n2.semantics = n.semantics
    <2>1. LET n2 == FinishTextSuccess(n1) IN
          Settles(n1, n2) /\ ~ n2.text.on /\ n2.semantics = n1.semantics
      BY <1>1, TextDone DEF Settles
    <2> QED BY <1>1, <2>1, SettlesTrans
  <1>3. LET n2 == FinishTextSuccess(n) IN
        Settles(n, n2) /\ ~ n2.text.on /\ n2.semantics = n.semantics
    BY TextDone
  <1> DEFINE offering == [n EXCEPT !.text.offered = TRUE, !.clipboard = TRUE]
             typing == [n EXCEPT !.text.left = @ - 1]
  <1>4. Typed(n) \in {FinishTextSuccess(n1), offering, FinishTextSuccess(n), typing}
    BY DEF Typed, n1
  <1>5. /\ Fields \subseteq DOMAIN offering
        /\ offering.text.on = TRUE /\ offering.text.session = n.text.session
        /\ offering.text.request = n.text.request /\ offering.text.generation = n.text.generation
        /\ DOMAIN offering.text = DOMAIN n.text
        /\ offering.observations = n.observations /\ offering.semantics = n.semantics
        /\ offering.agents = n.agents /\ offering.link = n.link /\ offering.outbox = n.outbox
        /\ offering.consent = n.consent
    BY DEF Shaped, Fields, WorkFields
  <1>6. /\ Fields \subseteq DOMAIN typing
        /\ typing.text.on = TRUE /\ typing.text.session = n.text.session
        /\ typing.text.request = n.text.request /\ typing.text.generation = n.text.generation
        /\ DOMAIN typing.text = DOMAIN n.text
        /\ typing.observations = n.observations /\ typing.semantics = n.semantics
        /\ typing.agents = n.agents /\ typing.link = n.link /\ typing.outbox = n.outbox
        /\ typing.consent = n.consent
    BY DEF Shaped, Fields, WorkFields
  <1> HIDE DEF offering, typing
  <1>7. Settles(n, offering) /\ Settles(n, typing)
    BY <1>5, <1>6, TextMoves
  <1> QED BY <1>2, <1>3, <1>4, <1>5, <1>6, <1>7

LEMMA AdvanceTextKept ==
    ASSUME IInv, NEW generation, AdvanceText(generation)
    PROVE  Kept
  <1> DEFINE timer == Timer("text", generation)
             fired == timers \ {timer}
             went == IF Stopped(m) THEN FinishTextError(m) ELSE Typed(m)
             failed == FinishTextError(m)
             watching == went.observations \ m.observations
             armed == fired \cup (IF went.text.on THEN {timer} ELSE {})
                            \cup {Timer("observation", pending.generation) : pending \in watching}
  <1>1. UNCHANGED <<seat, asked, heard, leftover>>
    BY DEF AdvanceText, Still
  <1>2. Shaped(m) /\ TimersFor(m, timers)
    BY DEF IInv
  <1>3. \A pending \in m.observations : Timer("observation", pending.generation) \in fired
    BY <1>2 DEF TimersFor, Timer
  <1>4. \A pending \in m.semantics : Timer("semantic", pending.generation) \in fired
    BY <1>2 DEF TimersFor, Timer
  <1>5. CASE ~ m.text.on \/ m.text.generation /= generation
    <2>1. Become(m, fired, {})
      BY <1>5 DEF AdvanceText
    <2>2. TimersFor(m, fired)
      BY <1>2, <1>3, <1>4, <1>5 DEF TimersFor, Timer
    <2>3. Leads(m, m)
      BY <1>2, LeadsRefl
    <2> HIDE DEF fired
    <2> QED BY <1>1, <2>1, <2>2, <2>3, BecomeQuietKept
  <1>6. CASE m.text.on /\ m.text.generation = generation
    <2>1. Become(went, armed, {}) \/ Become(failed, fired, {})
      BY <1>6 DEF AdvanceText
    <2>2. /\ Settles(m, failed) /\ ~ failed.text.on
          /\ failed.observations = m.observations /\ failed.semantics = m.semantics
      BY <1>2, <1>6, FinishTextErrorFacts, LeadsSettles DEF NoText
    <2>3. /\ Settles(m, went) /\ went.semantics = m.semantics
          /\ went.text.on => went.text.generation = generation
      <3>1. /\ Settles(m, Typed(m)) /\ Typed(m).semantics = m.semantics
            /\ Typed(m).text.on => Typed(m).text.generation = generation
        BY <1>2, <1>6, TypedFacts
      <3> HIDE DEF failed
      <3>2. went = failed \/ went = Typed(m)
        BY DEF failed
      <3> HIDE DEF went
      <3> QED BY <2>2, <3>1, <3>2
    <2> HIDE DEF failed, went, timer
    <2>4. TimersFor(failed, fired)
      BY <1>3, <1>4, <2>2 DEF TimersFor
    <2>5. TimersFor(went, armed)
      <3>1. went.text.on => Timer("text", went.text.generation) \in armed
        BY <2>3 DEF timer
      <3>2. \A pending \in went.observations : Timer("observation", pending.generation) \in armed
        BY <1>3
      <3>3. \A pending \in went.semantics : Timer("semantic", pending.generation) \in armed
        BY <1>4, <2>3
      <3> HIDE DEF armed
      <3> QED BY <3>1, <3>2, <3>3 DEF TimersFor
    <2> HIDE DEF armed, fired
    <2> QED BY <1>1, <2>1, <2>2, <2>3, <2>4, <2>5, SettlesKept
  <1> QED BY <1>5, <1>6

LEMMA HelperAnswersKept ==
    ASSUME IInv, NEW p, HelperAnswers(p)
    PROVE  Kept
  <1> DEFINE found == [p EXCEPT !.result = "matched"]
             n == [m EXCEPT !.semantics = (@ \ {p}) \cup {found}]
             g == [q \in m.semantics |-> IF q = p THEN found ELSE q]
  <1>1. /\ Become(n, timers, {}) /\ UNCHANGED <<asked, heard, leftover, seat>>
        /\ p \in m.semantics /\ Shaped(m)
    BY DEF HelperAnswers, Still, IInv
  <1>2. Derived(found, p) /\ found.cancelled \in BOOLEAN /\ DOMAIN found = DOMAIN p
    BY <1>1 DEF Shaped, Derived, WorkFields
  <1>3. \A q \in m.semantics : Derived(q, q) /\ q.cancelled \in BOOLEAN
    BY <1>1 DEF Shaped, Derived
  <1>4. /\ Fields \subseteq DOMAIN n /\ n.agents = m.agents /\ n.text = m.text
        /\ n.observations = m.observations /\ n.semantics = (m.semantics \ {p}) \cup {found}
        /\ n.link = m.link /\ n.outbox = m.outbox /\ n.consent = m.consent
    BY <1>1 DEF Shaped, Fields
  <1> HIDE DEF n, found
  <1>5. \A q \in m.semantics : g[q] = IF q = p THEN found ELSE q
    OBVIOUS
  <1> HIDE DEF g
  <1>6. n.semantics = {g[q] : q \in m.semantics}
    BY <1>1, <1>4, <1>5
  <1>7. \A q \in m.semantics : /\ Derived(g[q], q) /\ g[q].cancelled \in BOOLEAN
                               /\ DOMAIN g[q] = DOMAIN q
    BY <1>2, <1>3, <1>5
  <1>8. Leads(m, n)
    BY <1>1, <1>4, <1>6, <1>7, QueriesLeads
  <1> QED BY <1>1, <1>8, TimersLeads, BecomeQuietKept

(* ---- What is due is answered, one after the other ---- *)
Answered(n, p, outcome) ==
    Respond([n EXCEPT !.observations = @ \ {p}], p.session, p.request, outcome)

LEMMA AnsweredFacts ==
    ASSUME NEW n, Shaped(n), NEW p \in n.observations
    PROVE  LET n2 == Answered(n, p, "ok") IN
           /\ Settles(n, n2)
           /\ n2.text = n.text /\ n2.semantics = n.semantics
           /\ n2.observations = n.observations \ {p}
  <1> DEFINE s == p.session
             r == p.request
             n1 == [n EXCEPT !.observations = @ \ {p}]
             n2 == Respond(n1, s, r, "ok")
  <1>1. s \in Sessions /\ r \in Requests
    BY DEF Shaped, Asks
  <1>2. /\ n1.text = n.text /\ n1.observations = n.observations \ {p} /\ n1.semantics = n.semantics
        /\ n1.link = n.link /\ n1.outbox = n.outbox /\ n1.agents = n.agents
        /\ n1.consent = n.consent /\ Fields \subseteq DOMAIN n1
    BY DEF Shaped, Fields
  <1> HIDE DEF n1
  <1>3. Shaped(n1)
    <2>1. IsFiniteSet(n1.observations)
      BY <1>2, FS_Subset DEF Shaped
    <2> QED BY <1>2, <2>1 DEF Shaped
  <1>4. /\ Shaped(n2) /\ Follows(n1, n2)
        /\ n2.text = n1.text /\ n2.observations = n1.observations /\ n2.semantics = n1.semantics
    BY <1>1, <1>3, RespondShaped
  <1>5. ASSUME NEW A, NEW H, NEW X, HeardType(H), Fine(n, A, H, X) PROVE Fine(n2, A, H, X)
    <2>1. Owed(n1, A, H, X, s, r) /\ Request(s, r) \notin X
      BY <1>2, <1>5, TakeObservation
    <2> QED BY <1>1, <1>3, <1>5, <2>1, RespondSettles
  <1> HIDE DEF n2
  <1>6. /\ \A t \in Sessions : Moved(n.link[t], n2.link[t])
        /\ \A t, q : Waiting(n2, t, q) => Waiting(n, t, q)
    BY <1>2, <1>4 DEF Follows, Waiting, TextOf, ObservationsOf, SemanticsOf
  <1> QED BY <1>2, <1>4, <1>5, <1>6 DEF Settles, Answered, n2, n1

AnsweredObservations(n0, T, n) ==
    /\ Settles(n0, n)
    /\ n.text = n0.text /\ n.semantics = n0.semantics
    /\ n.observations = n0.observations \ T

Observed ==
    INSTANCE FoldFacts WITH
        Op <- LAMBDA n0, pending, n :
                  Respond([n EXCEPT !.observations = @ \ {pending}],
                          pending.session, pending.request, "ok"),
        Pick <- LAMBDA T : CHOOSE pending \in T : TRUE,
        Holds <- AnsweredObservations

LEMMA AnsweredObservationsKeeps ==
    ASSUME NEW n, Shaped(n), NEW S \in SUBSET n.observations
    PROVE  AnsweredObservations(n, S, Observed!Fold(n, n, S))
  <1>1. Observed!IsFiniteSet(S) /\ Observed!Picks(S)
    <2>1. IsFiniteSet(S)
      BY FS_Subset DEF Shaped
    <2> QED BY <2>1 DEF IsFiniteSet, Observed!IsFiniteSet, Observed!Picks
  <1>2. AnsweredObservations(n, {}, n)
    BY LeadsRefl, LeadsSettles DEF AnsweredObservations
  <1>3. ASSUME NEW T \in SUBSET S, NEW k, NEW p \in T, AnsweredObservations(n, T \ {p}, k)
        PROVE  AnsweredObservations(n, T, Answered(k, p, "ok"))
    <2>1. Shaped(k) /\ p \in k.observations
      BY <1>3 DEF AnsweredObservations, Settles
    <2> DEFINE k2 == Answered(k, p, "ok")
    <2>2. /\ Settles(k, k2) /\ k2.text = k.text
          /\ k2.observations = k.observations \ {p} /\ k2.semantics = k.semantics
      BY <2>1, AnsweredFacts
    <2> HIDE DEF k2
    <2>3. Settles(n, k2)
      BY <1>3, <2>2, SettlesTrans DEF AnsweredObservations
    <2>4. AnsweredObservations(n, T, k2)
      BY <1>3, <2>2, <2>3 DEF AnsweredObservations
    <2> QED BY <2>4 DEF k2
  <1>4. \A T \in SUBSET S : \A k :
           LET p == CHOOSE pending \in T : TRUE IN
           T # {} /\ AnsweredObservations(n, T \ {p}, k)
           => AnsweredObservations(n, T, Respond([k EXCEPT !.observations = @ \ {p}],
                                                 p.session, p.request, "ok"))
    BY <1>3 DEF Answered
  <1> QED BY <1>1, <1>2, <1>4, Observed!FoldKeeps

LEMMA FinishObservationKept ==
    ASSUME IInv, NEW generation, FinishObservation(generation)
    PROVE  Kept
  <1> DEFINE timer == Timer("observation", generation)
             synced == Synced(m)
             due == {pending \in synced.observations : pending.generation = generation}
             answered == Observed!Fold(synced, synced, due)
             failed == Watching!Fold(synced, synced, due)
  <1>1. /\ \/ Become(answered, timers \ {timer}, {})
           \/ Become(failed, timers \ {timer}, {})
           \/ Become(synced, timers, {})
        /\ UNCHANGED <<asked, heard, leftover, seat>>
    BY DEF FinishObservation, Still, FoldSet, MapThenFoldSet, Observed!Fold, Watching!Fold
  <1>2. Leads(m, synced) /\ Settles(m, synced)
    BY SyncEventsLeads, LeadsRefl, LeadsSettles DEF Synced, IInv
  <1> HIDE DEF synced
  <1>3. AnsweredObservations(synced, due, answered) /\ FailedObservations(synced, due, failed)
    BY <1>2, AnsweredObservationsKeeps, FailObservationsKeeps DEF Leads
  <1>4. Settles(m, answered) /\ Settles(m, failed)
    BY <1>2, <1>3, SettlesTrans, LeadsSettles DEF AnsweredObservations, FailedObservations, Leads
  <1>5. TimersFor(synced, timers)
    BY <1>2, TimersLeads
  <1> HIDE DEF answered, failed
  <1>6. ASSUME NEW n, n.text = synced.text, n.semantics = synced.semantics,
               n.observations = synced.observations \ due
        PROVE  TimersFor(n, timers \ {timer})
    <2>1. n.text.on => Timer("text", n.text.generation) \in timers \ {timer}
      BY <1>5, <1>6 DEF TimersFor, Timer
    <2>2. \A pending \in n.observations :
             Timer("observation", pending.generation) \in timers \ {timer}
      BY <1>5, <1>6 DEF TimersFor, Timer
    <2>3. \A pending \in n.semantics : Timer("semantic", pending.generation) \in timers \ {timer}
      BY <1>5, <1>6 DEF TimersFor, Timer
    <2> QED BY <2>1, <2>2, <2>3 DEF TimersFor
  <1>7. TimersFor(answered, timers \ {timer}) /\ TimersFor(failed, timers \ {timer})
    BY <1>3, <1>6 DEF AnsweredObservations, FailedObservations
  <1> HIDE DEF timer
  <1> QED BY <1>1, <1>2, <1>4, <1>5, <1>7, SettlesKept

Told(n, p) ==
    Respond([n EXCEPT !.semantics = @ \ {p}], p.session, p.request, SemanticOutcome(n, p))

LEMMA ToldFacts ==
    ASSUME NEW n, Shaped(n), NEW p \in n.semantics
    PROVE  LET n2 == Told(n, p) IN
           /\ Settles(n, n2)
           /\ n2.text = n.text /\ n2.observations = n.observations
           /\ n2.semantics = n.semantics \ {p}
  <1> DEFINE s == p.session
             r == p.request
             outcome == SemanticOutcome(n, p)
             n1 == [n EXCEPT !.semantics = @ \ {p}]
             n2 == Respond(n1, s, r, outcome)
  <1>1. s \in Sessions /\ r \in Requests
    BY DEF Shaped, Asks
  <1>2. /\ n1.text = n.text /\ n1.observations = n.observations /\ n1.semantics = n.semantics \ {p}
        /\ n1.link = n.link /\ n1.outbox = n.outbox /\ n1.agents = n.agents
        /\ n1.consent = n.consent /\ Fields \subseteq DOMAIN n1
    BY DEF Shaped, Fields
  <1>3. outcome = "ok" => ~ p.cancelled
    BY DEF SemanticOutcome
  <1> HIDE DEF n1, outcome
  <1>4. Shaped(n1)
    <2>1. IsFiniteSet(n1.semantics)
      BY <1>2, FS_Subset DEF Shaped
    <2> QED BY <1>2, <2>1 DEF Shaped
  <1>5. /\ Shaped(n2) /\ Follows(n1, n2)
        /\ n2.text = n1.text /\ n2.observations = n1.observations /\ n2.semantics = n1.semantics
    BY <1>1, <1>4, RespondShaped
  <1>6. ASSUME NEW A, NEW H, NEW X, HeardType(H), Fine(n, A, H, X) PROVE Fine(n2, A, H, X)
    <2>1. Owed(n1, A, H, X, s, r) /\ (Request(s, r) \in X => p.cancelled)
      BY <1>2, <1>6, TakeSemantic
    <2> QED BY <1>1, <1>3, <1>4, <1>6, <2>1, RespondSettles
  <1> HIDE DEF n2
  <1>7. /\ \A t \in Sessions : Moved(n.link[t], n2.link[t])
        /\ \A t, q : Waiting(n2, t, q) => Waiting(n, t, q)
    BY <1>2, <1>5 DEF Follows, Waiting, TextOf, ObservationsOf, SemanticsOf
  <1> QED BY <1>2, <1>5, <1>6, <1>7 DEF Settles, Told, n2, n1, outcome

ToldSemantics(n0, T, n) ==
    /\ Settles(n0, n)
    /\ n.text = n0.text /\ n.observations = n0.observations
    /\ n.semantics = n0.semantics \ T

Telling ==
    INSTANCE FoldFacts WITH
        Op <- LAMBDA n0, pending, n :
                  Respond([n EXCEPT !.semantics = @ \ {pending}],
                          pending.session, pending.request, SemanticOutcome(n, pending)),
        Pick <- LAMBDA T : CHOOSE pending \in T : TRUE,
        Holds <- ToldSemantics

LEMMA ToldSemanticsKeeps ==
    ASSUME NEW n, Shaped(n), NEW S \in SUBSET n.semantics
    PROVE  ToldSemantics(n, S, Telling!Fold(n, n, S))
  <1>1. Telling!IsFiniteSet(S) /\ Telling!Picks(S)
    <2>1. IsFiniteSet(S)
      BY FS_Subset DEF Shaped
    <2> QED BY <2>1 DEF IsFiniteSet, Telling!IsFiniteSet, Telling!Picks
  <1>2. ToldSemantics(n, {}, n)
    BY LeadsRefl, LeadsSettles DEF ToldSemantics
  <1>3. ASSUME NEW T \in SUBSET S, NEW k, NEW p \in T, ToldSemantics(n, T \ {p}, k)
        PROVE  ToldSemantics(n, T, Told(k, p))
    <2>1. Shaped(k) /\ p \in k.semantics
      BY <1>3 DEF ToldSemantics, Settles
    <2> DEFINE k2 == Told(k, p)
    <2>2. /\ Settles(k, k2) /\ k2.text = k.text
          /\ k2.observations = k.observations /\ k2.semantics = k.semantics \ {p}
      BY <2>1, ToldFacts
    <2> HIDE DEF k2
    <2>3. Settles(n, k2)
      BY <1>3, <2>2, SettlesTrans DEF ToldSemantics
    <2>4. ToldSemantics(n, T, k2)
      BY <1>3, <2>2, <2>3 DEF ToldSemantics
    <2> QED BY <2>4 DEF k2
  <1>4. \A T \in SUBSET S : \A k :
           LET p == CHOOSE pending \in T : TRUE IN
           T # {} /\ ToldSemantics(n, T \ {p}, k)
           => ToldSemantics(n, T, Respond([k EXCEPT !.semantics = @ \ {p}],
                                          p.session, p.request, SemanticOutcome(k, p)))
    BY <1>3 DEF Told
  <1> QED BY <1>1, <1>2, <1>4, Telling!FoldKeeps

LEMMA FinishSemanticKept ==
    ASSUME IInv, NEW generation, FinishSemantic(generation)
    PROVE  Kept
  <1> DEFINE timer == Timer("semantic", generation)
             due == {pending \in m.semantics : pending.generation = generation}
             n == Telling!Fold(m, m, due)
  <1>1. Become(n, timers \ {timer}, {}) /\ UNCHANGED <<asked, heard, leftover, seat>>
    BY DEF FinishSemantic, Still, FoldSet, MapThenFoldSet, Telling!Fold
  <1>2. Shaped(m) /\ TimersFor(m, timers)
    BY DEF IInv
  <1>3. ToldSemantics(m, due, n)
    BY <1>2, ToldSemanticsKeeps
  <1> HIDE DEF n
  <1>4. TimersFor(n, timers \ {timer})
    <2>1. n.text.on => Timer("text", n.text.generation) \in timers \ {timer}
      BY <1>2, <1>3 DEF ToldSemantics, TimersFor, Timer
    <2>2. \A pending \in n.observations :
             Timer("observation", pending.generation) \in timers \ {timer}
      BY <1>2, <1>3 DEF ToldSemantics, TimersFor, Timer
    <2>3. \A pending \in n.semantics : Timer("semantic", pending.generation) \in timers \ {timer}
      BY <1>2, <1>3 DEF ToldSemantics, TimersFor, Timer
    <2> QED BY <2>1, <2>2, <2>3 DEF TimersFor
  <1> HIDE DEF timer
  <1> QED BY <1>1, <1>3, <1>4, SettlesKept DEF ToldSemantics

(* ---- Requests arrive ---- *)
\* What is known of a request that arrives, and of the manager that has handled it.
Arrives(s, r) ==
    /\ s \in Sessions /\ r \in Requests /\ r \notin asked[s]
    /\ asked' = [asked EXCEPT ![s] = @ \cup {r}]
    /\ m.link[s] = "greeted" /\ AskedInOrder'
    /\ UNCHANGED <<seat, heard, leftover>>

LEMMA AskArrives ==
    ASSUME IInv, NEW s \in Sessions, NEW r \in Requests, Ask(s, r)
    PROVE  Arrives(s, r)
  <1>1. PICK k \in Nat : asked[s] = 1..k
    BY DEF IInv, AskedInOrder
  <1>2. Cardinality(asked[s]) = k
    BY <1>1, FS_Interval
  <1>3. r = k + 1 /\ asked' = [asked EXCEPT ![s] = @ \cup {r}]
    BY <1>2 DEF Ask
  <1>4. asked[s] \cup {r} = 1..(k + 1) /\ r \notin asked[s]
    BY <1>1, <1>3
  <1>5. AskedInOrder'
    <2>1. DOMAIN asked = Sessions /\ \A t \in Sessions : \E j \in Nat : asked[t] = 1..j
      BY DEF IInv, AskedInOrder
    <2>2. asked'[s] = 1..(k + 1) /\ k + 1 \in Nat
      BY <1>3, <1>4, <2>1
    <2>3. \A t \in Sessions \ {s} : asked'[t] = asked[t]
      BY <1>3, <2>1
    <2>4. \A t \in Sessions : \E j \in Nat : asked'[t] = 1..j
      BY <2>1, <2>2, <2>3
    <2> QED BY <1>3, <2>1, <2>4 DEF AskedInOrder
  <1> QED BY <1>3, <1>4, <1>5 DEF Ask, Arrives

\* The manager as it was when the request arrived, but for what it does of its own.
LEMMA ArrivalFacts ==
    ASSUME IInv, NEW s, NEW r, Arrives(s, r), ~ leftover, NEW n, Leads(m, n)
    PROVE  /\ Owed(n, asked', heard, preempted, s, r)
           /\ Request(s, r) \notin preempted
  <1>1. s \in Sessions /\ r \in Requests /\ r \notin asked[s] /\ HeardType(heard)
    BY DEF Arrives, IInv, HeardType
  <1>2. Fine(n, asked, heard, preempted)
    BY <1>1 DEF IInv, Leads
  <1>3. SettledAt(n, asked, heard, s, r)
    BY <1>1, <1>2 DEF Fine, Settled
  <1>4. ~ Waiting(n, s, r) /\ Count(n, heard, s, r) = 0
    BY <1>1, <1>3 DEF SettledAt
  <1>5. Serving(n, s) => Held(n, s)
    BY <1>1 DEF Arrives, Leads, Follows, Moved, Serving, Held
  <1>6. r \in asked'[s]
    BY <1>1 DEF Arrives, IInv, AskedInOrder
  <1>7. ASSUME NEW t \in Sessions, NEW q \in Requests, <<t, q>> # <<s, r>>
        PROVE  SettledAt(n, asked', heard, t, q)
    <2>1. q \in asked'[t] <=> q \in asked[t]
      BY <1>7 DEF Arrives, IInv, AskedInOrder
    <2>2. SettledAt(n, asked, heard, t, q)
      BY <1>2 DEF Fine, Settled
    <2> QED BY <2>1, <2>2 DEF SettledAt
  <1>8. Request(s, r) \notin preempted
    <2> SUFFICES ASSUME Request(s, r) \in preempted PROVE FALSE
      OBVIOUS
    <2>1. PICK t \in Sessions : \E q \in asked[t] : Request(s, r) = Request(t, q)
      BY DEF IInv, PreemptedAsked
    <2> QED BY <1>1, <2>1 DEF Request
  <1>9. NoneSucceeded(n, preempted) /\ NoneCan(n, preempted)
    BY <1>2 DEF Fine
  <1> QED BY <1>4, <1>5, <1>6, <1>7, <1>8, <1>9 DEF Owed

\* A step that ends with a manager in which the request is answered or waits.
LEMMA ArrivalKept ==
    ASSUME IInv, NEW s, NEW r, Arrives(s, r), NEW n, NEW armed, Become(n, armed, {}),
           Shaped(n), \A t \in Sessions : Moved(m.link[t], n.link[t]),
           \A t \in Sessions, q \in Requests :
              Waiting(n, t, q) => Waiting(m, t, q) \/ (t = s /\ q = r),
           TimersFor(n, armed),
           ~ leftover => Fine(n, asked', heard, preempted)
    PROVE  Kept
  <1> DEFINE Y == Requested(Cancelled(n))
  <1>1. m' = n /\ timers' = armed /\ preempted' = preempted \cup Y
    BY DEF Become, Requested
  <1>2. HeardType(heard) /\ UNCHANGED <<seat, heard, leftover>> /\ AskedInOrder'
    BY DEF IInv, HeardType, Arrives
  <1>3. LinksOK'
    BY <1>1, <1>2 DEF Moved, IInv, LinksOK, Held
  <1>4. \A t \in Sessions : asked[t] \subseteq asked'[t]
    BY DEF Arrives, IInv, AskedInOrder
  <1>5. ASSUME ~ leftover PROVE PreemptedAsked' /\ Fine(n, asked', heard, preempted')
    <2>1. Fine(n, asked', heard, preempted)
      BY <1>5
    <2>2. Cancelled(n) \in SUBSET Pending(n)
      BY DEF Cancelled, Pending
    <2>3. NoneSucceeded(n, Y) /\ AskedOf(asked', Y)
      BY <1>2, <2>1, <2>2, PendingUnanswered
    <2>4. NoneCan(n, Y)
      BY <1>2, <2>1, CancelledCannot
    <2> HIDE DEF Y
    <2>5. Fine(n, asked', heard, preempted')
      BY <1>1, <2>1, <2>3, <2>4, CannotUnion DEF Fine
    <2>6. PreemptedAsked'
      BY <1>1, <1>4, <1>5, <2>3 DEF IInv, PreemptedAsked, AskedOf
    <2> QED BY <2>5, <2>6
  <1>6. IInv'
    BY <1>1, <1>2, <1>3, <1>5 DEF IInv
  <1>7. ASSUME NEW t \in Sessions PROVE GivesUp(t) \/ GoesOn(t)
    <2>1. Serving(m, t)' => Serving(m, t)
      BY <1>1 DEF Moved, Serving
    <2>2. \A q \in Requests : Waiting(m, t, q)' => Waiting(m, t, q) \/ q \notin asked[t]
      BY <1>1 DEF Arrives
    <2> QED BY <1>4, <2>1, <2>2 DEF GivesUp, GoesOn
  <1> QED BY <1>6, <1>7 DEF Kept

LEMMA ReplyKept ==
    ASSUME IInv, NEW s, NEW r, Arrives(s, r), NEW n, Leads(m, n), NEW outcome,
           Reply(n, s, r, outcome)
    PROVE  Kept
  <1> DEFINE n1 == Respond(n, s, r, outcome)
             n2 == Handled(n1)
             none == {}
  <1>1. s \in Sessions /\ r \in Requests /\ Shaped(n) /\ HeardType(heard)
    BY DEF Arrives, Leads, IInv, HeardType
  <1>2. /\ Shaped(n1) /\ Follows(n, n1)
    BY <1>1, RespondShaped
  <1>3. ~ leftover => Fine(n1, asked', heard, preempted)
    BY <1>1, ArrivalFacts, RespondSettles
  <1>4. Become(n2, timers, {})
    BY DEF Reply
  <1> HIDE DEF n1
  <1>5. Leads(n1, n2)
    BY <1>2, HandledLeads
  <1> HIDE DEF n2
  <1>6. Shaped(n2) /\ (~ leftover => Fine(n2, asked', heard, preempted))
    BY <1>1, <1>3, <1>5 DEF Leads
  <1>7. Follows(m, n2)
    <2>1. Follows(m, n) /\ Follows(n, n1) /\ Follows(n1, n2)
      BY <1>2, <1>5 DEF Leads
    <2>2. n2.text = m.text \/ n2.text = NoText
      BY <2>1 DEF Follows
    <2>3. n2.observations \subseteq m.observations
      BY <2>1 DEF Follows
    <2>4. \A q \in n2.semantics : \E p \in m.semantics : Derived(q, p)
      BY <2>1 DEF Follows, Derived
    <2>5. \A t \in Sessions : Moved(m.link[t], n2.link[t])
      BY <2>1 DEF Follows, Moved
    <2> QED BY <2>2, <2>3, <2>4, <2>5 DEF Follows
  <1>8. TimersFor(n2, timers)
    BY <1>7, TimersStay DEF IInv
  <1>9. \A t, q : Waiting(n2, t, q) => Waiting(m, t, q)
    BY <1>7 DEF Follows, Waiting, TextOf, ObservationsOf, SemanticsOf, Derived, NoText
  <1> QED BY <1>4, <1>6, <1>7, <1>8, <1>9, ArrivalKept DEF Follows

\* Something more waits, for the request that has arrived.
AddsOne(n, n2, s, r) ==
    /\ Fields \subseteq DOMAIN n2 /\ n2.agents = n.agents /\ n2.consent = n.consent
    /\ n2.link = n.link /\ n2.outbox = n.outbox
    /\ \/ /\ n2.text = n.text /\ n2.semantics = n.semantics
          /\ \E x : n2.observations = n.observations \cup {x} /\ x.session = s /\ x.request = r
       \/ /\ ~ n.text.on /\ n2.observations = n.observations /\ n2.semantics = n.semantics
          /\ n2.text.on = TRUE /\ n2.text.session = s /\ n2.text.request = r
          /\ WorkFields \cup {"on", "left", "offered"} \subseteq DOMAIN n2.text
       \/ /\ n2.text = n.text /\ n2.observations = n.observations
          /\ \E x : /\ n2.semantics = n.semantics \cup {x} /\ x.session = s /\ x.request = r
                    /\ x.cancelled \in BOOLEAN
                    /\ WorkFields \cup {"cancelled", "result"} \subseteq DOMAIN x

LEMMA AddedShaped ==
    ASSUME NEW n, NEW n2, NEW s \in Sessions, NEW r \in Requests, Shaped(n), AddsOne(n, n2, s, r)
    PROVE  Shaped(n2)
  <1>1. \A x : IsFiniteSet(n.observations \cup {x}) /\ IsFiniteSet(n.semantics \cup {x})
    <2>1. IsFiniteSet(n.observations) /\ IsFiniteSet(n.semantics)
      BY DEF Shaped
    <2> QED BY <2>1, FS_AddElement
  <1>2. IsFiniteSet(n2.observations) /\ \A pending \in n2.observations : Asks(pending)
    <2>1. CASE n2.observations = n.observations
      BY <2>1 DEF Shaped
    <2>2. ASSUME NEW x, n2.observations = n.observations \cup {x}, x.session = s, x.request = r
          PROVE  IsFiniteSet(n2.observations) /\ \A pending \in n2.observations : Asks(pending)
      BY <1>1, <2>2 DEF Shaped, Asks
    <2> QED BY <2>1, <2>2 DEF AddsOne
  <1>3. /\ IsFiniteSet(n2.semantics)
        /\ \A pending \in n2.semantics :
              /\ Asks(pending) /\ pending.cancelled \in BOOLEAN
              /\ WorkFields \cup {"cancelled", "result"} \subseteq DOMAIN pending
    <2>1. CASE n2.semantics = n.semantics
      BY <2>1 DEF Shaped
    <2>2. ASSUME NEW x, n2.semantics = n.semantics \cup {x}, x.session = s, x.request = r,
                 x.cancelled \in BOOLEAN, WorkFields \cup {"cancelled", "result"} \subseteq DOMAIN x
          PROVE  /\ IsFiniteSet(n2.semantics)
                 /\ \A pending \in n2.semantics :
                       /\ Asks(pending) /\ pending.cancelled \in BOOLEAN
                       /\ WorkFields \cup {"cancelled", "result"} \subseteq DOMAIN pending
      BY <1>1, <2>2 DEF Shaped, Asks
    <2> QED BY <2>1, <2>2 DEF AddsOne
  <1>4. /\ n2.text.on \in BOOLEAN
        /\ n2.text.on => Asks(n2.text) /\ WorkFields \cup {"on", "left", "offered"} \subseteq DOMAIN n2.text
    BY DEF Shaped, AddsOne, Asks
  <1> QED BY <1>2, <1>3, <1>4 DEF Shaped, AddsOne

LEMMA AddedFine ==
    ASSUME NEW n, NEW n2, NEW s \in Sessions, NEW r \in Requests, AddsOne(n, n2, s, r),
           NEW A, NEW H, NEW X, Owed(n, A, H, X, s, r), Request(s, r) \notin X
    PROVE  Fine(n2, A, H, X)
  <1>1. ASSUME NEW t, NEW q, ~ (t = s /\ q = r)
        PROVE  /\ TextOf(n2, t, q) <=> TextOf(n, t, q)
               /\ ObservationsOf(n2, t, q) = ObservationsOf(n, t, q)
               /\ SemanticsOf(n2, t, q) = SemanticsOf(n, t, q)
    BY <1>1 DEF AddsOne, TextOf, ObservationsOf, SemanticsOf
  <1>2. AtMostOne(n2, s, r) /\ Waiting(n2, s, r)
    <2>1. ~ TextOf(n, s, r) /\ ObservationsOf(n, s, r) = {} /\ SemanticsOf(n, s, r) = {}
      BY DEF Owed, Waiting
    <2>2. ASSUME NEW x, n2.text = n.text, n2.semantics = n.semantics,
                 n2.observations = n.observations \cup {x}, x.session = s, x.request = r
          PROVE  AtMostOne(n2, s, r) /\ Waiting(n2, s, r)
      <3>1. ~ TextOf(n2, s, r) /\ ObservationsOf(n2, s, r) = {x} /\ SemanticsOf(n2, s, r) = {}
        BY <2>1, <2>2 DEF TextOf, ObservationsOf, SemanticsOf
      <3> QED BY <3>1 DEF AtMostOne, Waiting
    <2>3. ASSUME n2.observations = n.observations, n2.semantics = n.semantics,
                 n2.text.on = TRUE, n2.text.session = s, n2.text.request = r
          PROVE  AtMostOne(n2, s, r) /\ Waiting(n2, s, r)
      <3>1. TextOf(n2, s, r) /\ ObservationsOf(n2, s, r) = {} /\ SemanticsOf(n2, s, r) = {}
        BY <2>1, <2>3 DEF TextOf, ObservationsOf, SemanticsOf
      <3> QED BY <3>1 DEF AtMostOne, Waiting
    <2>4. ASSUME NEW x, n2.text = n.text, n2.observations = n.observations,
                 n2.semantics = n.semantics \cup {x}, x.session = s, x.request = r
          PROVE  AtMostOne(n2, s, r) /\ Waiting(n2, s, r)
      <3>1. ~ TextOf(n2, s, r) /\ ObservationsOf(n2, s, r) = {} /\ SemanticsOf(n2, s, r) = {x}
        BY <2>1, <2>4 DEF TextOf, ObservationsOf, SemanticsOf
      <3> QED BY <3>1 DEF AtMostOne, Waiting
    <2> QED BY <2>2, <2>3, <2>4 DEF AddsOne
  <1>3. \A t, q : /\ Count(n2, H, t, q) = Count(n, H, t, q)
                  /\ Serving(n2, t) <=> Serving(n, t)
                  /\ Held(n2, t) <=> Held(n, t)
    BY DEF AddsOne, Count, Serving, Held
  <1>4. ASSUME NEW t \in Sessions, NEW q \in Requests
        PROVE  SettledAt(n2, A, H, t, q)
    <2>1. CASE t = s /\ q = r
      BY <1>2, <1>3, <2>1 DEF SettledAt, Owed
    <2>2. CASE ~ (t = s /\ q = r)
      <3>1. SettledAt(n, A, H, t, q)
        BY <2>2 DEF Owed
      <3> QED BY <1>1, <1>3, <2>2, <3>1 DEF SettledAt, AtMostOne, Waiting
    <2> QED BY <2>1, <2>2
  <1>5. NoneSucceeded(n2, X)
    BY DEF Owed, NoneSucceeded, AddsOne
  <1>6. NoneCan(n2, X)
    <2> SUFFICES ASSUME NEW t \in Sessions, NEW q \in Requests, Request(t, q) \in X
                 PROVE  /\ ~ TextOf(n2, t, q) /\ ObservationsOf(n2, t, q) = {}
                        /\ \A pending \in SemanticsOf(n2, t, q) : pending.cancelled
      BY DEF NoneCan
    <2>1. ~ (t = s /\ q = r)
      OBVIOUS
    <2> QED BY <1>1, <2>1 DEF Owed, NoneCan
  <1> QED BY <1>4, <1>5, <1>6 DEF Fine, Settled

LEMMA WaitKept ==
    ASSUME IInv, NEW s, NEW r, Arrives(s, r), NEW n, Leads(m, n), NEW n1, AddsOne(n, n1, s, r),
           NEW kind, TimersFor(n1, timers \cup {Timer(kind, next)}), Wait(n1, s, r, kind)
    PROVE  Kept
  <1> DEFINE n2 == Handled(n1)
             armed == timers \cup {Timer(kind, next)}
  <1>1. s \in Sessions /\ r \in Requests /\ Shaped(n) /\ HeardType(heard) /\ Shaped(m)
    BY DEF Arrives, Leads, IInv, HeardType
  <1>2. CASE Reply(m, s, r, "error")
    BY <1>1, <1>2, LeadsRefl, ReplyKept
  <1>3. CASE Become(n2, armed, {})
    <2>1. Shaped(n1)
      BY <1>1, AddedShaped
    <2>2. ~ leftover => Fine(n1, asked', heard, preempted)
      BY <1>1, ArrivalFacts, AddedFine
    <2>3. Leads(n1, n2)
      BY <2>1, HandledLeads
    <2> HIDE DEF n2, armed
    <2>4. Shaped(n2) /\ (~ leftover => Fine(n2, asked', heard, preempted))
      BY <1>1, <2>2, <2>3 DEF Leads
    <2>5. TimersFor(n2, armed)
      BY <2>3, TimersStay DEF Leads, armed
    <2>6. \A t \in Sessions : Moved(m.link[t], n2.link[t])
      BY <2>3 DEF Leads, Follows, Moved, AddsOne
    <2>7. ASSUME NEW t, NEW q, Waiting(n2, t, q), ~ (t = s /\ q = r)
          PROVE  Waiting(m, t, q)
      <3>1. Waiting(n1, t, q)
        BY <2>3, <2>7 DEF Leads, Follows, Waiting, TextOf, ObservationsOf, SemanticsOf, Derived, NoText
      <3>2. Waiting(n, t, q)
        BY <2>7, <3>1 DEF AddsOne, Waiting, TextOf, ObservationsOf, SemanticsOf
      <3> QED BY <3>2 DEF Leads, Follows, Waiting, TextOf, ObservationsOf, SemanticsOf, Derived, NoText
    <2> QED BY <1>3, <2>4, <2>5, <2>6, <2>7, ArrivalKept
  <1> QED BY <1>2, <1>3 DEF Wait

LEMMA AskSnapshotKept ==
    ASSUME IInv, NEW s \in Sessions, NEW r \in Requests, AskSnapshot(s, r)
    PROVE  Kept
  <1> DEFINE now == SyncEvents(m)
             outcome == Authorize(now.agents, s, {"observe"})
  <1>1. Arrives(s, r) /\ Reply(now, s, r, outcome)
    BY AskArrives DEF AskSnapshot
  <1>2. Leads(m, now)
    BY SyncEventsLeads DEF IInv
  <1> HIDE DEF now, outcome
  <1> QED BY <1>1, <1>2, ReplyKept

LEMMA AskKeyKept ==
    ASSUME IInv, NEW s \in Sessions, NEW r \in Requests, NEW c, NEW observe, NEW pointer,
           AskKey(s, r, c, observe, pointer)
    PROVE  Kept
  <1> DEFINE now == SyncEvents(m)
             o == Observation(s, r, c)
             n1 == Observe(now, o)
  <1>1. Arrives(s, r) /\ (\/ Reply(now, s, r, "error") \/ Reply(now, s, r, "ok")
                          \/ Wait(n1, s, r, "observation"))
    BY AskArrives DEF AskKey
  <1>2. Leads(m, now)
    BY SyncEventsLeads DEF IInv
  <1> HIDE DEF now
  <1>3. o.session = s /\ o.request = r /\ o.generation = next
    BY DEF Observation
  <1> HIDE DEF o
  <1>4. AddsOne(now, n1, s, r) /\ n1.observations = now.observations \cup {o}
    <2>1. /\ Fields \subseteq DOMAIN n1 /\ n1.agents = now.agents /\ n1.consent = now.consent
          /\ n1.link = now.link /\ n1.outbox = now.outbox
          /\ n1.text = now.text /\ n1.semantics = now.semantics
          /\ n1.observations = now.observations \cup {o}
      BY <1>2 DEF Observe, Leads, Shaped, Fields
    <2> HIDE DEF n1
    <2> QED BY <1>3, <2>1 DEF AddsOne
  <1>5. TimersFor(n1, timers \cup {Timer("observation", next)})
    <2>1. TimersFor(now, timers)
      BY <1>2, TimersLeads
    <2>2. n1.text = now.text /\ n1.semantics = now.semantics
      BY <1>2 DEF Observe, Leads, Shaped, Fields
    <2> HIDE DEF n1
    <2> QED BY <1>3, <1>4, <2>1, <2>2 DEF TimersFor
  <1> HIDE DEF n1
  <1> QED BY <1>1, <1>2, <1>4, <1>5, ReplyKept, WaitKept

LEMMA AskTypeKept ==
    ASSUME IInv, NEW s \in Sessions, NEW r \in Requests, NEW c, NEW observe, NEW paste,
           AskType(s, r, c, observe, paste)
    PROVE  Kept
  <1> DEFINE now == SyncEvents(m)
             text == [on |-> TRUE, session |-> s, request |-> r, target |-> c, generation |-> next,
                      left |-> Strokes, paste |-> paste, offered |-> FALSE, observe |-> observe]
             n1 == [now EXCEPT !.text = text]
  <1>1. Arrives(s, r) /\ (\/ Reply(now, s, r, "error")
                          \/ ~ Busy /\ Wait(n1, s, r, "text"))
    BY AskArrives DEF AskType, Refused
  <1>2. Leads(m, now)
    BY SyncEventsLeads DEF IInv
  <1> HIDE DEF now
  <1>3. /\ text.on = TRUE /\ text.session = s /\ text.request = r /\ text.generation = next
        /\ WorkFields \cup {"on", "left", "offered"} \subseteq DOMAIN text
    BY DEF WorkFields
  <1> HIDE DEF text
  <1>4. /\ Fields \subseteq DOMAIN n1 /\ n1.agents = now.agents /\ n1.consent = now.consent
        /\ n1.link = now.link /\ n1.outbox = now.outbox
        /\ n1.text = text /\ n1.semantics = now.semantics /\ n1.observations = now.observations
    BY <1>2 DEF Leads, Shaped, Fields
  <1> HIDE DEF n1
  <1>5. ~ Busy => AddsOne(now, n1, s, r)
    <2>1. ~ Busy => ~ now.text.on
      BY <1>2 DEF Busy, Leads, Follows, NoText
    <2> QED BY <1>3, <1>4, <2>1 DEF AddsOne
  <1>6. TimersFor(n1, timers \cup {Timer("text", next)})
    <2>1. TimersFor(now, timers)
      BY <1>2, TimersLeads
    <2> QED BY <1>3, <1>4, <2>1 DEF TimersFor
  <1> QED BY <1>1, <1>2, <1>5, <1>6, ReplyKept, WaitKept

LEMMA AskSemanticKept ==
    ASSUME IInv, NEW s \in Sessions, NEW r \in Requests, NEW c, AskSemantic(s, r, c)
    PROVE  Kept
  <1> DEFINE now == SyncEvents(m)
             query(result) ==
                 [session |-> s, request |-> r, target |-> c, generation |-> next,
                  seen |-> Generation(now.agents, c), cancelled |-> FALSE, result |-> result]
  <1>1. Arrives(s, r) /\ (\/ Reply(now, s, r, "error")
                          \/ \E result : Wait([now EXCEPT !.semantics = @ \cup {query(result)}],
                                              s, r, "semantic"))
    BY AskArrives DEF AskSemantic
  <1>2. Leads(m, now)
    BY SyncEventsLeads DEF IInv
  <1>3. CASE Reply(now, s, r, "error")
    <2> HIDE DEF now
    <2> QED BY <1>1, <1>2, <1>3, ReplyKept
  <1>4. ASSUME NEW result, Wait([now EXCEPT !.semantics = @ \cup {query(result)}], s, r, "semantic")
        PROVE  Kept
    <2> DEFINE x == query(result)
               n1 == [now EXCEPT !.semantics = @ \cup {x}]
    <2>0. Wait(n1, s, r, "semantic")
      BY <1>4
    <2> HIDE DEF now
    <2>1. /\ x.session = s /\ x.request = r /\ x.generation = next /\ x.cancelled \in BOOLEAN
          /\ WorkFields \cup {"cancelled", "result"} \subseteq DOMAIN x
      BY DEF WorkFields
    <2> HIDE DEF query, x
    <2>2. /\ Fields \subseteq DOMAIN n1 /\ n1.agents = now.agents /\ n1.consent = now.consent
          /\ n1.link = now.link /\ n1.outbox = now.outbox
          /\ n1.text = now.text /\ n1.observations = now.observations
          /\ n1.semantics = now.semantics \cup {x}
      BY <1>2 DEF Leads, Shaped, Fields
    <2> HIDE DEF n1
    <2>3. AddsOne(now, n1, s, r)
      BY <2>1, <2>2 DEF AddsOne
    <2>4. TimersFor(n1, timers \cup {Timer("semantic", next)})
      <3>1. TimersFor(now, timers)
        BY <1>2, TimersLeads
      <3> QED BY <2>1, <2>2, <3>1 DEF TimersFor
    <2> QED BY <1>1, <1>2, <2>0, <2>3, <2>4, WaitKept
  <1> HIDE DEF now, query
  <1> QED BY <1>1, <1>3, <1>4

(* ---- Sessions ---- *)
LEMMA ConnectKept ==
    ASSUME IInv, NEW s \in Sessions, Connect(s)
    PROVE  Kept
  <1>1. /\ seat /\ m.link[s] = "none" /\ m' = [m EXCEPT !.link[s] = "connected"]
        /\ UNCHANGED <<asked, heard, timers, preempted, leftover, seat>>
    BY DEF Connect, Keep
  <1>2. /\ Fields \subseteq DOMAIN m' /\ m'.agents = m.agents /\ m'.text = m.text
        /\ m'.observations = m.observations /\ m'.semantics = m.semantics
        /\ m'.link = [m.link EXCEPT ![s] = "connected"] /\ m'.outbox = m.outbox
        /\ m'.consent = m.consent
    BY <1>1 DEF IInv, Shaped, Fields
  <1>3. Shaped(m')
    BY <1>2 DEF IInv, Shaped
  <1>4. ~ leftover => \A r \in Requests : r \notin asked[s]
    BY <1>1 DEF IInv, Fine, Settled, SettledAt, Serving, Held
  <1>5. \A t, r : /\ TextOf(m', t, r) <=> TextOf(m, t, r)
                  /\ ObservationsOf(m', t, r) = ObservationsOf(m, t, r)
                  /\ SemanticsOf(m', t, r) = SemanticsOf(m, t, r)
                  /\ Count(m', heard, t, r) = Count(m, heard, t, r)
    BY <1>2 DEF TextOf, ObservationsOf, SemanticsOf, Count
  <1>6. \A t \in Sessions : t # s => /\ Serving(m', t) <=> Serving(m, t)
                                     /\ Held(m', t) <=> Held(m, t)
    BY <1>2 DEF Serving, Held
  <1>7. Serving(m, s) /\ Serving(m', s)
    BY <1>1, <1>2, <1>3 DEF Serving, IInv, Shaped
  <1>8. ASSUME ~ leftover PROVE Fine(m', asked, heard, preempted)
    <2>1. Fine(m, asked, heard, preempted)
      BY <1>8 DEF IInv
    <2>2. ASSUME NEW t \in Sessions, NEW r \in Requests PROVE SettledAt(m', asked, heard, t, r)
      <3>1. SettledAt(m, asked, heard, t, r)
        BY <2>1 DEF Fine, Settled
      <3>2. AtMostOne(m', t, r) /\ (Waiting(m', t, r) <=> Waiting(m, t, r))
        BY <1>5, <3>1 DEF SettledAt, AtMostOne, Waiting
      <3> QED BY <1>4, <1>5, <1>6, <1>8, <3>1, <3>2 DEF SettledAt
    <2>3. NoneSucceeded(m', preempted)
      BY <1>2, <2>1 DEF Fine, NoneSucceeded
    <2>4. NoneCan(m', preempted)
      BY <1>5, <2>1 DEF Fine, NoneCan
    <2> QED BY <2>2, <2>3, <2>4 DEF Fine, Settled
  <1>9. IInv'
    <2>1. TimersFor(m', timers')
      BY <1>1, <1>2 DEF IInv, TimersFor
    <2>2. AskedInOrder' /\ LinksOK' /\ (PreemptedAsked => PreemptedAsked')
      BY <1>1 DEF IInv, AskedInOrder, LinksOK, PreemptedAsked
    <2> QED BY <1>1, <1>3, <1>8, <2>1, <2>2 DEF IInv
  <1>10. ASSUME NEW t \in Sessions PROVE GivesUp(t) \/ GoesOn(t)
    <2>1. Serving(m, t)' => Serving(m, t)
      BY <1>6, <1>7
    <2>2. \A r : Waiting(m', t, r) => Waiting(m, t, r)
      BY <1>5 DEF Waiting
    <2> QED BY <1>1, <2>1, <2>2 DEF GivesUp, GoesOn
  <1> QED BY <1>9, <1>10 DEF Kept

LEMMA GreetKept ==
    ASSUME IInv, NEW s \in Sessions, NEW grant, NEW matcher, Greet(s, grant, matcher)
    PROVE  Kept
  <1> DEFINE n1 == [m EXCEPT !.matchers[s] = matcher]
  <1>1. /\ Held(m, s) /\ (m' = Fault(m, s) \/ m' = CompleteGreeting(n1, s, grant))
        /\ UNCHANGED <<asked, heard, timers, preempted, leftover, seat>>
    BY DEF Greet, Keep
  <1>2. Shaped(m)
    BY DEF IInv
  <1>3. Leads(m, n1)
    BY <1>2, FieldLeads
  <1> HIDE DEF n1
  <1>4. Leads(n1, CompleteGreeting(n1, s, grant))
    BY <1>3, CompleteGreetingLeads DEF Leads
  <1>5. Leads(m, CompleteGreeting(n1, s, grant))
    BY <1>3, <1>4, LeadsTrans
  <1>6. Leads(m, Fault(m, s))
    BY <1>1, <1>2, FaultLeads
  <1>7. Leads(m, m')
    BY <1>1, <1>5, <1>6
  <1> QED BY <1>1, <1>7, QuietStepKept

\* A person is asked about some other session.
LEMMA ConsentLeads ==
    ASSUME NEW n, Shaped(n), NEW q \in Seq(Sessions), NEW S
    PROVE  Leads(n, [n EXCEPT !.consent = q, !.consented = S])
  <1> DEFINE n2 == [n EXCEPT !.consent = q, !.consented = S]
  <1>1. /\ Fields \subseteq DOMAIN n2 /\ n2.agents = n.agents /\ n2.text = n.text
        /\ n2.observations = n.observations /\ n2.semantics = n.semantics
        /\ n2.link = n.link /\ n2.outbox = n.outbox /\ n2.consent \in Seq(Sessions)
    BY DEF Shaped, Fields
  <1> HIDE DEF n2
  <1>2. Leads(n, n2)
    BY <1>1, QuietLeads DEF Shaped, AgentsOK
  <1> QED BY <1>2 DEF n2

LEMMA AskPersonKept ==
    ASSUME IInv, NEW s \in Sessions, AskPerson(s)
    PROVE  Kept
  <1> DEFINE q == Append(m.consent, s)
  <1>1. Shaped(m) /\ q \in Seq(Sessions)
    BY DEF IInv, Shaped
  <1>2. Leads(m, [m EXCEPT !.consent = q, !.consented = m.consented])
    BY <1>1, ConsentLeads
  <1>3. m' = [m EXCEPT !.consent = q]
    BY DEF AskPerson
  <1> HIDE DEF q
  <1>4. m' = [m EXCEPT !.consent = q, !.consented = m.consented]
    BY <1>1, <1>3 DEF Shaped, Fields
  <1>5. UNCHANGED <<asked, heard, timers, preempted, leftover, seat>>
    BY DEF AskPerson, Keep
  <1>6. Leads(m, m')
    BY <1>2, <1>4
  <1> QED BY <1>5, <1>6, QuietStepKept

LEMMA AnswerConsentKept ==
    ASSUME IInv, NEW allowed, AnswerConsent(allowed)
    PROVE  Kept
  <1> DEFINE s == Head(m.consent)
             q == Tail(m.consent)
             S == IF allowed THEN m.consented \cup {s} ELSE m.consented
             grant == IF allowed THEN Unscoped(Capabilities) ELSE Denied
             shown == [m EXCEPT !.consent = q, !.consented = S]
  <1>1. Shaped(m) /\ m.consent \in Seq(Sessions) /\ m.consent /= <<>>
    BY DEF IInv, Shaped, AnswerConsent
  <1>2. s \in Sessions /\ q \in Seq(Sessions)
    BY <1>1
  <1>3. /\ m' = CompleteGreeting(shown, s, grant)
        /\ UNCHANGED <<asked, heard, timers, preempted, leftover, seat>>
    BY DEF AnswerConsent, Keep
  <1> HIDE DEF s, q, S, grant
  <1>4. Leads(m, shown)
    BY <1>1, <1>2, ConsentLeads
  <1> HIDE DEF shown
  <1>5. Leads(shown, m')
    BY <1>2, <1>3, <1>4, CompleteGreetingLeads DEF Leads
  <1>6. Leads(m, m')
    BY <1>4, <1>5, LeadsTrans
  <1> QED BY <1>3, <1>6, QuietStepKept

LEMMA DisconnectKept ==
    ASSUME IInv, NEW s \in Sessions, Disconnect(s)
    PROVE  Kept
  <1> DEFINE n1 == CloseSession(m, s)
  <1>1. /\ m' = [n1 EXCEPT !.link[s] = "gone", !.outbox[s] = <<>>]
        /\ asked' = [asked EXCEPT ![s] = {}] /\ heard' = [heard EXCEPT ![s] = Unheard]
        /\ preempted' = {request \in preempted : request.session /= s}
        /\ UNCHANGED <<timers, seat, leftover>> /\ seat
    BY DEF Disconnect
  <1>2. Shaped(m) /\ Cleared(m, n1, s)
    BY CloseSessionFacts DEF IInv
  <1> HIDE DEF n1
  <1>3. Shaped(n1) /\ Follows(m, n1) /\ NothingOf(n1, s)
    BY <1>2, ClearedShaped
  <1>4. /\ Fields \subseteq DOMAIN m' /\ m'.agents = n1.agents /\ m'.text = n1.text
        /\ m'.observations = n1.observations /\ m'.semantics = n1.semantics
        /\ m'.link = [n1.link EXCEPT ![s] = "gone"] /\ m'.outbox = [n1.outbox EXCEPT ![s] = <<>>]
        /\ m'.consent = n1.consent
    BY <1>1, <1>3 DEF Shaped, Fields
  <1>5. Shaped(m')
    <2>1. <<>> \in Seq(Sessions)
      OBVIOUS
    <2>2. Frames(<<>>)
      BY <2>1 DEF Frames
    <2> QED BY <1>3, <1>4, <2>2 DEF Shaped
  <1>6. \A r : ~ TextOf(m', s, r) /\ ObservationsOf(m', s, r) = {} /\ SemanticsOf(m', s, r) = {}
    BY <1>3, <1>4 DEF NothingOf, OfSession, TextOf, ObservationsOf, SemanticsOf
  <1>7. ASSUME NEW t \in Sessions \ {s}
        PROVE  /\ \A r : /\ TextOf(m', t, r) <=> TextOf(m, t, r)
                         /\ ObservationsOf(m', t, r) = ObservationsOf(m, t, r)
                         /\ SemanticsOf(m', t, r) = SemanticsOf(m, t, r)
               /\ m'.outbox[t] = m.outbox[t] /\ m'.link[t] = m.link[t]
               /\ asked'[t] = asked[t] /\ heard'[t] = heard[t]
    <2>1. /\ \A r : /\ TextOf(m', t, r) <=> TextOf(m, t, r)
                    /\ ObservationsOf(m', t, r) = ObservationsOf(m, t, r)
                    /\ SemanticsOf(m', t, r) = SemanticsOf(m, t, r)
      BY <1>2, <1>4 DEF Cleared, OfSession, TextOf, ObservationsOf, SemanticsOf, NoText
    <2>2. m'.outbox[t] = m.outbox[t] /\ m'.link[t] = m.link[t]
      BY <1>2, <1>4 DEF Cleared
    <2>3. asked'[t] = asked[t] /\ heard'[t] = heard[t]
      BY <1>1 DEF IInv, AskedInOrder
    <2> QED BY <2>1, <2>2, <2>3
  <1>8. /\ m'.outbox[s] = <<>> /\ m'.link[s] = "gone" /\ asked'[s] = {} /\ heard'[s] = Unheard
    BY <1>1, <1>2, <1>3, <1>4 DEF IInv, AskedInOrder, Shaped
  <1>9. ASSUME ~ leftover PROVE PreemptedAsked' /\ Fine(m', asked', heard', preempted')
    <2>1. Fine(m, asked, heard, preempted) /\ PreemptedAsked
      BY <1>9 DEF IInv
    <2>2. ASSUME NEW t \in Sessions, NEW r \in Requests PROVE SettledAt(m', asked', heard', t, r)
      <3>1. CASE t = s
        <4>1. Responses(<<>>, r) = {} /\ Cardinality({}) = 0
          BY FS_EmptySet DEF Responses
        <4>2. Count(m', heard', s, r) = 0
          <5>1. heard'[s][r] = 0 /\ Responses(m'.outbox[s], r) = {}
            BY <1>8, <4>1 DEF Unheard
          <5> QED BY <4>1, <5>1 DEF Count
        <4> QED BY <1>6, <1>8, <3>1, <4>2 DEF SettledAt, AtMostOne, Waiting
      <3>2. CASE t # s
        <4>1. SettledAt(m, asked, heard, t, r)
          BY <2>1 DEF Fine, Settled
        <4> QED BY <1>7, <3>2, <4>1 DEF SettledAt, AtMostOne, Waiting, Count, Serving, Held
      <3> QED BY <3>1, <3>2
    <2>3. NoneSucceeded(m', preempted')
      <3> SUFFICES ASSUME NEW t \in Sessions, NEW i \in DOMAIN m'.outbox[t],
                          m'.outbox[t][i].frame = "response", m'.outbox[t][i].outcome = "ok"
                   PROVE  Request(t, m'.outbox[t][i].request) \notin preempted'
        BY DEF NoneSucceeded
      <3>1. t # s
        BY <1>8
      <3> QED BY <1>1, <1>7, <2>1, <3>1 DEF Fine, NoneSucceeded
    <2>4. NoneCan(m', preempted')
      <3> SUFFICES ASSUME NEW t \in Sessions, NEW r \in Requests, Request(t, r) \in preempted'
                   PROVE  /\ ~ TextOf(m', t, r) /\ ObservationsOf(m', t, r) = {}
                          /\ \A pending \in SemanticsOf(m', t, r) : pending.cancelled
        BY DEF NoneCan
      <3>1. t # s /\ Request(t, r) \in preempted
        BY <1>1 DEF Request
      <3> QED BY <1>7, <2>1, <3>1 DEF Fine, NoneCan
    <2>5. PreemptedAsked'
      <3> SUFFICES ASSUME NEW x \in preempted'
                   PROVE  \E t \in Sessions : \E r \in asked'[t] : x = Request(t, r)
        BY DEF PreemptedAsked
      <3>1. x \in preempted /\ x.session # s
        BY <1>1
      <3>2. PICK t \in Sessions : \E r \in asked[t] : x = Request(t, r)
        BY <2>1, <3>1 DEF PreemptedAsked
      <3>3. t # s
        BY <3>1, <3>2 DEF Request
      <3> QED BY <1>7, <3>2, <3>3
    <2> QED BY <2>2, <2>3, <2>4, <2>5 DEF Fine, Settled
  <1>10. IInv'
    <2>1. heard' \in [Sessions -> [Requests -> Nat]]
      <3>1. Unheard \in [Requests -> Nat]
        BY DEF Unheard
      <3> QED BY <1>1, <3>1 DEF IInv
    <2>2. AskedInOrder'
      <3>1. DOMAIN asked' = Sessions
        BY <1>1 DEF IInv, AskedInOrder
      <3>2. {} = 1..0
        OBVIOUS
      <3>3. \A t \in Sessions : \E k \in Nat : asked'[t] = 1..k
        BY <1>7, <1>8, <3>2 DEF IInv, AskedInOrder
      <3> QED BY <3>1, <3>3 DEF AskedInOrder
    <2>3. LinksOK' /\ leftover' \in BOOLEAN
      BY <1>1 DEF LinksOK, IInv
    <2>4. TimersFor(m', timers')
      <3>1. TimersFor(n1, timers)
        BY <1>3, TimersStay DEF IInv
      <3> QED BY <1>1, <1>4, <3>1 DEF TimersFor
    <2> QED BY <1>1, <1>5, <1>9, <2>1, <2>2, <2>3, <2>4 DEF IInv
  <1>11. ASSUME NEW t \in Sessions PROVE GivesUp(t) \/ GoesOn(t)
    <2>1. CASE t = s
      BY <1>8, <2>1 DEF GivesUp, Serving
    <2>2. CASE t # s
      BY <1>7, <2>2 DEF GivesUp, GoesOn, Serving, Waiting
    <2> QED BY <2>1, <2>2
  <1> QED BY <1>10, <1>11 DEF Kept

LEMMA OneMore ==
    ASSUME NEW f \in [Requests -> Nat], NEW x
    PROVE  [f EXCEPT ![x] = @ + 1] \in [Requests -> Nat]
  <1> DEFINE g == [f EXCEPT ![x] = @ + 1]
  <1>1. DOMAIN g = Requests
    OBVIOUS
  <1>2. ASSUME NEW r \in Requests PROVE g[r] \in Nat
    <2>1. CASE r = x
      <3>1. g[r] = f[r] + 1 /\ f[r] \in Nat
        BY <2>1
      <3> HIDE DEF g
      <3> QED BY <3>1
    <2>2. CASE r # x
      BY <2>2
    <2> QED BY <2>1, <2>2
  <1>3. g = [r \in Requests |-> g[r]]
    OBVIOUS
  <1> HIDE DEF g
  <1>4. g \in [Requests -> Nat]
    BY <1>2, <1>3
  <1> QED BY <1>4 DEF g

LEMMA ReadKept ==
    ASSUME IInv, NEW s \in Sessions, Read(s)
    PROVE  Kept
  <1> DEFINE q == m.outbox[s]
             frame == Head(q)
  <1>1. /\ q /= <<>> /\ m' = [m EXCEPT !.outbox[s] = Tail(@)]
        /\ heard' = IF frame.frame = "response" THEN [heard EXCEPT ![s][frame.request] = @ + 1]
                    ELSE heard
        /\ UNCHANGED <<asked, timers, preempted, leftover, seat>>
    BY DEF Read, Keep
  <1>2. Shaped(m) /\ Frames(q)
    BY DEF IInv, Shaped
  <1>3. /\ Fields \subseteq DOMAIN m' /\ m'.agents = m.agents /\ m'.text = m.text
        /\ m'.observations = m.observations /\ m'.semantics = m.semantics
        /\ m'.link = m.link /\ m'.outbox = [m.outbox EXCEPT ![s] = Tail(q)]
        /\ m'.consent = m.consent
    BY <1>1, <1>2 DEF Shaped, Fields
  <1> HIDE DEF q
  <1>4. /\ Frames(Tail(q)) /\ DOMAIN q = 1..Len(q) /\ DOMAIN Tail(q) = 1..(Len(q) - 1)
        /\ Len(q) \in Nat \ {0} /\ \A i \in 1..(Len(q) - 1) : Tail(q)[i] = q[i + 1]
    BY <1>1, <1>2, TailFacts
  <1>5. m'.outbox[s] = Tail(q) /\ \A t \in Sessions \ {s} : m'.outbox[t] = m.outbox[t]
    BY <1>2, <1>3 DEF Shaped
  <1>6. Shaped(m')
    BY <1>2, <1>3, <1>4, <1>5 DEF Shaped
  <1>7. heard \in [Sessions -> [Requests -> Nat]]
    BY DEF IInv
  <1>8. heard' \in [Sessions -> [Requests -> Nat]]
    <2>1. CASE frame.frame # "response"
      BY <1>1, <1>7, <2>1
    <2>2. CASE frame.frame = "response"
      <3> HIDE DEF frame
      <3>1. [heard[s] EXCEPT ![frame.request] = @ + 1] \in [Requests -> Nat]
        BY <1>7, OneMore
      <3>2. heard' = [heard EXCEPT ![s] = [heard[s] EXCEPT ![frame.request] = @ + 1]]
        BY <1>1, <1>7, <2>2 DEF frame
      <3> QED BY <1>7, <3>1, <3>2
    <2> QED BY <2>1, <2>2
  <1>9. ASSUME NEW t \in Sessions, NEW r \in Requests
        PROVE  Count(m', heard', t, r) = Count(m, heard, t, r)
    <2>1. CASE t # s
      <3>1. heard'[t][r] = heard[t][r]
        BY <1>1, <1>7, <2>1
      <3> QED BY <1>5, <2>1, <3>1 DEF Count
    <2>2. CASE t = s
      <3>1. Cardinality(Responses(q, r))
            = Cardinality(Responses(Tail(q), r)) + (IF IsAnswer(frame, r) THEN 1 ELSE 0)
        BY <1>1, <1>2, ResponsesTail
      <3>2. heard'[s][r] = heard[s][r] + (IF IsAnswer(frame, r) THEN 1 ELSE 0)
        <4> HIDE DEF frame
        <4>1. CASE frame.frame # "response"
          BY <1>1, <1>7, <4>1 DEF IsAnswer, frame
        <4>2. CASE frame.frame = "response" /\ frame.request # r
          BY <1>1, <1>7, <4>2 DEF IsAnswer, frame
        <4>3. CASE frame.frame = "response" /\ frame.request = r
          BY <1>1, <1>7, <4>3 DEF IsAnswer, frame
        <4> QED BY <4>1, <4>2, <4>3
      <3>3. /\ heard[s][r] \in Nat
            /\ Cardinality(Responses(Tail(q), r)) \in Nat
        BY <1>4, <1>7, ResponsesFinite
      <3> DEFINE more == IF IsAnswer(frame, r) THEN 1 ELSE 0
                 left == Cardinality(Responses(Tail(q), r))
      <3>4. Count(m', heard', s, r) = heard'[s][r] + left
        BY <1>5 DEF Count
      <3>5. Count(m, heard, s, r) = heard[s][r] + Cardinality(Responses(q, r))
        BY DEF Count, q
      <3>6. more \in Nat
        OBVIOUS
      <3> HIDE DEF more, left, frame
      <3>7. heard'[s][r] = heard[s][r] + more /\ Cardinality(Responses(q, r)) = left + more
        BY <3>1, <3>2 DEF more, left
      <3>8. left \in Nat
        BY <3>3 DEF left
      <3> QED BY <2>2, <3>3, <3>4, <3>5, <3>6, <3>7, <3>8
    <2> QED BY <2>1, <2>2
  <1>10. \A t, r : /\ TextOf(m', t, r) <=> TextOf(m, t, r)
                   /\ ObservationsOf(m', t, r) = ObservationsOf(m, t, r)
                   /\ SemanticsOf(m', t, r) = SemanticsOf(m, t, r)
                   /\ Waiting(m', t, r) <=> Waiting(m, t, r)
                   /\ Serving(m', t) <=> Serving(m, t)
                   /\ Held(m', t) <=> Held(m, t)
    BY <1>3 DEF Waiting, TextOf, ObservationsOf, SemanticsOf, Serving, Held
  <1>11. ASSUME ~ leftover PROVE PreemptedAsked' /\ Fine(m', asked', heard', preempted')
    <2>1. Fine(m, asked, heard, preempted) /\ PreemptedAsked
      BY <1>11 DEF IInv
    <2>2. ASSUME NEW t \in Sessions, NEW r \in Requests PROVE SettledAt(m', asked', heard', t, r)
      <3>1. SettledAt(m, asked, heard, t, r)
        BY <2>1 DEF Fine, Settled
      <3> QED BY <1>1, <1>9, <1>10, <3>1 DEF SettledAt, AtMostOne
    <2>3. NoneSucceeded(m', preempted')
      <3> SUFFICES ASSUME NEW t \in Sessions, NEW i \in DOMAIN m'.outbox[t],
                          m'.outbox[t][i].frame = "response", m'.outbox[t][i].outcome = "ok"
                   PROVE  Request(t, m'.outbox[t][i].request) \notin preempted
        BY <1>1 DEF NoneSucceeded
      <3>1. \E j \in DOMAIN m.outbox[t] : m.outbox[t][j] = m'.outbox[t][i]
        <4>1. CASE t = s
          <5>1. i \in 1..(Len(q) - 1) /\ Tail(q)[i] = q[i + 1] /\ i + 1 \in DOMAIN q
            BY <1>4, <1>5, <4>1
          <5> QED BY <1>5, <4>1, <5>1 DEF q
        <4>2. CASE t # s
          BY <1>5, <4>2
        <4> QED BY <4>1, <4>2
      <3> QED BY <2>1, <3>1 DEF Fine, NoneSucceeded
    <2>4. NoneCan(m', preempted')
      BY <1>1, <1>10, <2>1 DEF Fine, NoneCan
    <2>5. PreemptedAsked'
      BY <1>1, <2>1 DEF PreemptedAsked
    <2> QED BY <2>2, <2>3, <2>4, <2>5 DEF Fine, Settled
  <1>12. IInv'
    <2>1. TimersFor(m', timers')
      BY <1>1, <1>3 DEF IInv, TimersFor
    <2>2. LinksOK' /\ AskedInOrder'
      BY <1>1, <1>10 DEF IInv, LinksOK, AskedInOrder
    <2> HIDE DEF frame
    <2> QED BY <1>1, <1>6, <1>8, <1>11, <2>1, <2>2 DEF IInv
  <1>13. ASSUME NEW t \in Sessions PROVE GivesUp(t) \/ GoesOn(t)
    BY <1>1, <1>10 DEF GivesUp, GoesOn
  <1> QED BY <1>12, <1>13 DEF Kept

(* ---- The invariant holds, and what follows from it ---- *)
LEMMA InitIInv ==
    ASSUME Init
    PROVE  IInv
  <1>1. /\ Fields \subseteq DOMAIN m /\ m.agents = NoAgents /\ m.text = NoText
        /\ m.observations = {} /\ m.semantics = {} /\ m.consent = <<>>
        /\ m.link = [s \in Sessions |-> "none"] /\ m.outbox = [s \in Sessions |-> <<>>]
    BY DEF Init, Started, Fields
  <1>2. /\ ~ seat /\ timers = {} /\ asked = [s \in Sessions |-> {}]
        /\ heard = [s \in Sessions |-> Unheard] /\ preempted = {} /\ leftover = FALSE
    BY DEF Init
  <1>3. Shaped(m)
    <2>1. <<>> \in Seq(Sessions)
      OBVIOUS
    <2>2. Frames(<<>>)
      BY <2>1 DEF Frames
    <2>3. IsFiniteSet({})
      BY FS_EmptySet
    <2>4. "sessions" \in DOMAIN NoAgents /\ OpenSessions(NoAgents) = {}
      BY DEF NoAgents, OpenSessions
    <2> QED BY <1>1, <2>1, <2>2, <2>3, <2>4 DEF Shaped, NoText
  <1>4. Fine(m, asked, heard, preempted)
    <2>1. \A s, r : ~ TextOf(m, s, r) /\ ObservationsOf(m, s, r) = {} /\ SemanticsOf(m, s, r) = {}
      BY <1>1 DEF TextOf, ObservationsOf, SemanticsOf, NoText
    <2>2. ASSUME NEW s \in Sessions, NEW r \in Requests PROVE Count(m, heard, s, r) = 0
      <3>1. Responses(<<>>, r) = {} /\ Cardinality({}) = 0
        BY FS_EmptySet DEF Responses
      <3>2. heard[s][r] = 0 /\ Responses(m.outbox[s], r) = {}
        BY <1>1, <1>2, <3>1 DEF Unheard
      <3> QED BY <3>1, <3>2 DEF Count
    <2>3. Settled(m, asked, heard)
      BY <1>2, <2>1, <2>2 DEF Settled, SettledAt, AtMostOne, Waiting
    <2> QED BY <1>2, <2>3 DEF Fine, NoneSucceeded, NoneCan
  <1>5. heard \in [Sessions -> [Requests -> Nat]]
    BY <1>2 DEF Unheard
  <1>6. AskedInOrder
    <2>1. {} = 1..0
      OBVIOUS
    <2> QED BY <1>2, <2>1 DEF AskedInOrder
  <1>7. LinksOK /\ PreemptedAsked /\ TimersFor(m, timers)
    BY <1>1, <1>2 DEF LinksOK, Held, PreemptedAsked, TimersFor, NoText
  <1> QED BY <1>2, <1>3, <1>4, <1>5, <1>6, <1>7 DEF IInv

LEMMA NextKept ==
    ASSUME IInv, Next
    PROVE  Kept
  <1>1. ASSUME NEW s \in Sessions, Connect(s) \/ AskPerson(s) \/ Disconnect(s) \/ Read(s)
        PROVE  Kept
    BY <1>1, ConnectKept, AskPersonKept, DisconnectKept, ReadKept
  <1>2. ASSUME NEW s \in Sessions, Greet(s, Unscoped(Capabilities), Clients) PROVE Kept
    BY <1>2, GreetKept
  <1>3. ASSUME NEW s \in Sessions, NEW r \in Requests, AskSnapshot(s, r) PROVE Kept
    BY <1>3, AskSnapshotKept
  <1>4. ASSUME NEW s \in Sessions, NEW r \in Requests, NEW c \in Clients,
               NEW observe \in BOOLEAN, NEW pointer \in BOOLEAN, AskKey(s, r, c, observe, pointer)
        PROVE  Kept
    BY <1>4, AskKeyKept
  <1>5. ASSUME NEW s \in Sessions, NEW r \in Requests, NEW c \in Clients,
               NEW observe \in BOOLEAN, NEW paste \in BOOLEAN, AskType(s, r, c, observe, paste)
        PROVE  Kept
    BY <1>5, AskTypeKept
  <1>6. ASSUME NEW s \in Sessions, NEW r \in Requests, NEW c \in Clients, AskSemantic(s, r, c)
        PROVE  Kept
    BY <1>6, AskSemanticKept
  <1>7. SessionStep => Kept
    BY <1>1, <1>2, <1>3, <1>4, <1>5, <1>6 DEF SessionStep
  <1>8. TimerStep => Kept
    BY AdvanceTextKept, FinishObservationKept, FinishSemanticKept DEF TimerStep
  <1>9. DesktopStep => Kept
    BY RetitleKept, RefocusKept, UnmanageKept, BoundaryKept, LoseSelectionKept, HelperAnswersKept
       DEF DesktopStep
  <1>10. PersonStep => Kept
    BY HumanInputKept, ForgottenKept, KillChordKept, RevokeKept, AnswerConsentKept,
       OpenSeatKept, CloseSeatKept DEF PersonStep
  <1> QED BY <1>7, <1>8, <1>9, <1>10 DEF Next

LEMMA StutterIInv ==
    ASSUME IInv, UNCHANGED vars
    PROVE  IInv'
  BY DEF IInv, vars, AskedInOrder, PreemptedAsked, LinksOK, Held

\* The inductive invariant: what waits has a timer and is settled, unless the seat was
\* opened over it.
THEOREM Invariant == Spec => []IInv
  <1>1. Init => IInv
    BY InitIInv
  <1>2. IInv /\ [Next]_vars => IInv'
    BY NextKept, StutterIInv DEF Kept
  <1> QED BY <1>1, <1>2, PTL DEF Spec

\* Whatever waits for a timer has the timer's message on its way: no request is left
\* waiting for a timer that was not armed, was cancelled with another, or has fired.
THEOREM TimersArmed == Spec => []PendingHasTimer
  <1>1. IInv => PendingHasTimer
    <2> SUFFICES ASSUME IInv, NEW p \in Pending(m)
                 PROVE  Timer(KindOf(p), p.generation) \in timers
      BY DEF PendingHasTimer
    <2>1. TimersFor(m, timers)
      BY DEF IInv
    <2> QED BY <2>1 DEF TimersFor, KindOf, Pending, Texts
  <1> QED BY <1>1, Invariant, PTL

\* A request that was pending when a person took over, when its session was frozen or
\* revoked, or when the window it asks about changed, is never told that it succeeded.
THEOREM PreemptedFail == Spec => []PreemptedNeverSucceeds
  <1>1. IInv => PreemptedNeverSucceeds
    BY DEF IInv, Fine, NoneSucceeded, Request, PreemptedNeverSucceeds
  <1> QED BY <1>1, Invariant, PTL

(* ---- The promise of RequestBook ---- *)
StandingAt(n, A, H, s, r) ==
    IF ~ Serving(n, s) THEN "gone"
    ELSE IF Waiting(n, s, r) THEN "waiting"
    ELSE IF r \notin A[s] THEN "new"
    ELSE IF Count(n, H, s, r) = 1 THEN "answered" ELSE "lost"

LEMMA PendingWaits ==
    ASSUME NEW n, NEW s, NEW r
    PROVE  [session |-> s, request |-> r] \in {Of(pending) : pending \in Pending(n)}
           <=> Waiting(n, s, r)
  <1>1. ASSUME NEW p \in Pending(n), [session |-> s, request |-> r] = Of(p)
        PROVE  Waiting(n, s, r)
    <2>1. p.session = s /\ p.request = r
      BY <1>1 DEF Of
    <2>2. CASE p \in Texts(n)
      BY <2>1, <2>2 DEF Texts, Waiting, TextOf
    <2>3. CASE p \in n.observations
      BY <2>1, <2>3 DEF Waiting, ObservationsOf
    <2>4. CASE p \in n.semantics
      BY <2>1, <2>4 DEF Waiting, SemanticsOf
    <2> QED BY <2>2, <2>3, <2>4 DEF Pending
  <1>2. ASSUME Waiting(n, s, r)
        PROVE  \E p \in Pending(n) : Of(p) = [session |-> s, request |-> r]
    <2>1. \E p \in Pending(n) : p.session = s /\ p.request = r
      BY <1>2 DEF Waiting, TextOf, ObservationsOf, SemanticsOf, Pending, Texts
    <2> QED BY <2>1 DEF Of
  <1> QED BY <1>1, <1>2

LEMMA StandingIs ==
    ASSUME NEW s \in Sessions, NEW r \in Requests
    PROVE  /\ Standing(s, r) = StandingAt(m, asked, heard, s, r)
           /\ Standing(s, r)' = StandingAt(m', asked', heard', s, r)
  <1>1. Waiting(m, s, r)
        <=> [session |-> s, request |-> r] \in {Of(pending) : pending \in Pending(m)}
    BY PendingWaits
  <1>2. Waiting(m', s, r)
        <=> [session |-> s, request |-> r] \in {Of(pending) : pending \in Pending(m')}
    BY PendingWaits
  <1>3. Standing(s, r) = StandingAt(m, asked, heard, s, r)
    BY <1>1 DEF Standing, StandingAt, Serving, Answers, Count, Responses
  <1>4. Standing(s, r)' = StandingAt(m', asked', heard', s, r)
    BY <1>2 DEF Standing, StandingAt, Serving, Answers, Count, Responses, Of, Pending, Texts
  <1> QED BY <1>3, <1>4

\* Nothing is lost: a session that is served has answered what it was asked, or it waits.
LEMMA NoneLost ==
    ASSUME NEW n, NEW A, NEW H, NEW X, Fine(n, A, H, X), NEW s \in Sessions, NEW r \in Requests
    PROVE  StandingAt(n, A, H, s, r) =
               IF ~ Serving(n, s) THEN "gone"
               ELSE IF Waiting(n, s, r) THEN "waiting"
               ELSE IF r \notin A[s] THEN "new" ELSE "answered"
  <1>1. r \in A[s] /\ ~ Waiting(n, s, r) /\ Serving(n, s) => Count(n, H, s, r) = 1
    BY DEF Fine, Settled, SettledAt
  <1> QED BY <1>1 DEF StandingAt

LEMMA WaitingAsked ==
    ASSUME NEW n, NEW A, NEW H, NEW X, Fine(n, A, H, X), NEW s \in Sessions, NEW r \in Requests,
           Waiting(n, s, r)
    PROVE  r \in A[s]
  BY DEF Fine, Settled, SettledAt

LEMMA PromisedInit ==
    ASSUME Init
    PROVE  Promise!Init
  <1>1. ASSUME NEW s \in Sessions, NEW r \in Requests
        PROVE  Standing(s, r) = "new"
    <2>1. m.link[s] = "none" /\ asked[s] = {} /\ Pending(m) = {}
      BY DEF Init, Started, Pending, Texts, NoText
    <2> QED BY <2>1 DEF Standing
  <1> QED BY <1>1 DEF Promise!Init

\* Once the seat has been opened over requests that waited, that stays so.
LEMMA LeftoverStays ==
    ASSUME Next, leftover
    PROVE  leftover'
  <1>1. CASE SessionStep
    <2>1. \A s, g, w : Connect(s) \/ AskPerson(s) \/ Disconnect(s) \/ Read(s) \/ Greet(s, g, w) => leftover'
      BY DEF Connect, AskPerson, Disconnect, Read, Greet, Keep
    <2>2. \A s, r : Ask(s, r) => leftover'
      BY DEF Ask
    <2>3. \A s, r, c, o, p : \/ AskSnapshot(s, r) \/ AskKey(s, r, c, o, p)
                            \/ AskType(s, r, c, o, p) \/ AskSemantic(s, r, c) => leftover'
      BY <2>2 DEF AskSnapshot, AskKey, AskType, AskSemantic
    <2> QED BY <1>1, <2>1, <2>3 DEF SessionStep
  <1>2. CASE TimerStep
    BY <1>2 DEF TimerStep, AdvanceText, FinishObservation, FinishSemantic, Still
  <1>3. CASE DesktopStep
    <2>1. \A n, over : Happens(n, over) => leftover'
      BY DEF Happens
    <2>2. \A c, t : Retitle(c, t) \/ Refocus(c) \/ Unmanage(c) \/ LoseSelection => leftover'
      BY <2>1 DEF Retitle, Refocus, Unmanage, LoseSelection
    <2>3. \A p : Boundary \/ HelperAnswers(p) => leftover'
      BY DEF Boundary, HelperAnswers, Still
    <2> QED BY <1>3, <2>2, <2>3 DEF DesktopStep
  <1>4. CASE PersonStep
    BY <1>4 DEF PersonStep, HumanInput, Forgotten, KillChord, Revoke, AnswerConsent, OpenSeat,
                CloseSeat, Happens, Keep
  <1> QED BY <1>1, <1>2, <1>3, <1>4 DEF Next

\* A step of the session keeps the book of RequestBook.
Booked(s) == Promise!Served(s) \/ Promise!GivenUp(s) \/ Promise!Renewed(s)

LEMMA StepBooked ==
    ASSUME IInv, Kept, ~ leftover, ~ leftover', NEW s \in Sessions
    PROVE  Booked(s)
  <1> DEFINE now(r) == Standing(s, r)
             then(r) == Standing(s, r)'
  <1>1. Fine(m, asked, heard, preempted) /\ Fine(m', asked', heard', preempted')
    BY DEF Kept, IInv
  <1>2. ASSUME NEW r \in Requests
        PROVE  now(r) = IF ~ Serving(m, s) THEN "gone"
                        ELSE IF Waiting(m, s, r) THEN "waiting"
                        ELSE IF r \notin asked[s] THEN "new" ELSE "answered"
    BY <1>1, StandingIs, NoneLost
  <1>3. ASSUME NEW r \in Requests
        PROVE  then(r) = IF ~ Serving(m', s) THEN "gone"
                         ELSE IF Waiting(m', s, r) THEN "waiting"
                         ELSE IF r \notin asked'[s] THEN "new" ELSE "answered"
    BY <1>1, StandingIs, NoneLost
  <1>4. /\ Promise!Served(s) <=> \A r \in Requests : Promise!MayBecome(now(r), then(r))
        /\ Promise!GivenUp(s) <=> \A r \in Requests : then(r) = "gone"
        /\ Promise!Renewed(s) <=> \A r \in Requests : now(r) = "gone" /\ then(r) = "new"
    BY DEF Promise!Served, Promise!GivenUp, Promise!Renewed
  <1>5. Serving(m, s)' <=> Serving(m', s)
    BY DEF Serving
  <1>6. \A r : Waiting(m, s, r)' <=> Waiting(m', s, r)
    BY DEF Waiting, TextOf, ObservationsOf, SemanticsOf
  <1> HIDE DEF now, then
  <1>7. CASE GivesUp(s)
    BY <1>3, <1>4, <1>5, <1>7 DEF GivesUp, Booked
  <1>8. CASE GoesOn(s)
    <2> SUFFICES ASSUME NEW r \in Requests PROVE Promise!MayBecome(now(r), then(r))
      BY <1>4 DEF Booked
    <2>1. Serving(m, s) /\ Serving(m', s) /\ (r \in asked[s] => r \in asked'[s])
      BY <1>5, <1>8 DEF GoesOn
    <2>2. Waiting(m', s, r) => Waiting(m, s, r) \/ r \notin asked[s]
      BY <1>6, <1>8 DEF GoesOn
    <2>3. /\ Waiting(m, s, r) => r \in asked[s]
          /\ Waiting(m', s, r) => r \in asked'[s]
      BY <1>1, WaitingAsked
    <2> QED BY <1>2, <1>3, <2>1, <2>2, <2>3 DEF Promise!MayBecome
  <1>9. CASE Renews(s)
    <2>1. ASSUME NEW r \in Requests PROVE then(r) = "new"
      BY <1>3, <1>5, <1>6, <1>9 DEF Renews
    <2>2. CASE ~ Serving(m, s)
      BY <1>2, <1>4, <2>1, <2>2 DEF Booked
    <2>3. CASE Serving(m, s) /\ \A r \in Requests : r \notin asked[s]
      <3>1. ASSUME NEW r \in Requests PROVE now(r) = "new"
        BY <1>1, <1>2, <2>3, WaitingAsked
      <3> QED BY <1>4, <2>1, <3>1 DEF Booked, Promise!MayBecome
    <2> QED BY <1>9, <2>2, <2>3 DEF Renews
  <1> QED BY <1>7, <1>8, <1>9 DEF Kept

LEMMA StutterBooked ==
    ASSUME UNCHANGED vars, NEW s \in Sessions
    PROVE  Booked(s)
  <1>1. ASSUME NEW r \in Requests PROVE Standing(s, r)' = Standing(s, r)
    BY StandingIs DEF vars
  <1> QED BY <1>1 DEF Booked, Promise!Served, Promise!MayBecome

\* Every request is answered at most once, is not forgotten while its session is served,
\* and waits only after it was made: AgentRequests takes the steps that RequestBook
\* allows, until the seat is opened over requests that still wait.
THEOREM BookKept == Spec => AnsweredOnce
  <1>1. Init => Promise!Init
    BY PromisedInit
  <1>2. IInv /\ [Next]_vars => leftover' \/ Promise!Next
    <2> SUFFICES ASSUME IInv, [Next]_vars, ~ leftover', NEW s \in Sessions
                 PROVE  Booked(s)
      BY DEF Promise!Next, Booked
    <2>1. ~ leftover
      BY LeftoverStays DEF vars
    <2> QED BY <2>1, NextKept, StepBooked, StutterBooked
  <1>3. Spec => Promise!Init /\ [][leftover' \/ Promise!Next]_vars
    BY <1>1, <1>2, Invariant, PTL DEF Spec
  <1> QED BY <1>3 DEF AnsweredOnce

-----------------------------------------------------------------------------
(* ---- The inductive invariant ---- *)
\* What the acceptor and the reader of a session deliver.
ReaderItems(s) == {Frame(s, sound) : sound \in BOOLEAN} \cup {Faulted(s), Disconnected(s)}

AcceptorItems == {Connected(s) : s \in Connections} \cup {Disconnected(s) : s \in Connections}

AllItems == AcceptorItems \cup UNION {ReaderItems(s) : s \in Connections}

Delivering == {"sends", "wakes", "signals"}

ThreadType == [at : {"none", "starts", "waits", "splits", "done"} \cup Delivering,
               item : AllItems \cup {Nothing}]

ReaderOK(s, r) ==
    /\ r.at \in {"none", "starts", "waits", "done"} \cup Delivering
    /\ r.at \in Delivering => r.item \in ReaderItems(s)

AcceptorOK(a) ==
    /\ a.at \in {"waits", "splits", "done"} \cup Delivering
    /\ a.at \in Delivering => a.item \in AcceptorItems
    /\ a.at = "splits" => \E s \in Connections : a.item = Connected(s)

ThreadsOK ==
    /\ thread \in [Threads -> ThreadType]
    /\ \A s \in Connections : ReaderOK(s, thread[s])
    /\ AcceptorOK(thread[Acceptor])

LoopOK ==
    /\ manager \in [at : {"waits", "takes", "handles", "joins", "stopped"}, batch : Seq(AllItems)]
    /\ inbox \in Seq(AllItems)
    /\ signals \in Nat /\ wakeup_pending \in BOOLEAN

TypeOK == ThreadsOK /\ LoopOK

\* Who has set the flag sends the message or has sent it, and nobody has looked since.
FlagIsSignal == wakeup_pending => signals > 0 \/ \E t \in Threads : thread[t].at = "signals"

\* The event loop that has emptied the inbox will be woken for what comes after that.
WakeupComes ==
    manager.at \in {"waits", "handles"} /\ inbox /= <<>>
    => signals > 0 \/ \E t \in Threads : thread[t].at \in {"wakes", "signals"}

\* The acceptor is bringing up session s.
BringsUp(s) ==
    /\ thread[Acceptor].at \in Delivering \cup {"splits"}
    /\ thread[Acceptor].item = Connected(s)

\* The reader does not run before its session has been announced, nor when the acceptor
\* has failed to start it.
StartsAnnounced ==
    \A s \in Connections :
        /\ BringsUp(s) => thread[s].at = "starts"
        /\ thread[Acceptor].at \in Delivering /\ thread[Acceptor].item = Disconnected(s)
           => thread[s].at = "done"

\* Nothing has been delivered for session s.
NotHeardOf(s) ==
    \/ thread[s].at = "none"
    \/ thread[Acceptor] = Doing("sends", Connected(s))

\* Somebody may still deliver something for session s.
NotOver(s) ==
    \/ thread[s].at \in {"starts", "waits", "sends"}
    \/ (thread[s].at \in {"wakes", "signals"} /\ thread[s].item.kind = "frame")
    \/ thread[Acceptor] = Doing("sends", Disconnected(s))

Alive == {"connected", "frame"}

\* What is still to come for a session fits what the event loop has been handed.
StreamsFit ==
    \A s \in Connections :
        /\ NotHeardOf(s) => s \notin held \cup policy
                         /\ \A i \in DOMAIN Heard : Heard[i].session /= s
        /\ NotOver(s) => \A i \in DOMAIN Heard : Heard[i].session = s => Heard[i].kind \in Alive

SeatInv == /\ TypeOK /\ FlagIsSignal /\ WakeupComes
           /\ StartsAnnounced /\ StreamsFit /\ SessionsInOrder

LEMMA ItemFacts ==
    /\ \A s \in Connections : /\ Connected(s) \in AcceptorItems /\ Connected(s).kind = "connected"
                              /\ Connected(s).session = s
                              /\ Disconnected(s) \in AcceptorItems
                              /\ Disconnected(s).kind = "disconnected" /\ Disconnected(s).session = s
    /\ \A x \in AcceptorItems : /\ x \in AllItems /\ x.session \in Connections
                                /\ \/ x = Connected(x.session) /\ x.kind = "connected"
                                   \/ x = Disconnected(x.session) /\ x.kind = "disconnected"
    /\ \A s \in Connections : \A x \in ReaderItems(s) :
           /\ x \in AllItems /\ x.session = s
           /\ x.kind \in {"frame", "faulted", "disconnected"}
<1>1. \A s \in Connections : /\ Connected(s) \in AcceptorItems /\ Connected(s).kind = "connected"
                             /\ Connected(s).session = s
                             /\ Disconnected(s) \in AcceptorItems
                             /\ Disconnected(s).kind = "disconnected" /\ Disconnected(s).session = s
  BY DEF AcceptorItems, Connected, Disconnected
<1>2. ASSUME NEW x \in AcceptorItems
      PROVE  /\ x \in AllItems /\ x.session \in Connections
             /\ \/ x = Connected(x.session) /\ x.kind = "connected"
                \/ x = Disconnected(x.session) /\ x.kind = "disconnected"
  <2>1. x \in AllItems
    BY DEF AllItems
  <2>2. PICK s \in Connections : x = Connected(s) \/ x = Disconnected(s)
    BY DEF AcceptorItems
  <2> QED BY <1>1, <2>1, <2>2
<1>3. ASSUME NEW s \in Connections, NEW x \in ReaderItems(s)
      PROVE  /\ x \in AllItems /\ x.session = s
             /\ x.kind \in {"frame", "faulted", "disconnected"}
  <2>1. x \in AllItems
    BY DEF AllItems
  <2>2. \/ \E sound \in BOOLEAN : x = Frame(s, sound)
        \/ x = Faulted(s) \/ x = Disconnected(s)
    BY DEF ReaderItems
  <2> QED BY <2>1, <2>2 DEF Frame, Faulted, Disconnected
<1> QED BY <1>1, <1>2, <1>3

\* What the inbox and the batch make together when an item enters, passes from one to the
\* other, or is handled.
LEMMA HeardFacts ==
  ASSUME NEW S, NEW b \in Seq(S), NEW q \in Seq(S)
  PROVE  /\ b \o q \in Seq(S)
         /\ \A x \in S : b \o Append(q, x) = Append(b \o q, x)
         /\ q /= <<>> => Append(b, Head(q)) \o Tail(q) = b \o q
         /\ b /= <<>> => /\ Tail(b) \o q = Tail(b \o q) /\ Head(b) = (b \o q)[1]
                         /\ Len(b \o q) > 0
<1>1. /\ b \o q \in Seq(S) /\ Len(b \o q) = Len(b) + Len(q)
      /\ \A i \in 1..(Len(b) + Len(q)) :
           (b \o q)[i] = IF i <= Len(b) THEN b[i] ELSE q[i - Len(b)]
  BY ConcatProperties
<1>2. ASSUME NEW x \in S PROVE b \o Append(q, x) = Append(b \o q, x)
  OBVIOUS
<1>3. ASSUME q /= <<>> PROVE Append(b, Head(q)) \o Tail(q) = b \o q
  BY <1>3
<1>4. ASSUME b /= <<>>
      PROVE  /\ Tail(b) \o q = Tail(b \o q) /\ Head(b) = (b \o q)[1] /\ Len(b \o q) > 0
  BY <1>1, <1>4
<1> QED BY <1>1, <1>2, <1>3, <1>4

\* Who delivers what.
LEMMA SenderFacts ==
  ASSUME SeatInv, NEW t \in Threads, thread[t].at \in Delivering
  PROVE  LET x == thread[t].item IN
         /\ x \in AllItems /\ x.session \in Connections
         /\ x.kind \in {"connected", "frame", "faulted", "disconnected"}
         /\ x.kind = "connected" => /\ t = Acceptor /\ x = Connected(x.session)
                                    /\ thread[x.session].at = "starts"
         /\ x.kind /= "connected" => \/ t = x.session
                                     \/ /\ t = Acceptor /\ x = Disconnected(x.session)
                                        /\ x.kind = "disconnected"
                                        /\ thread[x.session].at = "done"
<1> DEFINE x == thread[t].item
<1>1. CASE t = Acceptor
  <2>1. x \in AcceptorItems
    BY <1>1 DEF SeatInv, TypeOK, ThreadsOK, AcceptorOK
  <2>2. /\ x \in AllItems /\ x.session \in Connections
        /\ \/ x = Connected(x.session) /\ x.kind = "connected"
           \/ x = Disconnected(x.session) /\ x.kind = "disconnected"
    BY <2>1, ItemFacts
  <2> QED BY <1>1, <2>2 DEF SeatInv, StartsAnnounced, BringsUp
<1>2. CASE t \in Connections
  <2>1. x \in ReaderItems(t)
    BY <1>2 DEF SeatInv, TypeOK, ThreadsOK, ReaderOK
  <2> QED BY <1>2, <2>1, ItemFacts
<1> QED BY <1>1, <1>2 DEF Threads

(* ---- Steps that move no item ---- *)
\* Where the event loop has been handed nothing new, and holds no session it did not hold,
\* nothing it has been handed has become untimely.
LEMMA HeardStays ==
  ASSUME SeatInv, Heard' = Heard, held' \cup policy' \subseteq held \cup policy,
         \A s \in Connections : (NotHeardOf(s)' => NotHeardOf(s)) /\ (NotOver(s)' => NotOver(s))
  PROVE  StreamsFit' /\ SessionsInOrder'
<1>1. StreamsFit'
  BY DEF SeatInv, StreamsFit
<1>2. SessionsInOrder'
  BY DEF SeatInv, SessionsInOrder
<1> QED BY <1>1, <1>2

\* A step that neither the threads nor the event loop take part in, but for what the
\* event loop lets go.
LEMMA OthersKeep ==
  ASSUME SeatInv, UNCHANGED <<thread, inbox, wakeup_pending, signals>>,
         manager'.batch = manager.batch, LoopOK',
         manager'.at \in {"waits", "handles"} => manager.at \in {"waits", "handles"},
         held' \cup policy' \subseteq held \cup policy
  PROVE  SeatInv'
<1>1. Heard' = Heard
  BY DEF Heard
<1>2. \A s \in Connections : (NotHeardOf(s)' => NotHeardOf(s)) /\ (NotOver(s)' => NotOver(s))
  BY DEF NotHeardOf, NotOver
<1>3. StreamsFit' /\ SessionsInOrder'
  BY <1>1, <1>2, HeardStays
<1>4. ThreadsOK' /\ FlagIsSignal' /\ StartsAnnounced'
  BY DEF SeatInv, TypeOK, ThreadsOK, FlagIsSignal, StartsAnnounced, BringsUp
<1>5. WakeupComes'
  BY DEF SeatInv, WakeupComes
<1> QED BY <1>3, <1>4, <1>5 DEF SeatInv, TypeOK

LEMMA FinishKeeps ==
  ASSUME SeatInv, Finish
  PROVE  SeatInv'
<1>1. manager \in [at : {"waits", "takes", "handles", "joins", "stopped"}, batch : Seq(AllItems)]
  BY DEF SeatInv, TypeOK, LoopOK
<1>2. /\ manager'.at = "waits" /\ manager'.batch = manager.batch
      /\ manager' \in [at : {"waits", "takes", "handles", "joins", "stopped"},
                       batch : Seq(AllItems)]
  BY <1>1 DEF Finish
<1> QED BY <1>2, OthersKeep DEF Finish, threads, SeatInv, TypeOK, LoopOK

LEMMA StopKeeps ==
  ASSUME SeatInv, Stop
  PROVE  SeatInv'
<1>1. manager \in [at : {"waits", "takes", "handles", "joins", "stopped"}, batch : Seq(AllItems)]
  BY DEF SeatInv, TypeOK, LoopOK
<1>2. /\ manager'.at = "joins" /\ manager'.batch = manager.batch
      /\ manager' \in [at : {"waits", "takes", "handles", "joins", "stopped"},
                       batch : Seq(AllItems)]
  BY <1>1 DEF Stop
<1>3. held' \cup policy' \subseteq held \cup policy
  BY DEF Stop
<1> QED BY <1>2, <1>3, OthersKeep DEF Stop, SeatInv, TypeOK, LoopOK

LEMMA QuietKeeps ==
  ASSUME SeatInv, UNCHANGED <<thread, inbox, wakeup_pending, signals, manager, held, policy>>
  PROVE  SeatInv'
BY OthersKeep DEF SeatInv, TypeOK, LoopOK

(* ---- Steps of the threads ---- *)
\* A thread that wakes the event loop, or has woken it, and goes on.
LEMMA ResumedFacts ==
  ASSUME SeatInv, NEW t \in Threads, thread[t].at \in {"wakes", "signals"},
         thread' = [thread EXCEPT ![t] = Resumed(t)]
  PROVE  /\ ThreadsOK' /\ StartsAnnounced'
         /\ \A u \in Threads : u /= t => thread'[u] = thread[u]
         /\ \A s \in Connections : (NotHeardOf(s)' => NotHeardOf(s)) /\ (NotOver(s)' => NotOver(s))
<1> DEFINE x == thread[t].item
<1>1. /\ x \in AllItems /\ x.session \in Connections
      /\ x.kind \in {"connected", "frame", "faulted", "disconnected"}
      /\ x.kind = "connected" => /\ t = Acceptor /\ x = Connected(x.session)
                                 /\ thread[x.session].at = "starts"
      /\ x.kind /= "connected" => \/ t = x.session
                                  \/ /\ t = Acceptor /\ x = Disconnected(x.session)
                                     /\ x.kind = "disconnected"
                                     /\ thread[x.session].at = "done"
  BY SenderFacts DEF Delivering
<1>2. /\ thread \in [Threads -> ThreadType]
      /\ Acceptor \in Threads /\ Acceptor \notin Connections /\ Connections \subseteq Threads
  BY SeatAssumption DEF SeatInv, TypeOK, ThreadsOK, Threads
<1>3. /\ thread'[t] = Resumed(t)
      /\ \A u \in Threads : u /= t => thread'[u] = thread[u]
  BY <1>2
<1>4. \/ /\ t = Acceptor /\ x.kind = "disconnected" /\ Resumed(t) = Doing("waits", Nothing)
      \/ /\ t = Acceptor /\ x.kind = "connected" /\ Resumed(t) = Doing("splits", x)
      \/ /\ t \in Connections /\ x.kind = "frame" /\ Resumed(t) = Doing("waits", Nothing)
      \/ t \in Connections /\ x.kind \in {"faulted", "disconnected"} /\ Resumed(t) = Doing("done", Nothing)
  BY <1>1, <1>2 DEF Resumed, After
<1> HIDE DEF x
<1>5. /\ Resumed(t) \in ThreadType
      /\ t = Acceptor => AcceptorOK(Resumed(t))
      /\ t \in Connections => ReaderOK(t, Resumed(t))
  <2>1. /\ Doing("waits", Nothing) \in ThreadType /\ Doing("done", Nothing) \in ThreadType
        /\ Doing("splits", x) \in ThreadType
    BY <1>1 DEF Doing, ThreadType
  <2>2. /\ AcceptorOK(Doing("waits", Nothing))
        /\ ReaderOK(t, Doing("waits", Nothing)) /\ ReaderOK(t, Doing("done", Nothing))
    BY DEF AcceptorOK, ReaderOK, Doing, Delivering
  <2>3. x.kind = "connected" => AcceptorOK(Doing("splits", x))
    BY <1>1 DEF AcceptorOK, Doing, Delivering
  <2> QED BY <1>2, <1>4, <2>1, <2>2, <2>3
<1>6. ThreadsOK'
  <2>1. thread' \in [Threads -> ThreadType]
    BY <1>2, <1>5
  <2>2. \A s \in Connections : ReaderOK(s, thread'[s])
    BY <1>2, <1>3, <1>5 DEF SeatInv, TypeOK, ThreadsOK
  <2>3. AcceptorOK(thread'[Acceptor])
    BY <1>2, <1>3, <1>5 DEF SeatInv, TypeOK, ThreadsOK
  <2> QED BY <2>1, <2>2, <2>3 DEF ThreadsOK
<1>7. StartsAnnounced'
  <2>1. CASE t = Acceptor
    BY <1>1, <1>2, <1>3, <1>4, <2>1
       DEF SeatInv, StartsAnnounced, BringsUp, Doing, Delivering, x
  <2>2. CASE t \in Connections
    BY <1>2, <1>3, <2>2 DEF SeatInv, StartsAnnounced, BringsUp, Delivering
  <2> QED BY <2>1, <2>2 DEF Threads
<1>8. ASSUME NEW s \in Connections
      PROVE  (NotHeardOf(s)' => NotHeardOf(s)) /\ (NotOver(s)' => NotOver(s))
  BY <1>2, <1>3, <1>4 DEF NotHeardOf, NotOver, Doing, x
<1> QED BY <1>3, <1>6, <1>7, <1>8

LEMMA WakeKeeps ==
  ASSUME SeatInv, NEW t \in Threads, Wake(t)
  PROVE  SeatInv'
<1>1. /\ thread[t].at = "wakes" /\ wakeup_pending' = TRUE
      /\ UNCHANGED <<inbox, signals, manager, held, policy>>
  BY DEF Wake, loop
<1>2. Heard' = Heard /\ LoopOK'
  BY <1>1 DEF Heard, SeatInv, TypeOK, LoopOK
<1>3. /\ thread \in [Threads -> ThreadType]
      /\ Acceptor \in Threads /\ Acceptor \notin Connections /\ Connections \subseteq Threads
  BY SeatAssumption DEF SeatInv, TypeOK, ThreadsOK, Threads
<1>4. CASE wakeup_pending
  <2>1. thread' = [thread EXCEPT ![t] = Resumed(t)]
    BY <1>4 DEF Wake
  <2>2. /\ ThreadsOK' /\ StartsAnnounced'
        /\ \A u \in Threads : u /= t => thread'[u] = thread[u]
        /\ \A s \in Connections : (NotHeardOf(s)' => NotHeardOf(s)) /\ (NotOver(s)' => NotOver(s))
    BY <1>1, <2>1, ResumedFacts
  <2>3. StreamsFit' /\ SessionsInOrder'
    BY <1>1, <1>2, <2>2, HeardStays
  <2>4. signals > 0 \/ \E u \in Threads : u /= t /\ thread[u].at = "signals"
    BY <1>1, <1>4 DEF SeatInv, FlagIsSignal
  <2>5. signals' > 0 \/ \E u \in Threads : thread'[u].at = "signals"
    BY <1>1, <2>2, <2>4
  <2> QED BY <1>2, <2>2, <2>3, <2>5 DEF SeatInv, TypeOK, FlagIsSignal, WakeupComes
<1>5. CASE ~wakeup_pending
  <2>1. thread' = [thread EXCEPT ![t].at = "signals"]
    BY <1>5 DEF Wake
  <2>2. /\ thread'[t].at = "signals" /\ thread'[t].item = thread[t].item
        /\ \A u \in Threads : u /= t => thread'[u] = thread[u]
        /\ thread' \in [Threads -> ThreadType]
    <3>1. thread[t] \in ThreadType
      BY <1>3
    <3>2. /\ [thread[t] EXCEPT !.at = "signals"] \in ThreadType
          /\ [thread[t] EXCEPT !.at = "signals"].at = "signals"
          /\ [thread[t] EXCEPT !.at = "signals"].item = thread[t].item
      BY <3>1 DEF ThreadType, Delivering
    <3> QED BY <1>3, <2>1, <3>2
  <2>3. ThreadsOK'
    BY <1>1, <1>3, <2>2 DEF SeatInv, TypeOK, ThreadsOK, ReaderOK, AcceptorOK, Delivering
  <2>4. StartsAnnounced'
    BY <1>1, <1>3, <2>2 DEF SeatInv, StartsAnnounced, BringsUp, Delivering
  <2>5. \A s \in Connections : (NotHeardOf(s)' => NotHeardOf(s)) /\ (NotOver(s)' => NotOver(s))
    BY <1>1, <1>3, <2>2 DEF NotHeardOf, NotOver, Doing
  <2>6. StreamsFit' /\ SessionsInOrder'
    BY <1>1, <1>2, <2>5, HeardStays
  <2> QED BY <1>2, <2>2, <2>3, <2>4, <2>6 DEF SeatInv, TypeOK, FlagIsSignal, WakeupComes
<1> QED BY <1>4, <1>5

LEMMA SignalKeeps ==
  ASSUME SeatInv, NEW t \in Threads, Signal(t)
  PROVE  SeatInv'
<1>1. /\ thread[t].at = "signals" /\ signals' = signals + 1 /\ signals \in Nat
      /\ UNCHANGED <<inbox, wakeup_pending, manager, held, policy>>
  BY DEF Signal, loop, SeatInv, TypeOK, LoopOK
<1>2. Heard' = Heard /\ LoopOK' /\ signals' > 0
  BY <1>1 DEF Heard, SeatInv, TypeOK, LoopOK
<1>3. /\ ThreadsOK' /\ StartsAnnounced'
      /\ \A s \in Connections : (NotHeardOf(s)' => NotHeardOf(s)) /\ (NotOver(s)' => NotOver(s))
  BY <1>1, ResumedFacts DEF Signal
<1>4. StreamsFit' /\ SessionsInOrder'
  BY <1>1, <1>2, <1>3, HeardStays
<1> QED BY <1>2, <1>3, <1>4 DEF SeatInv, TypeOK, FlagIsSignal, WakeupComes

LEMMA DeliverKeeps ==
  ASSUME SeatInv, NEW t \in Threads, Deliver(t)
  PROVE  SeatInv'
<1> DEFINE x == thread[t].item
<1>1. /\ x \in AllItems /\ x.session \in Connections
      /\ x.kind \in {"connected", "frame", "faulted", "disconnected"}
      /\ x.kind = "connected" => /\ t = Acceptor /\ x = Connected(x.session)
                                 /\ thread[x.session].at = "starts"
      /\ x.kind /= "connected" => \/ t = x.session
                                  \/ /\ t = Acceptor /\ x = Disconnected(x.session)
                                     /\ x.kind = "disconnected"
                                     /\ thread[x.session].at = "done"
  BY SenderFacts DEF Delivering, Deliver
<1>2. /\ thread \in [Threads -> ThreadType]
      /\ Acceptor \in Threads /\ Acceptor \notin Connections /\ Connections \subseteq Threads
  BY SeatAssumption DEF SeatInv, TypeOK, ThreadsOK, Threads
<1>3. /\ thread[t].at = "sends" /\ thread[t] \in ThreadType
      /\ UNCHANGED <<wakeup_pending, signals, manager, held, policy>>
  BY <1>2 DEF Deliver, loop
<1>4. CASE /\ inbox' = Append(inbox, x)
           /\ thread' = [thread EXCEPT ![t].at = "wakes"]
  <2>1. /\ thread'[t].at = "wakes" /\ thread'[t].item = x
        /\ \A u \in Threads : u /= t => thread'[u] = thread[u]
        /\ thread' \in [Threads -> ThreadType]
    <3>1. /\ [thread[t] EXCEPT !.at = "wakes"] \in ThreadType
          /\ [thread[t] EXCEPT !.at = "wakes"].at = "wakes"
          /\ [thread[t] EXCEPT !.at = "wakes"].item = x
      BY <1>3 DEF ThreadType, Delivering
    <3> QED BY <1>2, <1>4, <3>1
  <2>2. manager.batch \in Seq(AllItems) /\ inbox \in Seq(AllItems)
    BY DEF SeatInv, TypeOK, LoopOK
  <2> HIDE DEF x
  <2>3. Heard \in Seq(AllItems) /\ Heard' = Append(Heard, x)
    <3>1. /\ manager.batch \o inbox \in Seq(AllItems)
          /\ manager.batch \o Append(inbox, x) = Append(manager.batch \o inbox, x)
      <4>1. ASSUME NEW b \in Seq(AllItems), NEW q \in Seq(AllItems)
            PROVE  /\ b \o q \in Seq(AllItems)
                   /\ \A y \in AllItems : b \o Append(q, y) = Append(b \o q, y)
        BY HeardFacts
      <4>2. x \in AllItems
        BY <1>1
      <4> QED BY <2>2, <4>1, <4>2
    <3> QED BY <1>3, <1>4, <3>1 DEF Heard, x
  <2>4. ThreadsOK'
    BY <1>2, <1>3, <2>1 DEF SeatInv, TypeOK, ThreadsOK, ReaderOK, AcceptorOK, Delivering, x
  <2>5. LoopOK' /\ FlagIsSignal' /\ WakeupComes'
    BY <1>1, <1>3, <1>4, <2>1, <2>2
       DEF SeatInv, TypeOK, LoopOK, FlagIsSignal, WakeupComes
  <2>6. StartsAnnounced'
    BY <1>2, <1>3, <2>1 DEF SeatInv, StartsAnnounced, BringsUp, Delivering, x
  <2>7. ASSUME NEW s \in Connections, NotHeardOf(s)'
        PROVE  NotHeardOf(s) /\ x.session /= s
    <3>1. NotHeardOf(s)
      BY <1>2, <1>3, <2>1, <2>7 DEF NotHeardOf, Doing
    <3>2. CASE thread'[s].at = "none"
      BY <1>1, <1>2, <1>3, <2>1, <3>1, <3>2
    <3>3. CASE thread'[Acceptor] = Doing("sends", Connected(s))
      <4>1. t /= Acceptor /\ BringsUp(s)
        BY <1>2, <2>1, <3>3 DEF Doing, BringsUp, Delivering
      <4>2. thread[s].at = "starts"
        BY <4>1 DEF SeatInv, StartsAnnounced
      <4> QED BY <1>1, <1>3, <3>1, <4>1, <4>2
    <3> QED BY <2>7, <3>1, <3>2, <3>3 DEF NotHeardOf
  <2>8. ASSUME NEW s \in Connections, NotOver(s)'
        PROVE  NotOver(s) /\ (x.session = s => x.kind \in Alive)
    <3>1. CASE thread'[s].at \in {"starts", "waits", "sends"}
      BY <1>1, <1>2, <2>1, <3>1 DEF NotOver, Alive
    <3>2. CASE thread'[s].at \in {"wakes", "signals"} /\ thread'[s].item.kind = "frame"
      BY <1>1, <1>2, <1>3, <2>1, <3>2 DEF NotOver, Alive
    <3>3. CASE thread'[Acceptor] = Doing("sends", Disconnected(s))
      <4>1. t /= Acceptor /\ NotOver(s)
        BY <1>2, <2>1, <3>3 DEF Doing, NotOver
      <4>2. thread[s].at = "done"
        BY <1>2, <2>1, <3>3, <4>1 DEF Doing, Delivering, SeatInv, StartsAnnounced
      <4> QED BY <1>1, <1>3, <4>1, <4>2
    <3> QED BY <2>8, <3>1, <3>2, <3>3 DEF NotOver
  <2>9. /\ DOMAIN Heard' = DOMAIN Heard \cup {Len(Heard) + 1}
        /\ Heard'[Len(Heard) + 1] = x
        /\ \A i \in DOMAIN Heard : Heard'[i] = Heard[i]
        /\ DOMAIN Heard = 1..Len(Heard) /\ Len(Heard) \in Nat
    BY <1>1, <2>3
  <2>10. StreamsFit'
    BY <1>3, <2>7, <2>8, <2>9 DEF SeatInv, StreamsFit
  <2>11. NotHeardOf(x.session) \/ (NotOver(x.session) /\ x.kind /= "connected")
    BY <1>1, <1>3 DEF NotHeardOf, NotOver, Doing, x, ThreadType
  <2>12. ASSUME NEW i \in DOMAIN Heard, Heard[i].session = x.session
         PROVE  Heard[i].kind \in Alive /\ x.kind /= "connected"
    BY <1>1, <2>11, <2>12 DEF SeatInv, StreamsFit
  <2>13. x.kind = "connected" => x.session \notin held \cup policy
    BY <1>1, <2>11 DEF SeatInv, StreamsFit
  <2>14. ASSUME NEW j \in DOMAIN Heard'
         PROVE  /\ Heard'[j].kind = "connected" => Heard'[j].session \notin held' \cup policy'
                /\ \A i \in 1..(j - 1) : Heard'[i].session = Heard'[j].session =>
                     Heard'[i].kind \in {"connected", "frame"} /\ Heard'[j].kind /= "connected"
    <3>1. CASE j \in DOMAIN Heard
      <4>1. \A i \in 1..(j - 1) : i \in DOMAIN Heard
        BY <2>9, <3>1
      <4> QED BY <1>3, <2>9, <3>1, <4>1 DEF SeatInv, SessionsInOrder
    <3>2. CASE j = Len(Heard) + 1
      <4>1. \A i \in 1..(j - 1) : i \in DOMAIN Heard
        BY <2>9, <3>2
      <4> QED BY <1>3, <2>9, <2>12, <2>13, <3>2, <4>1 DEF Alive
    <3> QED BY <2>9, <3>1, <3>2
  <2>15. SessionsInOrder'
    BY <2>14 DEF SessionsInOrder
  <2> QED BY <2>4, <2>5, <2>6, <2>10, <2>15 DEF SeatInv, TypeOK
<1>5. CASE /\ manager.at = "stopped" /\ inbox' = inbox
           /\ thread' = [thread EXCEPT ![t] = Doing("done", Nothing)]
  <2>1. /\ thread'[t] = Doing("done", Nothing)
        /\ \A u \in Threads : u /= t => thread'[u] = thread[u]
        /\ Doing("done", Nothing) \in ThreadType
    BY <1>2, <1>5 DEF Doing, ThreadType
  <2>2. thread' \in [Threads -> ThreadType]
    BY <1>2, <1>5, <2>1
  <2>3. Heard' = Heard /\ LoopOK' /\ WakeupComes'
    BY <1>3, <1>5 DEF Heard, SeatInv, TypeOK, LoopOK, WakeupComes
  <2>4. ThreadsOK'
    BY <1>2, <2>1, <2>2
       DEF SeatInv, TypeOK, ThreadsOK, ReaderOK, AcceptorOK, Delivering, Doing
  <2>5. FlagIsSignal'
    BY <1>3, <2>1 DEF SeatInv, FlagIsSignal
  <2>6. StartsAnnounced'
    BY <1>2, <1>3, <2>1 DEF SeatInv, StartsAnnounced, BringsUp, Delivering, Doing
  <2>7. \A s \in Connections : (NotHeardOf(s)' => NotHeardOf(s)) /\ (NotOver(s)' => NotOver(s))
    BY <1>2, <2>1 DEF NotHeardOf, NotOver, Doing
  <2>8. StreamsFit' /\ SessionsInOrder'
    BY <1>3, <2>3, <2>7, HeardStays
  <2> QED BY <2>3, <2>4, <2>5, <2>6, <2>8 DEF SeatInv, TypeOK
<1> QED BY <1>4, <1>5 DEF Deliver

(* ---- Steps of the acceptor and the readers on their own ---- *)
\* What is common to the steps that neither deliver nor wake.
LEMMA OwnStepKeeps ==
  ASSUME SeatInv, UNCHANGED <<inbox, wakeup_pending, signals, manager, held, policy>>,
         ThreadsOK', StartsAnnounced',
         \A u \in Threads : thread[u].at \in {"wakes", "signals"} => thread'[u] = thread[u],
         \A s \in Connections : (NotHeardOf(s)' => NotHeardOf(s)) /\ (NotOver(s)' => NotHeardOf(s) \/ NotOver(s))
  PROVE  SeatInv'
<1>1. Heard' = Heard /\ LoopOK'
  BY DEF Heard, SeatInv, TypeOK, LoopOK
<1>2. FlagIsSignal' /\ WakeupComes'
  BY DEF SeatInv, FlagIsSignal, WakeupComes
<1>3. StreamsFit' /\ SessionsInOrder'
  BY <1>1 DEF SeatInv, StreamsFit, SessionsInOrder
<1> QED BY <1>1, <1>2, <1>3 DEF SeatInv, TypeOK

LEMMA AcceptKeeps ==
  ASSUME SeatInv, NEW s \in Connections, Accept(s)
  PROVE  SeatInv'
<1>1. /\ thread \in [Threads -> ThreadType]
      /\ Acceptor \in Threads /\ Acceptor \notin Connections /\ Connections \subseteq Threads
  BY SeatAssumption DEF SeatInv, TypeOK, ThreadsOK, Threads
<1>2. /\ thread[Acceptor].at = "waits" /\ thread[s].at = "none"
      /\ UNCHANGED <<inbox, wakeup_pending, signals, manager, held, policy>>
  BY DEF Accept, loop
<1>3. CASE thread' = [thread EXCEPT ![Acceptor] = Doing("sends", Connected(s)),
                                    ![s].at = "starts"]
  <2>1. /\ [thread[s] EXCEPT !.at = "starts"] \in ThreadType
        /\ [thread[s] EXCEPT !.at = "starts"].at = "starts"
        /\ Doing("sends", Connected(s)) \in ThreadType /\ Connected(s) \in AcceptorItems
    <3>1. thread[s] \in ThreadType
      BY <1>1
    <3>2. Connected(s) \in AllItems /\ Connected(s) \in AcceptorItems
      BY ItemFacts
    <3> QED BY <3>1, <3>2 DEF ThreadType, Delivering, Doing
  <2>2. /\ thread'[Acceptor] = Doing("sends", Connected(s)) /\ thread'[s].at = "starts"
        /\ \A u \in Threads : u /= Acceptor /\ u /= s => thread'[u] = thread[u]
        /\ thread' \in [Threads -> ThreadType]
    BY <1>1, <1>3, <2>1
  <2>3. ThreadsOK'
    BY <1>1, <2>1, <2>2 DEF SeatInv, TypeOK, ThreadsOK, ReaderOK, AcceptorOK, Delivering, Doing
  <2>4. StartsAnnounced'
    BY <1>1, <2>2 DEF StartsAnnounced, BringsUp, Doing, Connected, Disconnected
  <2>5. \A u \in Connections : (NotHeardOf(u)' => NotHeardOf(u)) /\ (NotOver(u)' => NotHeardOf(u) \/ NotOver(u))
    BY <1>1, <1>2, <2>2 DEF NotHeardOf, NotOver, Doing, Connected, Disconnected
  <2> QED BY <1>2, <2>2, <2>3, <2>4, <2>5, OwnStepKeeps
<1>4. CASE thread' = [thread EXCEPT ![s].at = "done"]
  <2>1. /\ [thread[s] EXCEPT !.at = "done"] \in ThreadType
        /\ [thread[s] EXCEPT !.at = "done"].at = "done"
    <3>1. thread[s] \in ThreadType
      BY <1>1
    <3> QED BY <3>1 DEF ThreadType
  <2>2. /\ thread'[s].at = "done" /\ \A u \in Threads : u /= s => thread'[u] = thread[u]
        /\ thread' \in [Threads -> ThreadType]
    BY <1>1, <1>4, <2>1
  <2>3. ThreadsOK'
    BY <1>1, <2>2 DEF SeatInv, TypeOK, ThreadsOK, ReaderOK, AcceptorOK, Delivering
  <2>4. StartsAnnounced'
    BY <1>1, <1>2, <2>2 DEF SeatInv, StartsAnnounced, BringsUp, Delivering
  <2>5. \A u \in Connections : (NotHeardOf(u)' => NotHeardOf(u)) /\ (NotOver(u)' => NotHeardOf(u) \/ NotOver(u))
    BY <1>1, <1>2, <2>2 DEF NotHeardOf, NotOver
  <2> QED BY <1>2, <2>2, <2>3, <2>4, <2>5, OwnStepKeeps
<1> QED BY <1>3, <1>4 DEF Accept

LEMMA AcceptFailsKeeps ==
  ASSUME SeatInv, AcceptFails
  PROVE  SeatInv'
<1>1. /\ thread \in [Threads -> ThreadType]
      /\ Acceptor \in Threads /\ Acceptor \notin Connections /\ Connections \subseteq Threads
  BY SeatAssumption DEF SeatInv, TypeOK, ThreadsOK, Threads
<1>2. /\ thread[Acceptor].at = "waits" /\ thread' = [thread EXCEPT ![Acceptor].at = "done"]
      /\ UNCHANGED <<inbox, wakeup_pending, signals, manager, held, policy>>
  BY DEF AcceptFails, loop
<1>3. /\ [thread[Acceptor] EXCEPT !.at = "done"] \in ThreadType
      /\ [thread[Acceptor] EXCEPT !.at = "done"].at = "done"
  <2>1. thread[Acceptor] \in ThreadType
    BY <1>1
  <2> QED BY <2>1 DEF ThreadType
<1>4. /\ thread'[Acceptor].at = "done"
      /\ \A u \in Threads : u /= Acceptor => thread'[u] = thread[u]
      /\ thread' \in [Threads -> ThreadType]
  BY <1>1, <1>2, <1>3
<1>5. ThreadsOK'
  BY <1>1, <1>4 DEF SeatInv, TypeOK, ThreadsOK, ReaderOK, AcceptorOK, Delivering
<1>6. StartsAnnounced'
  BY <1>1, <1>4 DEF StartsAnnounced, BringsUp, Delivering
<1>7. \A u \in Connections : (NotHeardOf(u)' => NotHeardOf(u)) /\ (NotOver(u)' => NotHeardOf(u) \/ NotOver(u))
  BY <1>1, <1>4 DEF NotHeardOf, NotOver, Doing
<1> QED BY <1>2, <1>4, <1>5, <1>6, <1>7, OwnStepKeeps

LEMMA SplitKeeps ==
  ASSUME SeatInv, Split
  PROVE  SeatInv'
<1>1. /\ thread \in [Threads -> ThreadType]
      /\ Acceptor \in Threads /\ Acceptor \notin Connections /\ Connections \subseteq Threads
  BY SeatAssumption DEF SeatInv, TypeOK, ThreadsOK, Threads
<1> DEFINE s == thread[Acceptor].item.session
<1>2. /\ thread[Acceptor].at = "splits"
      /\ UNCHANGED <<inbox, wakeup_pending, signals, manager, held, policy>>
  BY DEF Split, loop
<1>3. /\ s \in Connections /\ thread[Acceptor].item = Connected(s) /\ thread[s].at = "starts"
      /\ thread[s] \in ThreadType
  <2>1. PICK c \in Connections : thread[Acceptor].item = Connected(c)
    BY <1>2 DEF SeatInv, TypeOK, ThreadsOK, AcceptorOK
  <2>2. s = c
    BY <2>1 DEF Connected
  <2> QED BY <1>1, <1>2, <2>1, <2>2 DEF SeatInv, StartsAnnounced, BringsUp
<1>4. \/ thread' = [thread EXCEPT ![Acceptor] = Doing("waits", Nothing), ![s].at = "waits"]
      \/ thread' = [thread EXCEPT ![Acceptor] = Doing("sends", Disconnected(s)), ![s].at = "done"]
  BY DEF Split
<1> HIDE DEF s
<1>5. /\ \A at \in {"waits", "done"} : /\ [thread[s] EXCEPT !.at = at] \in ThreadType
                                       /\ [thread[s] EXCEPT !.at = at].at = at
      /\ Doing("waits", Nothing) \in ThreadType
      /\ Doing("sends", Disconnected(s)) \in ThreadType /\ Disconnected(s) \in AcceptorItems
  <2>1. Disconnected(s) \in AllItems /\ Disconnected(s) \in AcceptorItems
    BY <1>3, ItemFacts
  <2> QED BY <1>3, <2>1 DEF ThreadType, Delivering, Doing
<1>6. CASE thread' = [thread EXCEPT ![Acceptor] = Doing("waits", Nothing), ![s].at = "waits"]
  <2>1. /\ thread'[Acceptor] = Doing("waits", Nothing) /\ thread'[s].at = "waits"
        /\ \A u \in Threads : u /= Acceptor /\ u /= s => thread'[u] = thread[u]
        /\ thread' \in [Threads -> ThreadType]
    BY <1>1, <1>3, <1>5, <1>6
  <2>2. ThreadsOK'
    BY <1>1, <1>3, <2>1 DEF SeatInv, TypeOK, ThreadsOK, ReaderOK, AcceptorOK, Delivering, Doing
  <2>3. StartsAnnounced'
    BY <2>1 DEF StartsAnnounced, BringsUp, Delivering, Doing
  <2>4. \A u \in Connections : (NotHeardOf(u)' => NotHeardOf(u)) /\ (NotOver(u)' => NotHeardOf(u) \/ NotOver(u))
    BY <1>1, <1>3, <2>1 DEF NotHeardOf, NotOver, Doing
  <2> QED BY <1>2, <1>3, <2>1, <2>2, <2>3, <2>4, OwnStepKeeps
<1>7. CASE thread' = [thread EXCEPT ![Acceptor] = Doing("sends", Disconnected(s)), ![s].at = "done"]
  <2>1. /\ thread'[Acceptor] = Doing("sends", Disconnected(s)) /\ thread'[s].at = "done"
        /\ \A u \in Threads : u /= Acceptor /\ u /= s => thread'[u] = thread[u]
        /\ thread' \in [Threads -> ThreadType]
    BY <1>1, <1>3, <1>5, <1>7
  <2>2. ThreadsOK'
    BY <1>1, <1>3, <1>5, <2>1
       DEF SeatInv, TypeOK, ThreadsOK, ReaderOK, AcceptorOK, Delivering, Doing
  <2>3. StartsAnnounced'
    BY <1>1, <1>3, <2>1 DEF StartsAnnounced, BringsUp, Doing, Connected, Disconnected
  <2>4. \A u \in Connections : (NotHeardOf(u)' => NotHeardOf(u)) /\ (NotOver(u)' => NotHeardOf(u) \/ NotOver(u))
    BY <1>1, <1>3, <2>1 DEF NotHeardOf, NotOver, Doing, Connected, Disconnected
  <2> QED BY <1>2, <1>3, <2>1, <2>2, <2>3, <2>4, OwnStepKeeps
<1> QED BY <1>4, <1>6, <1>7

LEMMA ReceiveKeeps ==
  ASSUME SeatInv, NEW s \in Connections, Receive(s)
  PROVE  SeatInv'
<1>1. /\ thread \in [Threads -> ThreadType]
      /\ Acceptor \in Threads /\ Acceptor \notin Connections /\ Connections \subseteq Threads
  BY SeatAssumption DEF SeatInv, TypeOK, ThreadsOK, Threads
<1>2. /\ thread[s].at = "waits"
      /\ UNCHANGED <<inbox, wakeup_pending, signals, manager, held, policy>>
  BY DEF Receive, loop
<1>3. PICK x \in ReaderItems(s) : thread' = [thread EXCEPT ![s] = Doing("sends", x)]
  BY DEF Receive, ReaderItems
<1>4. Doing("sends", x) \in ThreadType
  BY ItemFacts DEF ThreadType, Delivering, Doing
<1>5. /\ thread'[s] = Doing("sends", x)
      /\ \A u \in Threads : u /= s => thread'[u] = thread[u]
      /\ thread' \in [Threads -> ThreadType]
  BY <1>1, <1>3, <1>4
<1>6. ThreadsOK'
  BY <1>1, <1>5 DEF SeatInv, TypeOK, ThreadsOK, ReaderOK, AcceptorOK, Delivering, Doing
<1>7. StartsAnnounced'
  BY <1>1, <1>2, <1>5 DEF SeatInv, StartsAnnounced, BringsUp, Delivering, Doing
<1>8. \A u \in Connections : (NotHeardOf(u)' => NotHeardOf(u)) /\ (NotOver(u)' => NotHeardOf(u) \/ NotOver(u))
  BY <1>1, <1>2, <1>5 DEF NotHeardOf, NotOver, Doing
<1> QED BY <1>2, <1>5, <1>6, <1>7, <1>8, OwnStepKeeps

(* ---- Steps of the event loop ---- *)
LEMMA LookKeeps ==
  ASSUME SeatInv, Look
  PROVE  SeatInv'
<1>1. /\ manager \in [at : {"waits", "takes", "handles", "joins", "stopped"}, batch : Seq(AllItems)]
      /\ signals > 0 /\ signals \in Nat
  BY DEF SeatInv, TypeOK, LoopOK, Look
<1>2. /\ manager'.at = "takes" /\ manager'.batch = manager.batch
      /\ manager' \in [at : {"waits", "takes", "handles", "joins", "stopped"},
                       batch : Seq(AllItems)]
      /\ signals' \in Nat /\ wakeup_pending' = FALSE
      /\ UNCHANGED <<thread, inbox, held, policy>>
  BY <1>1 DEF Look
<1>3. Heard' = Heard
  BY <1>2 DEF Heard
<1>4. \A s \in Connections : (NotHeardOf(s)' => NotHeardOf(s)) /\ (NotOver(s)' => NotOver(s))
  BY <1>2 DEF NotHeardOf, NotOver
<1>5. StreamsFit' /\ SessionsInOrder'
  BY <1>2, <1>3, <1>4, HeardStays
<1>6. ThreadsOK' /\ StartsAnnounced'
  BY <1>2 DEF SeatInv, TypeOK, ThreadsOK, StartsAnnounced, BringsUp
<1>7. LoopOK' /\ FlagIsSignal' /\ WakeupComes'
  BY <1>2 DEF SeatInv, TypeOK, LoopOK, FlagIsSignal, WakeupComes
<1> QED BY <1>5, <1>6, <1>7 DEF SeatInv, TypeOK

LEMMA TakeInboundKeeps ==
  ASSUME SeatInv, TakeInbound
  PROVE  SeatInv'
<1>1. /\ manager \in [at : {"waits", "takes", "handles", "joins", "stopped"}, batch : Seq(AllItems)]
      /\ manager.at = "takes" /\ inbox \in Seq(AllItems)
      /\ UNCHANGED <<thread, wakeup_pending, signals, held, policy>>
  BY DEF SeatInv, TypeOK, LoopOK, TakeInbound
<1>2. /\ Heard' = Heard /\ inbox' \in Seq(AllItems)
      /\ manager' \in [at : {"waits", "takes", "handles", "joins", "stopped"},
                       batch : Seq(AllItems)]
      /\ manager'.at = "takes" \/ (manager'.at = "handles" /\ inbox' = <<>>)
  <2>1. CASE /\ inbox /= <<>> /\ inbox' = Tail(inbox)
             /\ manager' = [manager EXCEPT !.batch = Append(@, Head(inbox))]
    <3> DEFINE b == manager.batch
    <3>1. b \in Seq(AllItems) /\ manager'.batch = Append(b, Head(inbox)) /\ manager'.at = "takes"
      BY <1>1, <2>1
    <3> HIDE DEF b
    <3>2. Head(inbox) \in AllItems /\ Tail(inbox) \in Seq(AllItems)
      BY <1>1, <2>1
    <3>3. Append(b, Head(inbox)) \in Seq(AllItems)
      BY <3>1, <3>2
    <3>4. Append(b, Head(inbox)) \o Tail(inbox) = b \o inbox
      BY <1>1, <2>1, <3>1, HeardFacts
    <3>5. manager' \in [at : {"waits", "takes", "handles", "joins", "stopped"},
                        batch : Seq(AllItems)]
      BY <1>1, <2>1, <3>3 DEF b
    <3> QED BY <2>1, <3>1, <3>2, <3>4, <3>5 DEF Heard, b
  <2>2. CASE inbox = <<>> /\ inbox' = inbox /\ manager' = [manager EXCEPT !.at = "handles"]
    BY <1>1, <2>2 DEF Heard
  <2> QED BY <2>1, <2>2 DEF TakeInbound
<1>3. \A s \in Connections : (NotHeardOf(s)' => NotHeardOf(s)) /\ (NotOver(s)' => NotOver(s))
  BY <1>1 DEF NotHeardOf, NotOver
<1>4. StreamsFit' /\ SessionsInOrder'
  BY <1>1, <1>2, <1>3, HeardStays
<1>5. ThreadsOK' /\ StartsAnnounced'
  BY <1>1 DEF SeatInv, TypeOK, ThreadsOK, StartsAnnounced, BringsUp
<1>6. LoopOK' /\ FlagIsSignal' /\ WakeupComes'
  BY <1>1, <1>2 DEF SeatInv, TypeOK, LoopOK, FlagIsSignal, WakeupComes
<1> QED BY <1>4, <1>5, <1>6 DEF SeatInv, TypeOK

LEMMA JoinKeeps ==
  ASSUME SeatInv, Join
  PROVE  SeatInv'
<1>1. /\ manager \in [at : {"waits", "takes", "handles", "joins", "stopped"}, batch : Seq(AllItems)]
      /\ inbox \in Seq(AllItems) /\ inbox' = <<>> /\ policy' = {}
      /\ UNCHANGED <<thread, wakeup_pending, signals, held>>
  BY DEF SeatInv, TypeOK, LoopOK, Join
<1>2. /\ manager'.at = "stopped" /\ manager'.batch = manager.batch
      /\ manager' \in [at : {"waits", "takes", "handles", "joins", "stopped"},
                       batch : Seq(AllItems)]
  BY <1>1 DEF Join
<1>3. /\ DOMAIN Heard' \subseteq DOMAIN Heard
      /\ \A i \in DOMAIN Heard' : Heard'[i] = Heard[i] /\ 1..(i - 1) \subseteq DOMAIN Heard'
  <2> DEFINE b == manager.batch
  <2>1. /\ b \in Seq(AllItems) /\ Heard' = b \o <<>> /\ Heard = b \o inbox
    BY <1>1, <1>2 DEF Heard
  <2> HIDE DEF b
  <2> QED BY <1>1, <2>1
<1>4. \A s \in Connections : (NotHeardOf(s)' => NotHeardOf(s)) /\ (NotOver(s)' => NotOver(s))
  BY <1>1 DEF NotHeardOf, NotOver
<1>5. StreamsFit'
  BY <1>1, <1>3, <1>4 DEF SeatInv, StreamsFit
<1>6. SessionsInOrder'
  BY <1>1, <1>3 DEF SeatInv, SessionsInOrder
<1>7. ThreadsOK' /\ StartsAnnounced'
  BY <1>1 DEF SeatInv, TypeOK, ThreadsOK, StartsAnnounced, BringsUp
<1>8. LoopOK' /\ FlagIsSignal' /\ WakeupComes'
  BY <1>1, <1>2 DEF SeatInv, TypeOK, LoopOK, FlagIsSignal, WakeupComes
<1> QED BY <1>5, <1>6, <1>7, <1>8 DEF SeatInv, TypeOK

\* A handled item adds nobody but its own session, which is not announced again.
LEMMA HandleFacts ==
  ASSUME SeatInv, Handle
  PROVE  LET x == Head(manager.batch) IN
         held' \cup policy' \subseteq held \cup policy \cup {x.session}
<1> DEFINE x == Head(manager.batch)
<1>1. /\ manager.batch \in Seq(AllItems) /\ manager.batch /= <<>>
      /\ CASE x.kind = "connected" -> HandleConnected(x.session)
           [] x.kind = "frame" -> HandleFrame(x.session, x.sound)
           [] x.kind = "faulted" -> HandleFaulted(x.session)
           [] x.kind = "disconnected" -> HandleDisconnected(x.session)
  BY DEF SeatInv, TypeOK, LoopOK, Handle
<1>2. x.kind \in {"connected", "frame", "faulted", "disconnected"}
  <2>1. x \in AllItems
    BY <1>1
  <2> HIDE DEF x
  <2> QED BY <2>1, ItemFacts DEF AllItems
<1> HIDE DEF x
<1>3. CASE x.kind = "connected"
  <2>1. HandleConnected(x.session)
    BY <1>1, <1>3
  <2>2. UNCHANGED <<held, policy>> \/ (held' = held \cup {x.session} /\ policy' = policy)
    BY <2>1 DEF HandleConnected
  <2> QED BY <2>2 DEF x
<1>4. CASE x.kind = "frame"
  BY <1>1, <1>4 DEF HandleFrame, SendTo, CloseTransport
<1>5. CASE x.kind = "faulted"
  BY <1>1, <1>5 DEF HandleFaulted, CloseTransport
<1>6. CASE x.kind = "disconnected"
  BY <1>1, <1>6 DEF HandleDisconnected
<1> QED BY <1>2, <1>3, <1>4, <1>5, <1>6 DEF x

LEMMA HandleKeeps ==
  ASSUME SeatInv, Handle
  PROVE  SeatInv'
<1> DEFINE x == Head(manager.batch)
<1>1. /\ manager \in [at : {"waits", "takes", "handles", "joins", "stopped"}, batch : Seq(AllItems)]
      /\ manager.at = "handles" /\ inbox \in Seq(AllItems)
      /\ manager' = [manager EXCEPT !.batch = Tail(@)] /\ manager.batch /= <<>>
      /\ UNCHANGED <<thread, inbox, wakeup_pending, signals>>
  BY DEF SeatInv, TypeOK, LoopOK, Handle, threads
<1>2. held' \cup policy' \subseteq held \cup policy \cup {x.session}
  BY HandleFacts
<1> DEFINE b == manager.batch
<1>3. b \in Seq(AllItems) /\ b /= <<>> /\ manager'.batch = Tail(b) /\ manager'.at = "handles"
  BY <1>1
<1> HIDE DEF b
<1>4. Tail(b) \in Seq(AllItems)
  BY <1>3
<1>5. /\ Heard \in Seq(AllItems) /\ Heard' = Tail(Heard) /\ x = Heard[1] /\ Len(Heard) > 0
  BY <1>1, <1>3, HeardFacts DEF Heard, b
<1> HIDE DEF x
<1>6. /\ \A i \in DOMAIN Heard' : i \in Nat /\ i + 1 \in DOMAIN Heard /\ Heard'[i] = Heard[i + 1]
      /\ 1 \in DOMAIN Heard
  BY <1>5
<1>7. \A i \in DOMAIN Heard' : x.session = Heard'[i].session =>
        x.kind \in Alive /\ Heard'[i].kind /= "connected"
  <2> TAKE i \in DOMAIN Heard'
  <2>1. i + 1 \in DOMAIN Heard /\ 1 \in 1..((i + 1) - 1) /\ Heard'[i] = Heard[i + 1]
    BY <1>6, <1>5
  <2> QED BY <1>5, <2>1 DEF SeatInv, SessionsInOrder, Alive
<1>8. \A s \in Connections : (NotHeardOf(s)' => NotHeardOf(s)) /\ (NotOver(s)' => NotOver(s))
  BY <1>1 DEF NotHeardOf, NotOver
<1>9. StreamsFit'
  <2>1. ASSUME NEW s \in Connections, NotHeardOf(s)
        PROVE  s \notin held' \cup policy' /\ \A i \in DOMAIN Heard' : Heard'[i].session /= s
    BY <1>2, <1>5, <1>6, <2>1 DEF SeatInv, StreamsFit
  <2>2. ASSUME NEW s \in Connections, NotOver(s), NEW i \in DOMAIN Heard', Heard'[i].session = s
        PROVE  Heard'[i].kind \in Alive
    BY <1>6, <2>2 DEF SeatInv, StreamsFit
  <2> QED BY <1>8, <2>1, <2>2 DEF StreamsFit
<1>10. SessionsInOrder'
  <2>1. ASSUME NEW j \in DOMAIN Heard'
        PROVE  /\ Heard'[j].kind = "connected" => Heard'[j].session \notin held' \cup policy'
               /\ \A i \in 1..(j - 1) : Heard'[i].session = Heard'[j].session =>
                    Heard'[i].kind \in {"connected", "frame"} /\ Heard'[j].kind /= "connected"
    <3>1. j + 1 \in DOMAIN Heard /\ Heard'[j] = Heard[j + 1]
      BY <1>6
    <3>2. Heard'[j].kind = "connected" => Heard'[j].session \notin held \cup policy
      BY <3>1 DEF SeatInv, SessionsInOrder
    <3>3. ASSUME NEW i \in 1..(j - 1)
          PROVE  i + 1 \in 1..((j + 1) - 1) /\ Heard'[i] = Heard[i + 1]
      BY <1>5, <1>6
    <3>4. \A i \in 1..(j - 1) : Heard'[i].session = Heard'[j].session =>
            Heard'[i].kind \in {"connected", "frame"} /\ Heard'[j].kind /= "connected"
      BY <3>1, <3>3 DEF SeatInv, SessionsInOrder
    <3> QED BY <1>2, <1>7, <3>2, <3>4
  <2> QED BY <2>1 DEF SessionsInOrder
<1>11. ThreadsOK' /\ StartsAnnounced'
  BY <1>1 DEF SeatInv, TypeOK, ThreadsOK, StartsAnnounced, BringsUp
<1>12. LoopOK'
  <2>1. manager' \in [at : {"waits", "takes", "handles", "joins", "stopped"},
                      batch : Seq(AllItems)]
    BY <1>1, <1>4 DEF b
  <2> QED BY <1>1, <2>1 DEF SeatInv, TypeOK, LoopOK
<1>13. FlagIsSignal' /\ WakeupComes'
  BY <1>1, <1>3 DEF SeatInv, FlagIsSignal, WakeupComes
<1> QED BY <1>9, <1>10, <1>11, <1>12, <1>13 DEF SeatInv, TypeOK

(* ---- The theorems ---- *)
LEMMA SeatInitInv ==
  ASSUME SeatInit
  PROVE  SeatInv
<1>1. /\ thread = [t \in Threads |-> Doing(IF t = Acceptor THEN "waits" ELSE "none", Nothing)]
      /\ Acceptor \in Threads /\ Acceptor \notin Connections /\ Connections \subseteq Threads
  BY SeatAssumption DEF SeatInit, Threads
<1>2. /\ thread[Acceptor] = Doing("waits", Nothing)
      /\ \A s \in Connections : thread[s] = Doing("none", Nothing)
  BY <1>1
<1>3. thread \in [Threads -> ThreadType]
  BY <1>1 DEF Doing, ThreadType
<1>4. ThreadsOK
  BY <1>2, <1>3 DEF ThreadsOK, ReaderOK, AcceptorOK, Doing, Delivering
<1>5. LoopOK /\ FlagIsSignal /\ WakeupComes
  <2>1. /\ <<>> \in Seq(AllItems) /\ inbox = <<>> /\ signals = 0 /\ wakeup_pending = FALSE
        /\ manager = [at |-> "waits", batch |-> <<>>]
    BY DEF SeatInit
  <2> QED BY <2>1 DEF LoopOK, FlagIsSignal, WakeupComes
<1>6. Heard = <<>> /\ held = {} /\ policy = {}
  BY DEF SeatInit, Heard
<1>7. StartsAnnounced
  BY <1>2 DEF StartsAnnounced, BringsUp, Doing, Delivering
<1>8. StreamsFit /\ SessionsInOrder
  BY <1>6 DEF StreamsFit, SessionsInOrder
<1> QED BY <1>4, <1>5, <1>7, <1>8 DEF SeatInv, TypeOK

LEMMA NextIInv ==
  ASSUME SeatInv, [SeatNext]_seatVars
  PROVE  SeatInv'
<1>1. ASSUME NEW t \in Threads, ThreadStep(t) PROVE SeatInv'
  BY <1>1, DeliverKeeps, WakeKeeps, SignalKeeps DEF ThreadStep
<1>2. CASE AcceptorStep \/ AcceptFails
  BY <1>1, <1>2, SplitKeeps, AcceptFailsKeeps DEF AcceptorStep, AcceptorEnds, Threads
<1>3. CASE LoopStep \/ Stop
  BY <1>3, LookKeeps, TakeInboundKeeps, HandleKeeps, FinishKeeps, JoinKeeps, StopKeeps
     DEF LoopStep
<1>4. ASSUME NEW s \in Connections, Accept(s) \/ ReaderStep(s) PROVE SeatInv'
  BY <1>1, <1>4, AcceptKeeps, ReceiveKeeps DEF ReaderStep, Threads
<1>5. ASSUME NEW s \in Connections, WriterStep(s) \/ Write(s) \/ CompanionStep(s) PROVE SeatInv'
  <2>1. UNCHANGED <<thread, inbox, wakeup_pending, signals, manager, held, policy>>
    BY <1>5 DEF WriterStep, WriteFails, WriterEnds, Write, CompanionStep, HangUp, SendFrame,
                Alone, loop
  <2> QED BY <2>1, QuietKeeps
<1>6. CASE UNCHANGED seatVars
  BY <1>6, QuietKeeps DEF seatVars
<1> QED BY <1>2, <1>3, <1>4, <1>5, <1>6 DEF SeatNext

THEOREM Inductive == SeatSpec => []SeatInv
<1>1. SeatInit => SeatInv
  BY SeatInitInv
<1>2. SeatInv /\ [SeatNext]_seatVars => SeatInv'
  BY NextIInv
<1> QED BY <1>1, <1>2, PTL DEF SeatSpec

\* However the threads interleave, nothing is left in the inbox of an event loop that
\* nobody will wake: the flag is cleared before the inbox is emptied, and set after an
\* item is in it.
THEOREM NoWakeupLost == SeatSpec => []WakeupNotLost
<1>1. SeatInv => WakeupNotLost
  BY DEF SeatInv, WakeupComes, WakeupNotLost
<1> QED BY <1>1, Inductive, PTL

\* The event loop hears of every session in order, through a refused start, a session
\* that is let go while its reader runs, and a seat that is stopped.
THEOREM SessionOrder == SeatSpec => []SessionsInOrder
<1>1. SeatInv => SessionsInOrder
  BY DEF SeatInv
<1> QED BY <1>1, Inductive, PTL
=============================================================================

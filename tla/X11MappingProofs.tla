-------------------------- MODULE X11MappingProofs --------------------------
(***************************************************************************)
(* Theorems about X11Mapping, for any number of commands and withdrawals.  *)
(* The count of expected unmap notifications never outlives them, and is   *)
(* exact as long as the program keeps its window; and once everything      *)
(* under way has been carried out and handled, a managed window is in its  *)
(* frame and mapped as its state asks.                                     *)
(*                                                                         *)
(* The second part is about the geometry such windows are placed, moved    *)
(* and resized with (CoreGeometry, CoreResize, CorePlacement): what it     *)
(* promises for every rectangle, not only for the few that TLC tries.      *)
(* Rectangles are assumed to end within the coordinates, as those of X11   *)
(* and Wayland do; beyond, the code saturates.                             *)
(***************************************************************************)
EXTENDS X11Mapping, CorePlacement, FunctionTheorems, FiniteSetTheorems, SequenceTheorems, TLAPS

(* ---- The inductive invariant ---- *)
RequestKinds == {"select", "map", "unmap", "frame", "root", "show", "hide", "destroy"}

EventKinds == {"adopt", "map_request", "unmap", "synthetic_unmap", "destroy",
               "shade", "iconify", "switch"}

TypeOK ==
    /\ server \in [exists : BOOLEAN, mapped : BOOLEAN, parent : {"root", "frame"},
                   frame : {"none", "unmapped", "mapped"}, selected : BOOLEAN]
    /\ client \in [managed : BOOLEAN, iconic : BOOLEAN, shaded : BOOLEAN, starting : BOOLEAN,
                   expected : Nat]
    /\ visible \in BOOLEAN /\ wanted \in BOOLEAN
    /\ requests \in Seq(RequestKinds) /\ events \in Seq(EventKinds)
    /\ withdrawals \in Nat

\* What unmap_notify counts.
Notifications == {"unmap", "synthetic_unmap"}

NotifiedAt(s) == {i \in 1..Len(s) : s[i] \in Notifications}

Notified(s) == Cardinality(NotifiedAt(s))

\* The requests whose notifications the window manager expects.
Counted == {"frame", "unmap"}

\* There is one such request at most.  It is carried out before any request that could
\* map the window, and when the window is selected.
CountedComesFirst ==
    \A i \in 1..Len(requests) : requests[i] \in Counted =>
        \/ i = 1 /\ (server.selected \/ ~ server.exists)
        \/ i = 2 /\ requests[1] = "select"

CountedPending == \E i \in 1..Len(requests) : requests[i] \in Counted

\* The notifications on their way, and those that will still be caused.
Coming == Notified(events) + (IF server.mapped /\ CountedPending THEN 2 ELSE 0)

Occurs(s, e) == \E i \in 1..Len(s) : s[i] = e

\* No more is expected than comes, or the window is gone.
ExpectedComes == Occurs(events, "destroy") \/ client.expected <= Coming

\* As long as the program has not withdrawn its window, exactly what comes is expected.
ExactUnwithdrawn ==
    withdrawals = 0 =>
        /\ server.exists /\ client.expected = Coming
        /\ ~ Occurs(events, "destroy") /\ ~ Occurs(events, "synthetic_unmap")
        /\ ~ Occurs(requests, "root")

GoneIsUnmapped == ~ server.exists => ~ server.mapped

UnmanagedExpectsNothing == ~ client.managed => client = NoClient

SelectedWhenManaged ==
    client.managed => \/ server.selected \/ Occurs(requests, "select")
                      \/ ~ server.exists

AdoptComesFirst ==
    \A i \in 1..Len(events) : events[i] = "adopt" => i = 1 /\ ~ client.managed

IInv == /\ TypeOK /\ CountedComesFirst /\ ExpectedComes /\ ExactUnwithdrawn
        /\ GoneIsUnmapped /\ UnmanagedExpectsNothing /\ SelectedWhenManaged /\ AdoptComesFirst

(* ---- Counting notifications, and finding one of a kind ---- *)
\* How many of a sequence's events are notifications is a number.
LEMMA NotifiedIsNat ==
    ASSUME NEW s \in Seq(EventKinds)
    PROVE  IsFiniteSet(NotifiedAt(s)) /\ Notified(s) \in Nat
<1>1. IsFiniteSet(1..Len(s))
  BY FS_Interval
<1>2. IsFiniteSet(NotifiedAt(s))
  BY <1>1, FS_Subset DEF NotifiedAt
<1> QED BY <1>2, FS_CardinalityType DEF Notified

\* A notification under way is counted.
LEMMA NotifiedPositive ==
    ASSUME NEW s \in Seq(EventKinds), NEW i \in 1..Len(s), s[i] \in Notifications
    PROVE  Notified(s) > 0
<1>1. i \in NotifiedAt(s)
  BY DEF NotifiedAt
<1>2. Cardinality(NotifiedAt(s)) # 0
  BY <1>1, NotifiedIsNat, FS_EmptySet
<1> QED BY <1>2, NotifiedIsNat DEF Notified

\* Another event counts if it is a notification.
LEMMA NotifiedAppend ==
    ASSUME NEW s \in Seq(EventKinds), NEW e \in EventKinds
    PROVE  Notified(Append(s, e)) = Notified(s) + (IF e \in Notifications THEN 1 ELSE 0)
<1>1. /\ Len(Append(s, e)) = Len(s) + 1 /\ Append(s, e)[Len(s) + 1] = e
      /\ \A i \in 1..Len(s) : Append(s, e)[i] = s[i]
  OBVIOUS
<1>2. Len(s) + 1 \notin NotifiedAt(s)
  BY DEF NotifiedAt
<1>3. CASE e \in Notifications
  <2>1. NotifiedAt(Append(s, e)) = NotifiedAt(s) \union {Len(s) + 1}
    BY <1>1, <1>3 DEF NotifiedAt
  <2>2. Cardinality(NotifiedAt(s) \union {Len(s) + 1}) = Cardinality(NotifiedAt(s)) + 1
    BY <1>2, NotifiedIsNat, FS_AddElement
  <2> QED BY <1>3, <2>1, <2>2 DEF Notified
<1>4. CASE e \notin Notifications
  <2>1. NotifiedAt(Append(s, e)) = NotifiedAt(s)
    BY <1>1, <1>4 DEF NotifiedAt
  <2> QED BY <1>4, <2>1, NotifiedIsNat DEF Notified
<1> QED BY <1>3, <1>4

\* An event that has been handled counts no more.
LEMMA NotifiedTail ==
    ASSUME NEW s \in Seq(EventKinds), s # <<>>
    PROVE  Notified(s) = Notified(Tail(s)) + (IF Head(s) \in Notifications THEN 1 ELSE 0)
<1> DEFINE t == Tail(s)
           later == NotifiedAt(s) \ {1}
           next == [i \in NotifiedAt(t) |-> i + 1]
<1>1. /\ t \in Seq(EventKinds) /\ Len(s) = Len(t) + 1 /\ Head(s) = s[1] /\ Len(t) \in Nat
      /\ \A i \in 1..Len(t) : t[i] = s[i + 1]
  OBVIOUS
<1>2. next \in Bijection(NotifiedAt(t), later)
  <2> SUFFICES /\ next \in [NotifiedAt(t) -> later]
               /\ \A i, j \in NotifiedAt(t) : next[i] = next[j] => i = j
               /\ \A k \in later : \E i \in NotifiedAt(t) : next[i] = k
    BY Fun_IsBij, Zenon
  <2>1. \A i \in NotifiedAt(t) : i \in Int /\ i + 1 \in later
    BY <1>1 DEF NotifiedAt
  <2>2. \A i, j \in NotifiedAt(t) : next[i] = next[j] => i = j
    BY <2>1
  <2>3. \A k \in later : k - 1 \in NotifiedAt(t) /\ next[k - 1] = k
    BY <1>1 DEF NotifiedAt
  <2> QED BY <2>1, <2>2, <2>3
<1>3. IsFiniteSet(NotifiedAt(t)) /\ IsFiniteSet(later) /\ IsFiniteSet(NotifiedAt(s))
  BY <1>1, NotifiedIsNat, FS_RemoveElement
<1>4. Cardinality(later) = Notified(t)
  <2>1. ExistsBijection(NotifiedAt(t), later)
    BY <1>2, Fun_ExistsBij, Zenon
  <2> QED BY <1>3, <2>1, FS_Bijection DEF Notified
<1> QED
  <2>1. CASE Head(s) \in Notifications
    <3>1. 1 \in NotifiedAt(s)
      BY <1>1, <2>1 DEF NotifiedAt
    <3> QED BY <1>3, <1>4, <2>1, <3>1, FS_RemoveElement, NotifiedIsNat DEF Notified
  <2>2. CASE Head(s) \notin Notifications
    <3>1. later = NotifiedAt(s)
      BY <1>1, <2>2 DEF NotifiedAt
    <3>2. Notified(s) = Notified(t) /\ Notified(t) \in Nat
      BY <1>1, <1>4, <3>1, NotifiedIsNat DEF Notified
    <3> QED BY <2>2, <3>2
  <2> QED BY <2>1, <2>2

\* What another element adds.
LEMMA ContainsAppend ==
    ASSUME NEW S, NEW s \in Seq(S), NEW e \in S, NEW x
    PROVE  Occurs(Append(s, e), x) <=> Occurs(s, x) \/ e = x
<1>1. /\ Len(Append(s, e)) = Len(s) + 1 /\ Append(s, e)[Len(s) + 1] = e
      /\ \A i \in 1..Len(s) : Append(s, e)[i] = s[i]
  OBVIOUS
<1> QED BY <1>1 DEF Occurs

\* What is left when the first is taken.
LEMMA ContainsTail ==
    ASSUME NEW S, NEW s \in Seq(S), s # <<>>, NEW x
    PROVE  Occurs(s, x) <=> Head(s) = x \/ Occurs(Tail(s), x)
<1>1. /\ Len(s) = Len(Tail(s)) + 1 /\ Head(s) = s[1] /\ Len(Tail(s)) \in Nat
      /\ \A i \in 1..Len(Tail(s)) : Tail(s)[i] = s[i + 1]
  OBVIOUS
<1>2. ASSUME Occurs(s, x)
      PROVE  Head(s) = x \/ Occurs(Tail(s), x)
  <2>1. PICK i \in 1..Len(s) : s[i] = x
    BY <1>2 DEF Occurs
  <2>2. CASE i # 1
    <3>1. i - 1 \in 1..Len(Tail(s)) /\ Tail(s)[i - 1] = x
      BY <1>1, <2>1, <2>2
    <3> QED BY <3>1 DEF Occurs
  <2> QED BY <1>1, <2>1, <2>2
<1>3. ASSUME Occurs(Tail(s), x)
      PROVE  Occurs(s, x)
  <2>1. PICK i \in 1..Len(Tail(s)) : Tail(s)[i] = x
    BY <1>3 DEF Occurs
  <2>2. i + 1 \in 1..Len(s) /\ s[i + 1] = x
    BY <1>1, <2>1
  <2> QED BY <2>2 DEF Occurs
<1> QED
  <2>1. Head(s) = x => Occurs(s, x)
    BY <1>1 DEF Occurs
  <2> QED BY <1>2, <1>3, <2>1

\* What two sequences hold together.
LEMMA ContainsConcat ==
    ASSUME NEW S, NEW s \in Seq(S), NEW t \in Seq(S), NEW x
    PROVE  Occurs(s \o t, x) <=> Occurs(s, x) \/ Occurs(t, x)
<1>1. /\ Len(s \o t) = Len(s) + Len(t)
      /\ \A i \in 1..Len(s) : (s \o t)[i] = s[i]
      /\ \A i \in 1..Len(t) : (s \o t)[Len(s) + i] = t[i]
      /\ \A i \in (Len(s) + 1)..(Len(s) + Len(t)) : (s \o t)[i] = t[i - Len(s)]
      /\ Len(s) \in Nat /\ Len(t) \in Nat
  OBVIOUS
<1>2. ASSUME Occurs(s \o t, x)
      PROVE  Occurs(s, x) \/ Occurs(t, x)
  <2>1. PICK i \in 1..Len(s \o t) : (s \o t)[i] = x
    BY <1>2 DEF Occurs
  <2>2. CASE i > Len(s)
    <3>1. i - Len(s) \in 1..Len(t) /\ t[i - Len(s)] = x
      BY <1>1, <2>1, <2>2
    <3> QED BY <3>1 DEF Occurs
  <2> QED BY <1>1, <2>1, <2>2 DEF Occurs
<1>3. Occurs(s, x) => Occurs(s \o t, x)
  BY <1>1 DEF Occurs
<1>4. ASSUME Occurs(t, x)
      PROVE  Occurs(s \o t, x)
  <2>1. PICK i \in 1..Len(t) : t[i] = x
    BY <1>4 DEF Occurs
  <2>2. Len(s) + i \in 1..Len(s \o t) /\ (s \o t)[Len(s) + i] = x
    BY <1>1, <2>1
  <2> QED BY <2>2 DEF Occurs
<1> QED BY <1>2, <1>3, <1>4

(* ---- The requests under way ---- *)
\* A request about the window that may not be counted: map_frame and its opposite, and
\* what is done once the window is given up.
Plain == RequestKinds \ Counted

\* Further requests that are not counted change nothing about those that are.
LEMMA PlainRequests ==
    ASSUME TypeOK, CountedComesFirst, NEW list \in Seq(Plain),
           requests' = requests \o list, server' = server
    PROVE  /\ requests' \in Seq(RequestKinds) /\ CountedComesFirst'
           /\ CountedPending' <=> CountedPending
           /\ Occurs(requests, "select") => Occurs(requests', "select")
           /\ Occurs(requests', "root") => Occurs(requests, "root") \/ Occurs(list, "root")
<1>1. /\ requests \in Seq(RequestKinds) /\ list \in Seq(RequestKinds)
      /\ Len(requests) \in Nat /\ Len(list) \in Nat
      /\ Len(requests') = Len(requests) + Len(list)
      /\ \A i \in 1..Len(requests) : requests'[i] = requests[i]
      /\ \A i \in 1..Len(requests') : i > Len(requests) => requests'[i] \in Plain
  BY DEF TypeOK, Plain
<1>2. \A i \in 1..Len(requests') : requests'[i] \in Counted =>
          i \in 1..Len(requests) /\ requests'[i] = requests[i]
  BY <1>1 DEF Plain
<1>3. CountedPending' <=> CountedPending
  BY <1>1, <1>2 DEF CountedPending
<1>4. CountedComesFirst'
  BY <1>1, <1>2 DEF CountedComesFirst
<1>5. \A x : Occurs(requests', x) <=> Occurs(requests, x) \/ Occurs(list, x)
  BY <1>1, ContainsConcat
<1> QED BY <1>1, <1>3, <1>4, <1>5

\* When nothing is under way, nothing counted is pending.
LEMMA NothingUnderWay ==
    ASSUME requests = <<>>
    PROVE  ~ CountedPending /\ \A x : ~ Occurs(requests, x)
BY DEF CountedPending, Occurs

\* The lists of requests that the window manager makes.
LEMMA PlainLists ==
    ASSUME NEW c
    PROVE  /\ MapFrame(c) \in Seq(Plain) /\ ~ Occurs(MapFrame(c), "root")
           /\ ShowNew(c) \in Seq(Plain) /\ ~ Occurs(ShowNew(c), "root")
           /\ <<>> \in Seq(Plain) /\ ~ Occurs(<<>>, "root")
           /\ <<"hide">> \in Seq(Plain) /\ ~ Occurs(<<"hide">>, "root")
           /\ <<"map">> \in Seq(Plain) /\ ~ Occurs(<<"map">>, "root")
           /\ <<"destroy">> \in Seq(Plain)
           /\ <<"root">> \o <<"destroy">> \in Seq(Plain)
<1>1. /\ <<"map", "show">> \in Seq(Plain) /\ <<"show">> \in Seq(Plain) /\ <<>> \in Seq(Plain)
      /\ <<"hide">> \in Seq(Plain) /\ <<"map">> \in Seq(Plain) /\ <<"destroy">> \in Seq(Plain)
      /\ <<"root">> \o <<"destroy">> \in Seq(Plain)
  BY DEF Plain, RequestKinds, Counted
<1>2. /\ ~ Occurs(<<"map", "show">>, "root") /\ ~ Occurs(<<"show">>, "root")
      /\ ~ Occurs(<<>>, "root") /\ ~ Occurs(<<"hide">>, "root")
      /\ ~ Occurs(<<"map">>, "root")
  <2>1. Len(<<"map", "show">>) = 2 /\ Len(<<"show">>) = 1 /\ Len(<<"hide">>) = 1
        /\ Len(<<"map">>) = 1 /\ Len(<<>>) = 0
    OBVIOUS
  <2> QED BY <2>1 DEF Occurs
<1> QED BY <1>1, <1>2 DEF MapFrame, ShowNew

\* What taking a frame asks for: it is counted, and comes after the window is selected.
LEMMA FrameRequests ==
    ASSUME requests = <<>>, NEW list \in Seq(Plain), ~ Occurs(list, "root"),
           requests' = <<"select", "frame">> \o list
    PROVE  /\ requests' \in Seq(RequestKinds) /\ CountedComesFirst' /\ CountedPending'
           /\ Occurs(requests', "select") /\ ~ Occurs(requests', "root")
<1>1. /\ <<"select", "frame">> \in Seq(RequestKinds) /\ list \in Seq(RequestKinds)
  BY DEF Plain, RequestKinds
<1>2. /\ requests' \in Seq(RequestKinds) /\ Len(list) \in Nat
      /\ Len(requests') = Len(list) + 2
      /\ requests'[1] = "select" /\ requests'[2] = "frame"
      /\ \A i \in 1..Len(requests') : i > 2 => requests'[i] \in Plain
  BY <1>1
<1>3. CountedPending'
  BY <1>2 DEF CountedPending, Counted
<1>4. CountedComesFirst'
  BY <1>2 DEF CountedComesFirst, Counted, Plain
<1>5. Occurs(requests', "select")
  BY <1>2 DEF Occurs
<1>6. ~ Occurs(<<"select", "frame">>, "root")
  BY DEF Occurs
<1>7. ~ Occurs(requests', "root")
  BY <1>1, <1>6, ContainsConcat
<1> QED BY <1>2, <1>3, <1>4, <1>5, <1>7

\* What shading asks for is counted; the window has been selected.
LEMMA ShadeRequests ==
    ASSUME requests = <<>>, NEW list \in Seq(Plain), ~ Occurs(list, "root"),
           server.selected, server' = server,
           requests' = <<"unmap">> \o list
    PROVE  /\ requests' \in Seq(RequestKinds) /\ CountedComesFirst' /\ CountedPending'
           /\ ~ Occurs(requests', "root")
<1>1. /\ <<"unmap">> \in Seq(RequestKinds) /\ list \in Seq(RequestKinds)
  BY DEF Plain, RequestKinds
<1>2. /\ requests' \in Seq(RequestKinds) /\ Len(list) \in Nat
      /\ Len(requests') = Len(list) + 1
      /\ requests'[1] = "unmap"
      /\ \A i \in 1..Len(requests') : i > 1 => requests'[i] \in Plain
  BY <1>1
<1>3. CountedPending'
  BY <1>2 DEF CountedPending, Counted
<1>4. CountedComesFirst'
  BY <1>2 DEF CountedComesFirst, Counted, Plain
<1>5. ~ Occurs(<<"unmap">>, "root")
  BY DEF Occurs
<1>6. ~ Occurs(requests', "root")
  BY <1>1, <1>5, ContainsConcat
<1> QED BY <1>2, <1>3, <1>4, <1>6

\* What is left once the first request has been carried out: the counted one comes
\* first, so it is left only if it was not the first.
LEMMA RequestsLeft ==
    ASSUME TypeOK, CountedComesFirst, requests # <<>>, requests' = Tail(requests)
    PROVE  /\ requests' \in Seq(RequestKinds) /\ Head(requests) \in RequestKinds
           /\ Head(requests) \in Counted => CountedPending /\ ~ CountedPending'
           /\ Head(requests) = "select" => (CountedPending' <=> CountedPending)
           /\ Head(requests) \notin Counted \union {"select"} =>
                  ~ CountedPending /\ ~ CountedPending'
           /\ Head(requests) = "select" => \A i \in 1..Len(requests') :
                  requests'[i] \in Counted => i = 1
           /\ \A x : Occurs(requests, x) <=> Head(requests) = x \/ Occurs(requests', x)
<1>1. /\ requests \in Seq(RequestKinds) /\ requests' \in Seq(RequestKinds)
      /\ Head(requests) \in RequestKinds /\ Head(requests) = requests[1]
      /\ Len(requests) = Len(requests') + 1 /\ Len(requests') \in Nat
      /\ \A i \in 1..Len(requests') : requests'[i] = requests[i + 1]
  BY DEF TypeOK
<1>2. \A i \in 1..Len(requests') : requests'[i] \in Counted =>
          i = 1 /\ requests[1] = "select" /\ CountedPending
  <2> SUFFICES ASSUME NEW i \in 1..Len(requests'), requests'[i] \in Counted
               PROVE  i = 1 /\ requests[1] = "select" /\ CountedPending
    OBVIOUS
  <2>1. i + 1 \in 1..Len(requests) /\ requests[i + 1] \in Counted /\ i + 1 # 1
    BY <1>1
  <2>2. i + 1 = 2 /\ requests[1] = "select"
    BY <2>1 DEF CountedComesFirst
  <2> QED BY <2>1, <2>2 DEF CountedPending
<1>3. \A i \in 1..Len(requests) : requests[i] \in Counted =>
          i = 1 \/ (i = 2 /\ requests[1] = "select")
  BY DEF CountedComesFirst
<1>4. Head(requests) \in Counted => CountedPending /\ ~ CountedPending'
  BY <1>1, <1>2 DEF CountedPending, Counted
<1>5. ASSUME Head(requests) = "select"
      PROVE  CountedPending' <=> CountedPending
  <2>1. ASSUME CountedPending
        PROVE  CountedPending'
    <3>1. PICK i \in 1..Len(requests) : requests[i] \in Counted
      BY <2>1 DEF CountedPending
    <3>2. i = 2
      BY <1>1, <1>3, <1>5, <3>1 DEF Counted
    <3>3. 1 \in 1..Len(requests') /\ requests'[1] \in Counted
      BY <1>1, <3>1, <3>2
    <3> QED BY <3>3 DEF CountedPending
  <2> QED BY <1>2, <2>1 DEF CountedPending
<1>6. Head(requests) \notin Counted \union {"select"} => ~ CountedPending /\ ~ CountedPending'
  BY <1>1, <1>2, <1>3 DEF CountedPending
<1>7. \A x : Occurs(requests, x) <=> Head(requests) = x \/ Occurs(requests', x)
  BY <1>1, ContainsTail
<1> QED BY <1>1, <1>2, <1>4, <1>5, <1>6, <1>7

(* ---- The events under way ---- *)
\* The sequence t is s with more events, n notifications among them, all of the kinds
\* given; none of them asks to adopt a window.
Arrived(s, t, n, kinds) ==
    /\ t \in Seq(EventKinds)
    /\ Notified(s) \in Nat /\ Notified(t) \in Nat /\ Notified(t) = Notified(s) + n
    /\ \A x : Occurs(t, x) <=> Occurs(s, x) \/ x \in kinds
    /\ \A i \in 1..Len(t) : t[i] = "adopt" => i \in 1..Len(s) /\ s[i] = "adopt"

\* What an event that arrives changes.
LEMMA EventArrives ==
    ASSUME NEW s \in Seq(EventKinds), NEW e \in EventKinds \ {"adopt"}
    PROVE  Arrived(s, Append(s, e), IF e \in Notifications THEN 1 ELSE 0, {e})
<1> DEFINE t == Append(s, e)
<1>1. t \in Seq(EventKinds)
  OBVIOUS
<1>2. \A x : Occurs(t, x) <=> Occurs(s, x) \/ e = x
  BY ContainsAppend
<1>3. \A i \in 1..Len(t) : t[i] = "adopt" => i \in 1..Len(s) /\ s[i] = "adopt"
  OBVIOUS
<1> QED BY <1>1, <1>2, <1>3, NotifiedAppend, NotifiedIsNat DEF Arrived

\* What the notifications of an unmapped window change.
LEMMA UnmapEventsArrive ==
    ASSUME NEW s \in Seq(EventKinds), NEW w
    PROVE  Arrived(s, s \o UnmapEvents(w), IF w.selected THEN 2 ELSE 1, {"unmap"})
<1> DEFINE once == Append(s, "unmap")
           twice == Append(once, "unmap")
<1>1. "unmap" \in EventKinds \ {"adopt"} /\ "unmap" \in Notifications
  BY DEF EventKinds, Notifications
<1>2. Arrived(s, once, 1, {"unmap"})
  BY <1>1, EventArrives
<1>3. CASE ~ w.selected
  <2>1. s \o UnmapEvents(w) = once
    BY <1>1, <1>3 DEF UnmapEvents
  <2> QED BY <1>2, <1>3, <2>1
<1>4. CASE w.selected
  <2>1. s \o UnmapEvents(w) = twice
    BY <1>1, <1>4 DEF UnmapEvents
  <2>2. Arrived(once, twice, 1, {"unmap"})
    <3> HIDE DEF once
    <3>1. once \in Seq(EventKinds)
      BY <1>2 DEF Arrived
    <3> QED BY <1>1, <3>1, EventArrives
  <2> HIDE DEF once, twice
  <2>3. Arrived(s, twice, 2, {"unmap"})
    BY <1>2, <2>2 DEF Arrived
  <2> QED BY <1>4, <2>1, <2>3
<1> QED BY <1>3, <1>4

\* What an event that is handled leaves.
LEMMA EventHandled ==
    ASSUME TypeOK, AdoptComesFirst, NEW event, Handles(event)
    PROVE  /\ events' \in Seq(EventKinds) /\ event \in EventKinds
           /\ Notified(events) \in Nat /\ Notified(events') \in Nat
           /\ Notified(events) = Notified(events') + (IF event \in Notifications THEN 1 ELSE 0)
           /\ \A x : Occurs(events, x) <=> event = x \/ Occurs(events', x)
           /\ \A i \in 1..Len(events') : events'[i] # "adopt"
           /\ event = "adopt" => ~ client.managed
<1>1. /\ events \in Seq(EventKinds) /\ events # <<>> /\ Head(events) = event
      /\ events' = Tail(events)
  BY DEF Handles, TypeOK
<1>2. /\ events' \in Seq(EventKinds) /\ event \in EventKinds /\ event = events[1]
      /\ Len(events) = Len(events') + 1 /\ Len(events') \in Nat
      /\ \A i \in 1..Len(events') : events'[i] = events[i + 1]
  BY <1>1
<1>3. Notified(events) = Notified(events') + (IF event \in Notifications THEN 1 ELSE 0)
  BY <1>1, NotifiedTail
<1>4. \A x : Occurs(events, x) <=> event = x \/ Occurs(events', x)
  BY <1>1, ContainsTail
<1>5. \A i \in 1..Len(events') : events'[i] # "adopt"
  BY <1>2 DEF AdoptComesFirst
<1>6. event = "adopt" => ~ client.managed
  <2>1. 1 \in 1..Len(events)
    BY <1>2
  <2> QED BY <1>2, <2>1 DEF AdoptComesFirst
<1> QED BY <1>1, <1>2, <1>3, <1>4, <1>5, <1>6, NotifiedIsNat

(* ---- The server and the program keep the invariant ---- *)
\* What a window is, and what it becomes (a record, field by field).
Windows == [exists : BOOLEAN, mapped : BOOLEAN, parent : {"root", "frame"},
            frame : {"none", "unmapped", "mapped"}, selected : BOOLEAN]

\* What a request does to a window.
LEMMA Results ==
    ASSUME NEW s \in Windows, NEW r \in RequestKinds
    PROVE  /\ Result(s, r) \in Windows /\ Result(s, r).exists = s.exists
           /\ Result(s, r).selected = (r = "select" \/ s.selected)
           /\ r = "map" => Result(s, r).mapped
           /\ r = "unmap" => ~ Result(s, r).mapped
           /\ r \notin {"map", "unmap"} => Result(s, r).mapped = s.mapped
<1>1. s.frame \in {"none", "unmapped", "mapped"} /\ s.selected \in BOOLEAN
  BY DEF Windows
<1>2. CASE r = "select"
  BY <1>2 DEF Result, Windows
<1>3. CASE r = "map"
  BY <1>3 DEF Result, Windows
<1>4. CASE r = "unmap"
  BY <1>4 DEF Result, Windows, Unmapped
<1>5. CASE r = "frame"
  BY <1>5 DEF Result, Windows, Reparented
<1>6. CASE r = "root"
  BY <1>6 DEF Result, Windows, Reparented
<1>7. CASE r = "show"
  BY <1>1, <1>7 DEF Result, Windows
<1>8. CASE r = "hide"
  BY <1>1, <1>8 DEF Result, Windows
<1>9. CASE r = "destroy"
  BY <1>9 DEF Result, Windows
<1> QED BY <1>2, <1>3, <1>4, <1>5, <1>6, <1>7, <1>8, <1>9 DEF RequestKinds

\* What a request that is carried out changes in the events.
LEMMA CausesArrive ==
    ASSUME TypeOK, NEW r \in RequestKinds, events' = events \o Causes(server, r)
    PROVE  /\ events' \in Seq(EventKinds)
           /\ Notified(events) \in Nat /\ Notified(events') \in Nat
           /\ Notified(events') >= Notified(events)
           /\ r \notin Counted \union {"root"} => Notified(events') = Notified(events)
           /\ ~ server.mapped => Notified(events') = Notified(events)
           /\ r \in Counted /\ server.mapped /\ server.selected =>
                  Notified(events') = Notified(events) + 2
           /\ \A x : x # "unmap" => (Occurs(events', x) <=> Occurs(events, x))
           /\ \A i \in 1..Len(events') :
                  events'[i] = "adopt" => i \in 1..Len(events) /\ events[i] = "adopt"
<1>1. events \in Seq(EventKinds) /\ Notified(events) \in Nat
  BY NotifiedIsNat DEF TypeOK
<1>2. CASE server.mapped /\ r \in {"unmap", "frame", "root"}
  <2>1. events' = events \o UnmapEvents(server)
    BY <1>2 DEF Causes
  <2>2. Arrived(events, events', IF server.selected THEN 2 ELSE 1, {"unmap"})
    BY <1>1, <2>1, UnmapEventsArrive
  <2> QED BY <1>1, <1>2, <2>2 DEF Counted, Arrived
<1>3. CASE ~ (server.mapped /\ r \in {"unmap", "frame", "root"})
  <2>1. events' = events
    BY <1>1, <1>3 DEF Causes
  <2> QED BY <1>1, <1>3, <2>1 DEF Counted
<1> QED BY <1>2, <1>3

\* The server carries out a request: if it was the counted one, the two notifications
\* it was counted for arrive with it.
LEMMA ExecuteKeeps == IInv /\ Execute => IInv'
<1> SUFFICES ASSUME IInv, Execute PROVE IInv'
  OBVIOUS
<1> DEFINE r == Head(requests)
<1> USE DEF IInv
<1>1. /\ requests # <<>> /\ requests' = Tail(requests)
      /\ client' = client /\ visible' = visible /\ wanted' = wanted
      /\ withdrawals' = withdrawals
  BY DEF Execute
<1>2. /\ requests' \in Seq(RequestKinds) /\ r \in RequestKinds
      /\ r \in Counted => CountedPending /\ ~ CountedPending'
      /\ r = "select" => (CountedPending' <=> CountedPending)
      /\ r \notin Counted \union {"select"} => ~ CountedPending /\ ~ CountedPending'
      /\ r = "select" => \A i \in 1..Len(requests') : requests'[i] \in Counted => i = 1
      /\ \A x : Occurs(requests, x) <=> r = x \/ Occurs(requests', x)
  BY <1>1, RequestsLeft
<1>3. server \in Windows /\ client.expected \in Nat /\ Notified(events) \in Nat
  BY NotifiedIsNat DEF TypeOK, Windows
<1>4. CASE ~ server.exists /\ r \notin ForFrame
  <2>1. server' = server /\ events' = events
    BY <1>4 DEF Execute
  <2>2. ~ server.mapped
    BY <1>4 DEF GoneIsUnmapped
  <2>3. TypeOK'
    BY <1>1, <1>2, <2>1 DEF TypeOK
  <2>4. CountedComesFirst'
    BY <1>2, <1>4, <2>1 DEF CountedComesFirst, CountedPending
  <2>5. ExpectedComes' /\ ExactUnwithdrawn'
    BY <1>1, <1>4, <2>1, <2>2 DEF ExpectedComes, Coming, ExactUnwithdrawn
  <2>6. GoneIsUnmapped' /\ UnmanagedExpectsNothing' /\ SelectedWhenManaged' /\ AdoptComesFirst'
    BY <1>1, <1>4, <2>1 DEF GoneIsUnmapped, UnmanagedExpectsNothing, SelectedWhenManaged,
       AdoptComesFirst, NoClient
  <2> QED BY <2>3, <2>4, <2>5, <2>6
<1>5. CASE ~ (~ server.exists /\ r \notin ForFrame)
  <2>1. server' = Result(server, r) /\ events' = events \o Causes(server, r)
    BY <1>5 DEF Execute
  <2>2. /\ server' \in Windows /\ server'.exists = server.exists
        /\ server'.selected = (r = "select" \/ server.selected)
        /\ r = "unmap" => ~ server'.mapped
        /\ r \notin {"map", "unmap"} => server'.mapped = server.mapped
    BY <1>2, <1>3, <2>1, Results
  <2>3. /\ events' \in Seq(EventKinds) /\ Notified(events') \in Nat
        /\ Notified(events') >= Notified(events)
        /\ r \notin Counted \union {"root"} => Notified(events') = Notified(events)
        /\ ~ server.mapped => Notified(events') = Notified(events)
        /\ r \in Counted /\ server.mapped /\ server.selected =>
               Notified(events') = Notified(events) + 2
        /\ \A x : x # "unmap" => (Occurs(events', x) <=> Occurs(events, x))
        /\ \A i \in 1..Len(events') :
               events'[i] = "adopt" => i \in 1..Len(events) /\ events[i] = "adopt"
    BY <1>2, <2>1, CausesArrive
  <2>4. r \in Counted => server.exists /\ server.selected
    <3>1. SUFFICES ASSUME r \in Counted PROVE server.exists /\ server.selected
      OBVIOUS
    <3>2. server.exists
      BY <1>5, <3>1 DEF Counted, ForFrame
    <3>3. requests \in Seq(RequestKinds) /\ 1 \in 1..Len(requests) /\ requests[1] \in Counted
      BY <1>1, <3>1 DEF TypeOK
    <3> QED BY <3>2, <3>3 DEF CountedComesFirst
  <2>5. r = "map" => server.exists
    BY <1>5 DEF ForFrame
  <2>6. TypeOK'
    BY <1>1, <1>2, <2>2, <2>3 DEF TypeOK, Windows
  <2>7. CountedComesFirst'
    BY <1>2, <2>2 DEF CountedComesFirst, CountedPending
  <2>8. /\ Coming \in Nat /\ Coming' \in Nat /\ Coming' >= Coming
        /\ r # "root" => Coming' = Coming
    <3>1. r \in Counted => r \in {"unmap", "frame"}
      BY DEF Counted
    <3>2. CASE r \in Counted /\ server.mapped
      BY <1>2, <1>3, <2>3, <2>4, <3>2 DEF Coming
    <3>3. CASE r \in Counted /\ ~ server.mapped
      BY <1>2, <1>3, <2>3, <3>3 DEF Coming
    <3>4. CASE r = "select"
      BY <1>2, <1>3, <2>2, <2>3, <3>4 DEF Coming, Counted
    <3>5. CASE r \notin Counted \union {"select"}
      BY <1>2, <1>3, <2>3, <3>5 DEF Coming
    <3> QED BY <3>2, <3>3, <3>4, <3>5
  <2>9. ExpectedComes'
    BY <1>1, <1>3, <2>3, <2>8 DEF ExpectedComes
  <2>10. ExactUnwithdrawn'
    BY <1>1, <1>2, <2>2, <2>3, <2>8 DEF ExactUnwithdrawn
  <2>11. GoneIsUnmapped'
    BY <2>2, <2>5 DEF GoneIsUnmapped
  <2>12. SelectedWhenManaged'
    BY <1>1, <1>2, <2>2 DEF SelectedWhenManaged
  <2>13. UnmanagedExpectsNothing' /\ AdoptComesFirst'
    BY <1>1, <2>3 DEF UnmanagedExpectsNothing, AdoptComesFirst, NoClient
  <2> QED BY <2>6, <2>7, <2>9, <2>10, <2>11, <2>12, <2>13
<1> QED BY <1>4, <1>5

\* What a program or a person does leaves the requests and the window manager's view
\* alone; enough notifications come with it for a counted request that finds the
\* window unmapped, and without a withdrawal nothing is notified.
LEMMA ArrivalsKeep ==
    ASSUME IInv, server' \in Windows, events' \in Seq(EventKinds), wanted' \in BOOLEAN,
           UNCHANGED <<client, visible, requests>>,
           server'.selected = server.selected, server.exists \/ server' = server,
           server'.mapped => server.mapped /\ server' = server,
           \/ /\ withdrawals' = withdrawals /\ server' = server
              /\ Notified(events') = Notified(events)
              /\ \A x \in {"destroy", "synthetic_unmap"} :
                     Occurs(events', x) <=> Occurs(events, x)
           \/ /\ withdrawals' = withdrawals + 1
              /\ Occurs(events, "destroy") => Occurs(events', "destroy")
              /\ Notified(events') \in Nat
              /\ \/ Occurs(events', "destroy")
                 \/ Notified(events') >= Notified(events) + (IF server.mapped THEN 2 ELSE 0),
           \A i \in 1..Len(events') :
               events'[i] = "adopt" => i \in 1..Len(events) /\ events[i] = "adopt"
    PROVE  IInv'
<1> USE DEF IInv
<1>1. client.expected \in Nat /\ Notified(events) \in Nat /\ withdrawals \in Nat
  BY NotifiedIsNat DEF TypeOK
<1>2. TypeOK'
  BY <1>1 DEF TypeOK, Windows
<1>3. CountedComesFirst'
  BY DEF CountedComesFirst
<1>4. CountedPending' <=> CountedPending
  BY DEF CountedPending
<1>5. ExpectedComes'
  BY <1>1, <1>4 DEF ExpectedComes, Coming
<1>6. ExactUnwithdrawn'
  <2> SUFFICES ASSUME withdrawals' = 0
               PROVE  /\ server'.exists /\ client'.expected = Coming'
                      /\ ~ Occurs(events', "destroy") /\ ~ Occurs(events', "synthetic_unmap")
                      /\ ~ Occurs(requests', "root")
    BY DEF ExactUnwithdrawn
  <2>1. withdrawals = 0 /\ server' = server /\ Notified(events') = Notified(events)
    BY <1>1
  <2> QED BY <1>1, <1>4, <2>1 DEF ExactUnwithdrawn, Coming
<1>7. GoneIsUnmapped' /\ UnmanagedExpectsNothing' /\ SelectedWhenManaged' /\ AdoptComesFirst'
  BY DEF GoneIsUnmapped, UnmanagedExpectsNothing, SelectedWhenManaged, AdoptComesFirst, NoClient,
     Occurs
<1> QED BY <1>2, <1>3, <1>5, <1>6, <1>7

\* A program that maps its window asks for it.
LEMMA ProgramMapsKeeps == IInv /\ ProgramMaps => IInv'
<1> SUFFICES ASSUME IInv, ProgramMaps PROVE IInv'
  OBVIOUS
<1>1. /\ events \in Seq(EventKinds) /\ server \in Windows /\ Notified(events) \in Nat
  BY NotifiedIsNat DEF IInv, TypeOK, Windows
<1>2. "map_request" \in EventKinds \ {"adopt"} /\ "map_request" \notin Notifications
  BY DEF EventKinds, Notifications
<1>3. /\ events' \in Seq(EventKinds) /\ Notified(events') = Notified(events)
      /\ \A x \in {"destroy", "synthetic_unmap"} : Occurs(events', x) <=> Occurs(events, x)
      /\ \A i \in 1..Len(events') :
             events'[i] = "adopt" => i \in 1..Len(events) /\ events[i] = "adopt"
  <2>1. CASE server.mapped
    BY <1>1, <2>1 DEF ProgramMaps
  <2>2. CASE ~ server.mapped
    <3>1. events' = Append(events, "map_request")
      BY <2>2 DEF ProgramMaps
    <3>2. Arrived(events, events', 0, {"map_request"})
      BY <1>1, <1>2, <3>1, EventArrives
    <3> QED BY <1>1, <3>2 DEF Arrived
  <2> QED BY <2>1, <2>2
<1>4. /\ UNCHANGED <<client, visible, requests>> /\ server' = server /\ wanted' \in BOOLEAN
      /\ withdrawals' = withdrawals
  BY DEF ProgramMaps, Call
<1> QED BY <1>1, <1>3, <1>4, ArrivalsKeep

\* A program that withdraws its window announces it twice, or three times.
LEMMA ProgramWithdrawsKeeps == IInv /\ ProgramWithdraws => IInv'
<1> SUFFICES ASSUME IInv, ProgramWithdraws PROVE IInv'
  OBVIOUS
<1> DEFINE shown == IF server.mapped THEN events \o UnmapEvents(server) ELSE events
<1>1. /\ events \in Seq(EventKinds) /\ server \in Windows /\ Notified(events) \in Nat
  BY NotifiedIsNat DEF IInv, TypeOK, Windows
<1>2. "synthetic_unmap" \in EventKinds \ {"adopt"} /\ "synthetic_unmap" \in Notifications
  BY DEF EventKinds, Notifications
<1>3. /\ shown \in Seq(EventKinds) /\ Notified(shown) \in Nat
      /\ Notified(shown) >= Notified(events) + (IF server.mapped THEN 1 ELSE 0)
      /\ Occurs(events, "destroy") => Occurs(shown, "destroy")
      /\ \A i \in 1..Len(shown) :
             shown[i] = "adopt" => i \in 1..Len(events) /\ events[i] = "adopt"
  <2>1. CASE server.mapped
    <3>1. Arrived(events, shown, IF server.selected THEN 2 ELSE 1, {"unmap"})
      BY <1>1, <2>1, UnmapEventsArrive
    <3> QED BY <1>1, <2>1, <3>1 DEF Arrived
  <2>2. CASE ~ server.mapped
    BY <1>1, <2>2
  <2> QED BY <2>1, <2>2
<1>4. events' = shown \o <<"synthetic_unmap">>
  BY DEF ProgramWithdraws
<1> HIDE DEF shown
<1>5. events' = Append(shown, "synthetic_unmap")
  BY <1>2, <1>3, <1>4
<1>6. Arrived(shown, events', 1, {"synthetic_unmap"})
  BY <1>2, <1>3, <1>5, EventArrives
<1>7. /\ UNCHANGED <<client, visible, requests>> /\ wanted' \in BOOLEAN
      /\ withdrawals' = withdrawals + 1 /\ server.exists
      /\ server' = [server EXCEPT !.mapped = FALSE]
  BY DEF ProgramWithdraws, Call, Withdrawal, Unmapped
<1>8. server' \in Windows /\ server'.selected = server.selected /\ ~ server'.mapped
  BY <1>1, <1>7 DEF Windows
<1>9. Notified(events') >= Notified(events) + (IF server.mapped THEN 2 ELSE 0)
  BY <1>1, <1>3, <1>6 DEF Arrived
<1> QED BY <1>3, <1>6, <1>7, <1>8, <1>9, ArrivalsKeep DEF Arrived

\* A program that destroys its window announces it.
LEMMA ProgramDestroysKeeps == IInv /\ ProgramDestroys => IInv'
<1> SUFFICES ASSUME IInv, ProgramDestroys PROVE IInv'
  OBVIOUS
<1> DEFINE shown == IF server.mapped THEN events \o UnmapEvents(server) ELSE events
<1>1. /\ events \in Seq(EventKinds) /\ server \in Windows /\ Notified(events) \in Nat
  BY NotifiedIsNat DEF IInv, TypeOK, Windows
<1>2. "destroy" \in EventKinds \ {"adopt"}
  BY DEF EventKinds
<1>3. /\ shown \in Seq(EventKinds) /\ Notified(shown) \in Nat
      /\ Occurs(events, "destroy") => Occurs(shown, "destroy")
      /\ \A i \in 1..Len(shown) :
             shown[i] = "adopt" => i \in 1..Len(events) /\ events[i] = "adopt"
  <2>1. CASE server.mapped
    <3>1. Arrived(events, shown, IF server.selected THEN 2 ELSE 1, {"unmap"})
      BY <1>1, <2>1, UnmapEventsArrive
    <3> QED BY <1>1, <2>1, <3>1 DEF Arrived
  <2>2. CASE ~ server.mapped
    BY <1>1, <2>2
  <2> QED BY <2>1, <2>2
<1>4. events' = shown \o <<"destroy">>
  <2>1. events' = events \o (IF server.mapped THEN UnmapEvents(server) ELSE <<>>) \o <<"destroy">>
    BY DEF ProgramDestroys
  <2>2. events \o <<>> = events
    BY <1>1
  <2> QED BY <2>1, <2>2
<1> HIDE DEF shown
<1>5. events' = Append(shown, "destroy")
  BY <1>2, <1>3, <1>4
<1>6. Arrived(shown, events', 0, {"destroy"})
  <2>1. "destroy" \notin Notifications
    BY DEF Notifications
  <2> QED BY <1>2, <1>3, <1>5, <2>1, EventArrives
<1>7. /\ UNCHANGED <<client, visible, requests>> /\ wanted' \in BOOLEAN
      /\ withdrawals' = withdrawals + 1 /\ server.exists
      /\ server' = [server EXCEPT !.exists = FALSE, !.mapped = FALSE]
  BY DEF ProgramDestroys, Call, Withdrawal
<1>8. server' \in Windows /\ server'.selected = server.selected /\ ~ server'.mapped
  BY <1>1, <1>7 DEF Windows
<1> QED BY <1>3, <1>6, <1>7, <1>8, ArrivalsKeep DEF Arrived

\* What a person asks for is another event.
LEMMA PersonKeeps == IInv /\ PersonStep => IInv'
<1> SUFFICES ASSUME IInv, NEW command \in {"shade", "iconify", "switch"}, Command(command)
             PROVE  IInv'
  BY DEF PersonStep
<1>1. /\ events \in Seq(EventKinds) /\ server \in Windows /\ wanted \in BOOLEAN
  BY DEF IInv, TypeOK, Windows
<1>2. /\ command \in EventKinds \ {"adopt"} /\ command \notin Notifications
      /\ command # "destroy" /\ command # "synthetic_unmap"
  BY DEF EventKinds, Notifications
<1>3. /\ events' = Append(events, command) /\ UNCHANGED <<client, visible, requests>>
      /\ server' = server /\ wanted' = wanted /\ withdrawals' = withdrawals
  BY DEF Command
<1>4. Arrived(events, events', 0, {command})
  BY <1>1, <1>2, <1>3, EventArrives
<1>5. /\ events' \in Seq(EventKinds) /\ Notified(events') = Notified(events)
      /\ \A x \in {"destroy", "synthetic_unmap"} : Occurs(events', x) <=> Occurs(events, x)
      /\ \A i \in 1..Len(events') :
             events'[i] = "adopt" => i \in 1..Len(events) /\ events[i] = "adopt"
  BY <1>2, <1>4 DEF Arrived
<1> QED BY <1>1, <1>3, <1>5, ArrivalsKeep

(* ---- The window manager keeps the invariant ---- *)
\* What the window manager knows of a window (a record, field by field).
Clients == [managed : BOOLEAN, iconic : BOOLEAN, shaded : BOOLEAN, starting : BOOLEAN,
            expected : Nat]

\* A handler that makes no counted request, and expects what was expected before.
LEMMA QuietKeeps ==
    ASSUME IInv, NEW event \in EventKinds \ (Notifications \union {"destroy"}), Handles(event),
           client' \in Clients, client'.expected = client.expected,
           client'.managed = client.managed, client.managed \/ client' = client,
           visible' \in BOOLEAN, NEW list \in Seq(Plain), ~ Occurs(list, "root"),
           requests' = requests \o list
    PROVE  IInv'
<1> USE DEF IInv
<1>1. server' = server /\ wanted' = wanted /\ withdrawals' = withdrawals
  BY DEF Handles
<1>2. /\ events' \in Seq(EventKinds)
      /\ Notified(events) \in Nat /\ Notified(events') \in Nat
      /\ Notified(events) = Notified(events') + (IF event \in Notifications THEN 1 ELSE 0)
      /\ \A x : Occurs(events, x) <=> event = x \/ Occurs(events', x)
      /\ \A i \in 1..Len(events') : events'[i] # "adopt"
  BY EventHandled
<1>3. /\ requests' \in Seq(RequestKinds) /\ CountedComesFirst'
      /\ CountedPending' <=> CountedPending
      /\ Occurs(requests, "select") => Occurs(requests', "select")
      /\ Occurs(requests', "root") => Occurs(requests, "root") \/ Occurs(list, "root")
  BY <1>1, PlainRequests
<1>4. TypeOK'
  BY <1>1, <1>2, <1>3 DEF TypeOK, Clients
<1>5. Coming' = Coming
  BY <1>1, <1>2, <1>3 DEF Coming
<1>6. ExpectedComes'
  BY <1>2, <1>5 DEF ExpectedComes
<1>7. ExactUnwithdrawn'
  BY <1>1, <1>2, <1>3, <1>5 DEF ExactUnwithdrawn
<1>8. GoneIsUnmapped' /\ UnmanagedExpectsNothing' /\ SelectedWhenManaged' /\ AdoptComesFirst'
  BY <1>1, <1>2, <1>3 DEF GoneIsUnmapped, UnmanagedExpectsNothing, SelectedWhenManaged,
     AdoptComesFirst, NoClient
<1> QED BY <1>3, <1>4, <1>6, <1>7, <1>8

\* Taking a frame counts the notifications of the request it makes.
LEMMA ManageKeeps ==
    ASSUME IInv, NEW event \in {"map_request", "adopt"}, Handles(event), Asks,
           ~ client.managed, server.exists, visible' = visible,
           NEW iconic \in BOOLEAN, NEW shaded \in BOOLEAN, Manage(iconic, shaded)
    PROVE  IInv'
<1> DEFINE managed == [managed |-> TRUE, iconic |-> iconic, shaded |-> FALSE,
                       starting |-> shaded, expected |-> Expected]
           list == IF shaded THEN <<>> ELSE ShowNew(managed)
<1> USE DEF IInv
<1>1. server' = server /\ wanted' = wanted /\ withdrawals' = withdrawals
  BY DEF Handles
<1>2. /\ events' \in Seq(EventKinds)
      /\ Notified(events) \in Nat /\ Notified(events') \in Nat
      /\ Notified(events) = Notified(events') + (IF event \in Notifications THEN 1 ELSE 0)
      /\ \A x : Occurs(events, x) <=> event = x \/ Occurs(events', x)
      /\ \A i \in 1..Len(events') : events'[i] # "adopt"
  BY EventHandled
<1>3. event \notin Notifications /\ event # "destroy" /\ event # "synthetic_unmap"
  BY DEF Notifications
<1>4. /\ client' = managed /\ requests = <<>>
      /\ requests' = requests \o (<<"select", "frame">> \o list)
  BY DEF Manage, Asks, Requests
<1>5. list \in Seq(Plain) /\ ~ Occurs(list, "root")
  BY PlainLists
<1>6. Expected \in Nat /\ managed \in Clients
  BY DEF Expected, Clients
<1>7. client'.managed /\ client'.expected = Expected /\ client' \in Clients
  BY <1>4, <1>6
<1> HIDE DEF managed, list
<1>8. requests' = <<"select", "frame">> \o list
  <2>1. <<"select", "frame">> \o list \in Seq(RequestKinds)
    BY <1>5 DEF Plain, RequestKinds
  <2> QED BY <1>4, <2>1
<1>9. /\ requests' \in Seq(RequestKinds) /\ CountedComesFirst' /\ CountedPending'
      /\ Occurs(requests', "select") /\ ~ Occurs(requests', "root")
  BY <1>4, <1>5, <1>8, FrameRequests
<1>10. client.expected = 0
  BY DEF UnmanagedExpectsNothing, NoClient
<1>11. TypeOK'
  BY <1>1, <1>2, <1>7, <1>9 DEF TypeOK, Clients
<1>12. Coming' = Notified(events) + Expected
  BY <1>1, <1>2, <1>3, <1>9 DEF Coming, Expected
<1>13. ExpectedComes'
  BY <1>2, <1>6, <1>7, <1>12 DEF ExpectedComes
<1>14. ExactUnwithdrawn'
  <2>1. ~ CountedPending
    BY <1>4, NothingUnderWay
  <2> QED BY <1>1, <1>2, <1>3, <1>6, <1>7, <1>9, <1>10, <1>12, <2>1 DEF ExactUnwithdrawn, Coming
<1>15. GoneIsUnmapped' /\ UnmanagedExpectsNothing' /\ SelectedWhenManaged' /\ AdoptComesFirst'
  BY <1>1, <1>2, <1>7, <1>9 DEF GoneIsUnmapped, UnmanagedExpectsNothing, SelectedWhenManaged,
     AdoptComesFirst
<1> QED BY <1>9, <1>11, <1>13, <1>14, <1>15

\* Shading counts the notifications of the request it makes, if the window is mapped.
LEMMA ShadeKeeps ==
    ASSUME IInv, Asks, client.managed, UNCHANGED <<server, visible, wanted, withdrawals>>,
           client' \in Clients, client'.managed,
           client'.expected = client.expected + Expected,
           events' \in Seq(EventKinds), Notified(events') = Notified(events),
           \A x \in {"destroy", "synthetic_unmap"} :
               Occurs(events', x) <=> Occurs(events, x),
           \A i \in 1..Len(events') : events'[i] # "adopt",
           NEW list \in Seq(Plain), ~ Occurs(list, "root"),
           requests' = requests \o ((IF server.mapped THEN <<"unmap">> ELSE <<>>) \o list)
    PROVE  IInv'
<1> USE DEF IInv
<1>1. /\ client.expected \in Nat /\ Notified(events) \in Nat /\ Notified(events') \in Nat
  BY NotifiedIsNat DEF TypeOK
<1>2. requests = <<>> /\ ~ CountedPending /\ \A x : ~ Occurs(requests, x)
  BY NothingUnderWay DEF Asks
<1>3. /\ requests' \in Seq(RequestKinds) /\ CountedComesFirst'
      /\ server.mapped => CountedPending'
      /\ ~ Occurs(requests', "root")
  <2>1. CASE server.mapped
    <3>1. server.exists /\ server.selected
      BY <1>2, <2>1 DEF GoneIsUnmapped, SelectedWhenManaged
    <3>2. requests' = <<"unmap">> \o list
      <4>1. <<"unmap">> \o list \in Seq(RequestKinds)
        BY DEF Plain, RequestKinds
      <4> QED BY <1>2, <2>1, <4>1
    <3> QED BY <1>2, <3>1, <3>2, ShadeRequests
  <2>2. CASE ~ server.mapped
    <3>1. requests' = requests \o list
      BY <2>2
    <3> QED BY <1>2, <2>2, <3>1, PlainRequests
  <2> QED BY <2>1, <2>2
<1>4. TypeOK'
  BY <1>3 DEF TypeOK, Clients
<1>5. Coming = Notified(events) /\ Coming' = Notified(events) + Expected
  BY <1>1, <1>2, <1>3 DEF Coming, Expected
<1>6. Expected \in Nat
  BY DEF Expected
<1>7. ExpectedComes'
  BY <1>1, <1>5, <1>6 DEF ExpectedComes
<1>8. ExactUnwithdrawn'
  BY <1>1, <1>3, <1>5, <1>6 DEF ExactUnwithdrawn
<1>9. SelectedWhenManaged'
  BY <1>2 DEF SelectedWhenManaged
<1>10. GoneIsUnmapped' /\ UnmanagedExpectsNothing' /\ AdoptComesFirst'
  BY DEF GoneIsUnmapped, UnmanagedExpectsNothing, AdoptComesFirst
<1> QED BY <1>3, <1>4, <1>7, <1>8, <1>9, <1>10

\* Giving a window up expects nothing any more.
LEMMA UnmanageKeeps ==
    ASSUME IInv, withdrawals # 0, NEW event, Handles(event),
           NEW withdrawn \in BOOLEAN, Unmanage(withdrawn)
    PROVE  IInv'
<1> DEFINE list == IF ~ client.managed THEN <<>>
                   ELSE (IF withdrawn THEN <<"root">> ELSE <<>>) \o <<"destroy">>
<1> USE DEF IInv
<1>1. server' = server /\ wanted' = wanted /\ withdrawals' = withdrawals
  BY DEF Handles
<1>2. /\ events' \in Seq(EventKinds) /\ Notified(events') \in Nat
      /\ \A i \in 1..Len(events') : events'[i] # "adopt"
  BY EventHandled
<1>3. client' = NoClient /\ visible' = visible /\ requests' = requests \o list
  BY DEF Unmanage, Requests
<1>4. list \in Seq(Plain)
  <2>1. <<>> \o <<"destroy">> = <<"destroy">>
    OBVIOUS
  <2> QED BY <2>1, PlainLists
<1> HIDE DEF list
<1>5. requests' \in Seq(RequestKinds) /\ CountedComesFirst'
  BY <1>1, <1>3, <1>4, PlainRequests
<1>6. client' \in Clients /\ client'.expected = 0 /\ ~ client'.managed
  BY <1>3 DEF Clients, NoClient
<1>7. TypeOK'
  BY <1>1, <1>2, <1>3, <1>5, <1>6 DEF TypeOK, Clients
<1>8. ExpectedComes'
  BY <1>2, <1>6 DEF ExpectedComes, Coming
<1>9. ExactUnwithdrawn' /\ GoneIsUnmapped' /\ UnmanagedExpectsNothing' /\ SelectedWhenManaged'
  BY <1>1, <1>3, <1>6 DEF ExactUnwithdrawn, GoneIsUnmapped, UnmanagedExpectsNothing,
     SelectedWhenManaged
<1>10. AdoptComesFirst'
  BY <1>2 DEF AdoptComesFirst
<1> QED BY <1>5, <1>7, <1>8, <1>9, <1>10

\* A notification that is expected is one of those that come.
LEMMA HandleExpectedUnmapKeeps == IInv /\ HandleExpectedUnmap => IInv'
<1> SUFFICES ASSUME IInv, HandleExpectedUnmap PROVE IInv'
  OBVIOUS
<1> USE DEF IInv
<1>1. PICK event \in Notifications : Handles(event)
  BY DEF HandleExpectedUnmap, Notifications
<1>2. /\ server' = server /\ wanted' = wanted /\ withdrawals' = withdrawals
      /\ visible' = visible /\ requests' = requests /\ client.expected > 0
      /\ client' = [client EXCEPT !.expected = client.expected - 1]
  BY <1>1 DEF Handles, HandleExpectedUnmap
<1>3. /\ events' \in Seq(EventKinds)
      /\ Notified(events) \in Nat /\ Notified(events') \in Nat
      /\ Notified(events) = Notified(events') + 1
      /\ \A x : Occurs(events, x) <=> event = x \/ Occurs(events', x)
      /\ \A i \in 1..Len(events') : events'[i] # "adopt"
  BY <1>1, EventHandled
<1>4. client \in Clients
  BY DEF TypeOK, Clients
<1>5. /\ client' \in Clients /\ client'.expected = client.expected - 1
      /\ client'.managed = client.managed
  BY <1>2, <1>4 DEF Clients
<1>6. client.managed
  BY <1>2 DEF UnmanagedExpectsNothing, NoClient
<1>7. TypeOK'
  BY <1>2, <1>3, <1>5 DEF TypeOK, Clients
<1>8. CountedComesFirst' /\ (CountedPending' <=> CountedPending)
  BY <1>2 DEF CountedComesFirst, CountedPending
<1>9. Coming = Coming' + 1 /\ Coming' \in Nat
  BY <1>2, <1>3, <1>8 DEF Coming
<1>10. event # "destroy"
  BY <1>1 DEF Notifications
<1>11. ExpectedComes'
  BY <1>3, <1>4, <1>5, <1>9, <1>10 DEF ExpectedComes, Clients
<1>12. ExactUnwithdrawn'
  BY <1>2, <1>3, <1>4, <1>5, <1>9 DEF ExactUnwithdrawn, Clients
<1>13. GoneIsUnmapped' /\ UnmanagedExpectsNothing' /\ SelectedWhenManaged' /\ AdoptComesFirst'
  BY <1>2, <1>3, <1>5, <1>6 DEF GoneIsUnmapped, UnmanagedExpectsNothing, SelectedWhenManaged,
     AdoptComesFirst, Occurs
<1> QED BY <1>7, <1>8, <1>11, <1>12, <1>13

\* An unmap notification that is not expected, a synthetic one and the destruction of the
\* window all come after the program withdrew its window.
LEMMA GivenUpAfterWithdrawal ==
    ASSUME IInv
    PROVE  /\ client.expected = 0 /\ Handles("unmap") => withdrawals # 0
           /\ Handles("synthetic_unmap") => withdrawals # 0
           /\ Handles("destroy") => withdrawals # 0
<1> USE DEF IInv
<1>1. ASSUME client.expected = 0, Handles("unmap")
      PROVE  withdrawals # 0
  <2>1. /\ Notified(events) \in Nat /\ Notified(events') \in Nat
        /\ Notified(events) = Notified(events') + 1
    BY <1>1, EventHandled DEF Notifications
  <2>2. Coming > 0
    BY <2>1 DEF Coming
  <2> QED BY <1>1, <2>2 DEF ExactUnwithdrawn
<1>2. ASSUME Handles("synthetic_unmap")
      PROVE  withdrawals # 0
  <2>1. Occurs(events, "synthetic_unmap")
    BY <1>2, EventHandled
  <2> QED BY <2>1 DEF ExactUnwithdrawn
<1>3. ASSUME Handles("destroy")
      PROVE  withdrawals # 0
  <2>1. Occurs(events, "destroy")
    BY <1>3, EventHandled
  <2> QED BY <2>1 DEF ExactUnwithdrawn
<1> QED BY <1>1, <1>2, <1>3

\* A handler that ignores its event.
LEMMA IgnoredKeeps ==
    ASSUME IInv, NEW event \in EventKinds \ (Notifications \union {"destroy"}), Handles(event),
           Ignored
    PROVE  IInv'
<1>1. /\ client' = client /\ client \in Clients /\ visible' \in BOOLEAN
      /\ requests \in Seq(RequestKinds) /\ requests' = requests
  BY DEF IInv, Ignored, TypeOK, Clients
<1>2. requests' = requests \o <<>>
  BY <1>1
<1> QED BY <1>1, <1>2, PlainLists, QuietKeeps

\* Restoring a window maps its frame, if its workspace is shown.
LEMMA RestoreKeeps ==
    ASSUME IInv, NEW event \in EventKinds \ (Notifications \union {"destroy"}), Handles(event),
           client.managed, Restore(client), UNCHANGED visible
    PROVE  IInv'
<1> DEFINE list == IF client.iconic /\ visible THEN MapFrame(client) ELSE <<>>
<1>1. client \in Clients /\ visible \in BOOLEAN
  BY DEF IInv, TypeOK, Clients
<1>2. client' = [client EXCEPT !.iconic = FALSE] /\ requests' = requests \o list
  BY DEF Restore, Requests
<1>3. /\ client' \in Clients /\ client'.expected = client.expected
      /\ client'.managed = client.managed
  BY <1>1, <1>2 DEF Clients
<1>4. list \in Seq(Plain) /\ ~ Occurs(list, "root")
  BY PlainLists
<1> HIDE DEF list
<1> QED BY <1>1, <1>2, <1>3, <1>4, QuietKeeps

\* The program asks for its window to be mapped.
LEMMA HandleMapRequestKeeps == IInv /\ HandleMapRequest => IInv'
<1> SUFFICES ASSUME IInv, HandleMapRequest PROVE IInv'
  OBVIOUS
<1>1. "map_request" \in EventKinds \ (Notifications \union {"destroy"})
  BY DEF EventKinds, Notifications
<1>2. Handles("map_request") /\ Asks
  BY DEF HandleMapRequest
<1>3. CASE Ignored
  BY <1>1, <1>2, <1>3, IgnoredKeeps
<1>4. CASE client.managed /\ Restore(client) /\ UNCHANGED visible
  BY <1>1, <1>2, <1>4, RestoreKeeps
<1>5. CASE /\ server.exists /\ ~ client.managed /\ UNCHANGED visible
           /\ \E iconic, shaded \in BOOLEAN : Manage(iconic, shaded)
  <2>1. PICK iconic \in BOOLEAN, shaded \in BOOLEAN : Manage(iconic, shaded)
    BY <1>5
  <2> QED BY <1>2, <1>5, <2>1, ManageKeeps
<1> QED BY <1>3, <1>4, <1>5 DEF HandleMapRequest

\* The window manager adopts a window that it finds mapped.
LEMMA HandleAdoptKeeps == IInv /\ HandleAdopt => IInv'
<1> SUFFICES ASSUME IInv, HandleAdopt PROVE IInv'
  OBVIOUS
<1>1. "adopt" \in EventKinds \ (Notifications \union {"destroy"})
  BY DEF EventKinds, Notifications
<1>2. Handles("adopt") /\ Asks
  BY DEF HandleAdopt
<1>3. CASE ~ server.mapped
  BY <1>1, <1>2, <1>3, IgnoredKeeps DEF HandleAdopt
<1>4. CASE server.mapped
  <2>1. PICK iconic \in BOOLEAN, shaded \in BOOLEAN : Manage(iconic, shaded)
    BY <1>4 DEF HandleAdopt
  <2>2. visible' = visible
    BY <1>4 DEF HandleAdopt
  <2>3. server.exists
    BY <1>4 DEF IInv, GoneIsUnmapped
  <2>4. ~ client.managed
    BY <1>2, EventHandled DEF IInv
  <2> QED BY <1>2, <2>1, <2>2, <2>3, <2>4, ManageKeeps
<1> QED BY <1>3, <1>4

\* Another count of expected notifications.
LEMMA Recounted ==
    ASSUME NEW c \in Clients, NEW n \in Nat, NEW b \in BOOLEAN
    PROVE  /\ [c EXCEPT !.shaded = b, !.expected = n] \in Clients
           /\ [c EXCEPT !.shaded = b, !.expected = n].expected = n
           /\ [c EXCEPT !.shaded = b, !.expected = n].managed = c.managed
           /\ [c EXCEPT !.starting = FALSE, !.shaded = b, !.expected = n] \in Clients
           /\ [c EXCEPT !.starting = FALSE, !.shaded = b, !.expected = n].expected = n
           /\ [c EXCEPT !.starting = FALSE, !.shaded = b, !.expected = n].managed = c.managed
BY DEF Clients

\* A window that starts shaded is unmapped once its frame is there.
LEMMA StartShadedKeeps == IInv /\ StartShaded => IInv'
<1> SUFFICES ASSUME IInv, StartShaded PROVE IInv'
  OBVIOUS
<1> DEFINE shaded == [client EXCEPT !.starting = FALSE, !.shaded = TRUE,
                                    !.expected = client.expected + Expected]
           list == ShowNew(shaded)
<1>1. client \in Clients /\ events \in Seq(EventKinds) /\ Expected \in Nat
  BY DEF IInv, TypeOK, Clients, Expected
<1>2. /\ Asks /\ UNCHANGED <<server, visible, wanted, withdrawals, events>>
      /\ client' = shaded
      /\ requests' = requests \o ((IF server.mapped THEN <<"unmap">> ELSE <<>>) \o list)
  BY DEF StartShaded, Requests
<1>3. client.managed
  BY DEF StartShaded, IInv, UnmanagedExpectsNothing, NoClient
<1>4. /\ shaded \in Clients /\ shaded.expected = client.expected + Expected
      /\ shaded.managed = client.managed
  <2>1. client.expected + Expected \in Nat
    BY <1>1 DEF Clients
  <2> QED BY <1>1, <2>1, Recounted
<1>5. list \in Seq(Plain) /\ ~ Occurs(list, "root")
  BY PlainLists
<1>6. \A i \in 1..Len(events) : events[i] # "adopt"
  BY <1>3 DEF IInv, AdoptComesFirst
<1> HIDE DEF shaded, list
<1> QED BY <1>1, <1>2, <1>3, <1>4, <1>5, <1>6, ShadeKeeps

\* A window is shaded or unshaded.
LEMMA HandleShadeKeeps == IInv /\ HandleShade => IInv'
<1> SUFFICES ASSUME IInv, HandleShade PROVE IInv'
  OBVIOUS
<1>1. "shade" \in EventKinds \ (Notifications \union {"destroy"})
  BY DEF EventKinds, Notifications
<1>2. Handles("shade") /\ Asks
  BY DEF HandleShade
<1>3. client \in Clients /\ requests \in Seq(RequestKinds) /\ Expected \in Nat
  BY DEF IInv, TypeOK, Clients, Expected
<1>4. CASE ~ client.managed \/ ~ server.exists
  BY <1>1, <1>2, <1>4, IgnoredKeeps DEF HandleShade
<1>5. CASE client.managed /\ server.exists /\ client.shaded
  <2> DEFINE list == IF Shown(client) THEN <<"map">> ELSE <<>>
  <2>1. /\ client' = [client EXCEPT !.shaded = ~ client.shaded, !.expected = client.expected]
        /\ requests' = requests \o list /\ visible' = visible
    BY <1>5 DEF HandleShade, Requests
  <2>2. /\ client' \in Clients /\ client'.expected = client.expected
        /\ client'.managed = client.managed
    BY <1>3, <2>1 DEF Clients
  <2>3. list \in Seq(Plain) /\ ~ Occurs(list, "root")
    BY PlainLists
  <2>4. visible' \in BOOLEAN
    BY <2>1 DEF IInv, TypeOK
  <2> HIDE DEF list
  <2> QED BY <1>1, <1>2, <1>5, <2>1, <2>2, <2>3, <2>4, QuietKeeps
<1>6. CASE client.managed /\ server.exists /\ ~ client.shaded
  <2> DEFINE unmaps == IF server.mapped THEN <<"unmap">> ELSE <<>>
  <2>1. /\ client' = [client EXCEPT !.shaded = ~ client.shaded,
                                    !.expected = client.expected + Expected]
        /\ requests' = requests \o unmaps
    BY <1>6 DEF HandleShade, Requests
  <2>2. UNCHANGED <<server, visible, wanted, withdrawals>>
    BY <1>2, <1>6 DEF HandleShade, Handles
  <2>3. /\ client' \in Clients /\ client'.expected = client.expected + Expected
        /\ client'.managed
    <3>1. client.expected + Expected \in Nat /\ (~ client.shaded) \in BOOLEAN
      BY <1>3 DEF Clients
    <3> QED BY <1>3, <1>6, <2>1, <3>1, Recounted, ZenonT(60)
  <2>4. unmaps \o <<>> = unmaps
    OBVIOUS
  <2>5. /\ events' \in Seq(EventKinds) /\ Notified(events') = Notified(events)
        /\ \A x \in {"destroy", "synthetic_unmap"} : Occurs(events', x) <=> Occurs(events, x)
        /\ \A i \in 1..Len(events') : events'[i] # "adopt"
    BY <1>1, <1>2, EventHandled DEF IInv
  <2>6. /\ <<>> \in Seq(Plain) /\ ~ Occurs(<<>>, "root")
        /\ requests' = requests \o ((IF server.mapped THEN <<"unmap">> ELSE <<>>) \o <<>>)
    BY <2>1, <2>4, PlainLists
  <2> QED BY <1>2, <1>6, <2>2, <2>3, <2>5, <2>6, ShadeKeeps
<1> QED BY <1>4, <1>5, <1>6

\* A window is iconified or restored.
LEMMA HandleIconifyKeeps == IInv /\ HandleIconify => IInv'
<1> SUFFICES ASSUME IInv, HandleIconify PROVE IInv'
  OBVIOUS
<1>1. "iconify" \in EventKinds \ (Notifications \union {"destroy"})
  BY DEF EventKinds, Notifications
<1>2. Handles("iconify")
  BY DEF HandleIconify
<1>3. CASE ~ client.managed
  BY <1>1, <1>2, <1>3, IgnoredKeeps DEF HandleIconify
<1>4. CASE client.managed /\ client.iconic
  BY <1>1, <1>2, <1>4, RestoreKeeps DEF HandleIconify
<1>5. CASE client.managed /\ ~ client.iconic
  <2>1. /\ client' = [client EXCEPT !.iconic = TRUE] /\ requests' = requests \o <<"hide">>
        /\ visible' = visible
    BY <1>5 DEF HandleIconify, Requests
  <2>2. client \in Clients /\ visible' \in BOOLEAN
    BY <2>1 DEF IInv, TypeOK, Clients
  <2>3. /\ client' \in Clients /\ client'.expected = client.expected
        /\ client'.managed = client.managed
    BY <2>1, <2>2 DEF Clients
  <2>4. <<"hide">> \in Seq(Plain) /\ ~ Occurs(<<"hide">>, "root")
    BY PlainLists
  <2> QED BY <1>1, <1>2, <1>5, <2>1, <2>2, <2>3, <2>4, QuietKeeps
<1> QED BY <1>3, <1>4, <1>5

\* A workspace is shown or left.
LEMMA HandleSwitchKeeps == IInv /\ HandleSwitch => IInv'
<1> SUFFICES ASSUME IInv, HandleSwitch PROVE IInv'
  OBVIOUS
<1> DEFINE list == IF ~ client.managed THEN <<>>
                   ELSE IF ~ client.iconic /\ visible' THEN MapFrame(client) ELSE <<"hide">>
<1>1. "switch" \in EventKinds \ (Notifications \union {"destroy"})
  BY DEF EventKinds, Notifications
<1>2. /\ Handles("switch") /\ visible' \in BOOLEAN
      /\ client' = client /\ requests' = requests \o list
  BY DEF HandleSwitch, Requests
<1>3. client \in Clients
  BY DEF IInv, TypeOK, Clients
<1>4. list \in Seq(Plain) /\ ~ Occurs(list, "root")
  BY PlainLists
<1> HIDE DEF list
<1> QED BY <1>1, <1>2, <1>3, <1>4, QuietKeeps

\* A notification that is not expected.
LEMMA HandleUnmapKeeps == IInv /\ HandleUnmap => IInv'
<1> SUFFICES ASSUME IInv, HandleUnmap PROVE IInv'
  OBVIOUS
<1>1. server.exists \in BOOLEAN
  BY DEF IInv, TypeOK
<1> QED BY <1>1, GivenUpAfterWithdrawal, UnmanageKeeps DEF HandleUnmap

\* A synthetic one is ignored as long as the window is mapped.
LEMMA HandleSyntheticUnmapKeeps == IInv /\ HandleSyntheticUnmap => IInv'
<1> SUFFICES ASSUME IInv, HandleSyntheticUnmap PROVE IInv'
  OBVIOUS
<1> USE DEF IInv
<1>1. server.exists \in BOOLEAN
  BY DEF TypeOK
<1>2. Handles("synthetic_unmap") /\ withdrawals # 0 /\ client.expected = 0
  BY GivenUpAfterWithdrawal DEF HandleSyntheticUnmap
<1>3. CASE ~ server.mapped
  BY <1>1, <1>2, <1>3, UnmanageKeeps DEF HandleSyntheticUnmap
<1>4. CASE server.mapped
  <2>1. /\ client' = client /\ visible' = visible /\ requests' = requests
        /\ server' = server /\ wanted' = wanted /\ withdrawals' = withdrawals
    BY <1>2, <1>4 DEF HandleSyntheticUnmap, Ignored, Handles
  <2>2. /\ events' \in Seq(EventKinds) /\ Notified(events') \in Nat
        /\ \A i \in 1..Len(events') : events'[i] # "adopt"
    BY <1>2, EventHandled
  <2>3. TypeOK'
    BY <2>1, <2>2 DEF TypeOK
  <2>4. ExpectedComes'
    BY <1>2, <2>1, <2>2 DEF ExpectedComes, Coming
  <2>5. CountedComesFirst' /\ SelectedWhenManaged'
    BY <2>1 DEF CountedComesFirst, SelectedWhenManaged, Occurs
  <2>6. ExactUnwithdrawn' /\ GoneIsUnmapped' /\ UnmanagedExpectsNothing' /\ AdoptComesFirst'
    BY <1>2, <2>1, <2>2 DEF ExactUnwithdrawn, GoneIsUnmapped, UnmanagedExpectsNothing,
       AdoptComesFirst, NoClient
  <2> QED BY <2>3, <2>4, <2>5, <2>6
<1> QED BY <1>3, <1>4

\* The window is destroyed.
LEMMA HandleDestroyKeeps == IInv /\ HandleDestroy => IInv'
BY GivenUpAfterWithdrawal, UnmanageKeeps DEF HandleDestroy

(* ---- The theorems ---- *)
\* The window manager starts with nothing expected and nothing on its way.
LEMMA InitIInv == Init => IInv
<1> SUFFICES ASSUME Init PROVE IInv
  OBVIOUS
<1>1. /\ server \in Windows /\ server.exists /\ server.mapped \in BOOLEAN
      /\ client = NoClient /\ visible = TRUE /\ requests = <<>> /\ events = <<"adopt">>
      /\ wanted = server.mapped /\ withdrawals = 0
  BY DEF Init, Windows
<1>2. client \in Clients /\ client.expected = 0 /\ ~ client.managed
  BY <1>1 DEF Clients, NoClient
<1>3. events \in Seq(EventKinds) /\ Len(events) = 1 /\ events[1] = "adopt"
  BY <1>1 DEF EventKinds
<1>4. NotifiedAt(events) = {}
  BY <1>3 DEF NotifiedAt, Notifications
<1>5. Notified(events) = 0
  BY <1>4, FS_EmptySet DEF Notified
<1>6. ~ CountedPending /\ \A x : ~ Occurs(requests, x)
  BY <1>1, NothingUnderWay
<1>7. TypeOK
  BY <1>1, <1>2, <1>3 DEF TypeOK, Clients, Windows
<1>8. ~ Occurs(events, "destroy") /\ ~ Occurs(events, "synthetic_unmap")
  BY <1>3 DEF Occurs
<1>9. ExpectedComes /\ ExactUnwithdrawn
  BY <1>1, <1>2, <1>5, <1>6, <1>8 DEF ExpectedComes, ExactUnwithdrawn, Coming
<1>10. CountedComesFirst /\ GoneIsUnmapped /\ UnmanagedExpectsNothing /\ SelectedWhenManaged
  BY <1>1, <1>2 DEF CountedComesFirst, GoneIsUnmapped, UnmanagedExpectsNothing,
     SelectedWhenManaged
<1>11. AdoptComesFirst
  BY <1>2, <1>3 DEF AdoptComesFirst
<1> QED BY <1>7, <1>9, <1>10, <1>11 DEF IInv

\* Every step keeps the invariant.
LEMMA NextKeepsIInv == IInv /\ [Next]_vars => IInv'
<1> SUFFICES ASSUME IInv, [Next]_vars PROVE IInv'
  OBVIOUS
<1>1. CASE ServerStep
  BY <1>1, ExecuteKeeps DEF ServerStep
<1>2. CASE ProgramStep
  BY <1>2, ProgramMapsKeeps, ProgramWithdrawsKeeps, ProgramDestroysKeeps DEF ProgramStep
<1>3. CASE ManagerStep
  BY <1>3, HandleMapRequestKeeps, HandleAdoptKeeps, StartShadedKeeps, HandleDestroyKeeps,
     HandleExpectedUnmapKeeps, HandleUnmapKeeps, HandleSyntheticUnmapKeeps, HandleShadeKeeps,
     HandleIconifyKeeps, HandleSwitchKeeps DEF ManagerStep
<1>4. CASE PersonStep
  BY <1>4, PersonKeeps
<1>5. CASE UNCHANGED vars
  BY <1>5 DEF vars, IInv, TypeOK, CountedComesFirst, CountedPending, ExpectedComes, Coming,
     ExactUnwithdrawn, GoneIsUnmapped, UnmanagedExpectsNothing, SelectedWhenManaged,
     AdoptComesFirst, NoClient, Occurs
<1> QED BY <1>1, <1>2, <1>3, <1>4, <1>5 DEF Next

\* The count of expected notifications never exceeds those that still come, and is exact
\* as long as the program has not withdrawn its window (create_frame, set_shaded,
\* unmap_notify).
THEOREM Counting == Spec => []IInv
BY InitIInv, NextKeepsIInv, PTL DEF Spec

\* Once everything under way has been carried out and handled, no notification is
\* expected any more, so that none will hide the next withdrawal (unmap_notify).
THEOREM NothingLeftExpected == Spec => []NothingExpectedForEver
<1>1. ASSUME IInv
      PROVE  NothingExpectedForEver
  <2> SUFFICES ASSUME Settled PROVE client.expected = 0
    BY DEF NothingExpectedForEver
  <2>1. requests = <<>> /\ events = <<>> /\ client.expected \in Nat
    BY <1>1 DEF Settled, IInv, TypeOK
  <2>2. ~ CountedPending /\ ~ Occurs(events, "destroy")
    BY <2>1 DEF CountedPending, Occurs
  <2>3. NotifiedAt(events) = {}
    BY <2>1 DEF NotifiedAt
  <2>4. Notified(events) = 0
    BY <2>3, FS_EmptySet DEF Notified
  <2> QED BY <1>1, <2>1, <2>2, <2>4 DEF IInv, ExpectedComes, Coming
<1> QED BY <1>1, Counting, PTL

\* Only an unmap notification that is not expected, a synthetic one or the destruction
\* of the window makes the window manager give it up.
LEMMA GivenUpOnlyBy ==
    ASSUME IInv, [Next]_vars, GivenUp
    PROVE  \/ client.expected = 0 /\ Handles("unmap")
           \/ Handles("synthetic_unmap") \/ Handles("destroy")
<1>1. client.managed /\ ~ client'.managed /\ client \in Clients
  BY DEF GivenUp, IInv, TypeOK, Clients
<1>2. CASE ServerStep
  BY <1>1, <1>2 DEF ServerStep, Execute
<1>3. CASE ProgramStep
  BY <1>1, <1>3 DEF ProgramStep, ProgramMaps, ProgramWithdraws, ProgramDestroys, Call
<1>4. CASE PersonStep
  BY <1>1, <1>4 DEF PersonStep, Command
<1>5. CASE UNCHANGED vars
  BY <1>1, <1>5 DEF vars
<1>6. CASE ManagerStep
  <2>1. CASE HandleMapRequest \/ HandleIconify
    BY <1>1, <2>1 DEF HandleMapRequest, HandleIconify, Ignored, Restore, Manage, Clients
  <2>2. CASE HandleAdopt
    <3>1. CASE server.mapped
      <4>1. PICK iconic \in BOOLEAN, shaded \in BOOLEAN : Manage(iconic, shaded)
        BY <2>2, <3>1 DEF HandleAdopt
      <4> QED BY <1>1, <4>1 DEF Manage
    <3>2. CASE ~ server.mapped
      BY <1>1, <2>2, <3>2 DEF HandleAdopt, Ignored
    <3> QED BY <3>1, <3>2
  <2>3. CASE StartShaded \/ HandleExpectedUnmap
    BY <1>1, <2>3 DEF StartShaded, HandleExpectedUnmap, Clients
  <2>4. CASE HandleShade
    BY <1>1, <2>4 DEF HandleShade, Ignored, Clients
  <2>5. CASE HandleSwitch
    BY <1>1, <2>5 DEF HandleSwitch
  <2>6. CASE HandleUnmap
    BY <2>6 DEF HandleUnmap
  <2>7. CASE HandleSyntheticUnmap
    BY <2>7 DEF HandleSyntheticUnmap
  <2>8. CASE HandleDestroy
    BY <2>8 DEF HandleDestroy
  <2> QED BY <1>6, <2>1, <2>2, <2>3, <2>4, <2>5, <2>6, <2>7, <2>8 DEF ManagerStep
<1> QED BY <1>2, <1>3, <1>4, <1>5, <1>6 DEF Next

\* A window its program never withdrew is never given up, however often it is shaded,
\* iconified or left on another workspace (unmap_notify, create_frame, set_shaded).
THEOREM KeptUntilWithdrawn == Spec => NeverGivenUpUnasked
<1>1. ASSUME IInv, [Next]_vars
      PROVE  [GivenUp => withdrawals > 0]_vars
  <2>1. withdrawals \in Nat
    BY <1>1 DEF IInv, TypeOK
  <2> QED BY <1>1, <2>1, GivenUpOnlyBy, GivenUpAfterWithdrawal
<1> QED BY <1>1, Counting, PTL DEF Spec, NeverGivenUpUnasked

LastOf(s, S, e) ==
    \E k \in 1..Len(s) : s[k] = e /\ \A i \in 1..Len(s) : i > k => s[i] \notin S

NoneOf(s, S) == \A i \in 1..Len(s) : s[i] \notin S

\* The requests that decide whether the frame is on the screen, and the window.
Frames == {"select", "show", "hide", "destroy"}
Maps == {"map", "unmap"}

Present == client.managed /\ server.exists

SelectFirst ==
    \A i \in 1..Len(requests) : requests[i] = "select" => i = 1

KeptRequests == client.managed => NoneOf(requests, {"root", "destroy"})

FrameKept == Present => Occurs(requests, "select") \/ server.frame # "none"

OnScreen == ~ client.starting /\ Shown(client)

FrameFollows ==
    Present =>
        IF OnScreen
        THEN \/ LastOf(requests, Frames, "show")
             \/ NoneOf(requests, Frames) /\ server.frame = "mapped"
        ELSE \/ LastOf(requests, Frames, "hide") \/ LastOf(requests, Frames, "select")
             \/ NoneOf(requests, Frames) /\ server.frame = "unmapped"

InFrame == Present => Occurs(requests, "frame") \/ server.parent = "frame"

FrameGoes ==
    ~ client.managed =>
        \/ LastOf(requests, Frames, "destroy")
        \/ NoneOf(requests, Frames) /\ server.frame = "none"

GivenBack ==
    ~ client.managed /\ server.exists =>
        /\ NoneOf(requests, {"frame"})
        /\ Occurs(requests, "root") \/ server.parent = "root"

GoneIsTold ==
    IF server.exists THEN ~ Occurs(events, "destroy")
    ELSE client.managed => Occurs(events, "destroy")

ContentFollows ==
    Present /\ OnScreen /\ ~ client.shaded =>
        \/ LastOf(requests, Maps, "map")
        \/ NoneOf(requests, Maps \cup {"frame"}) /\ server.mapped
        \/ Notified(events) > client.expected

ShadedFollows ==
    Present /\ client.shaded =>
        /\ NoneOf(requests, {"map"})
        /\ Occurs(requests, "unmap") \/ ~ server.mapped

SInv == /\ SelectFirst /\ KeptRequests /\ FrameKept /\ FrameFollows /\ InFrame /\ FrameGoes
        /\ GivenBack /\ GoneIsTold /\ ContentFollows /\ ShadedFollows

(* ---- The last request of a kind ---- *)
\* Of two sequences, the second decides if it can.
LEMMA LastConcat ==
    ASSUME NEW K, NEW s \in Seq(K), NEW t \in Seq(K), NEW S, NEW e
    PROVE  /\ LastOf(t, S, e) => LastOf(s \o t, S, e)
           /\ NoneOf(t, S) /\ LastOf(s, S, e) => LastOf(s \o t, S, e)
           /\ NoneOf(s \o t, S) <=> NoneOf(s, S) /\ NoneOf(t, S)
<1> DEFINE u == s \o t
<1>1. /\ Len(u) = Len(s) + Len(t) /\ Len(s) \in Nat /\ Len(t) \in Nat
      /\ \A i \in 1..Len(s) : u[i] = s[i] /\ i \in 1..Len(u)
      /\ \A i \in 1..Len(t) : u[Len(s) + i] = t[i] /\ Len(s) + i \in 1..Len(u)
      /\ \A i \in 1..Len(u) : i > Len(s) => i - Len(s) \in 1..Len(t) /\ u[i] = t[i - Len(s)]
  OBVIOUS
<1> HIDE DEF u
<1>2. ASSUME LastOf(t, S, e)
      PROVE  LastOf(u, S, e)
  <2>1. PICK k \in 1..Len(t) : t[k] = e /\ \A i \in 1..Len(t) : i > k => t[i] \notin S
    BY <1>2 DEF LastOf
  <2>2. Len(s) + k \in 1..Len(u) /\ u[Len(s) + k] = e
    BY <1>1, <2>1
  <2>3. ASSUME NEW i \in 1..Len(u), i > Len(s) + k
        PROVE  u[i] \notin S
    <3>1. i > Len(s) /\ i - Len(s) > k
      BY <1>1, <2>3
    <3>2. i - Len(s) \in 1..Len(t) /\ u[i] = t[i - Len(s)]
      BY <1>1, <3>1
    <3> QED BY <2>1, <3>1, <3>2
  <2> QED BY <2>2, <2>3 DEF LastOf
<1>3. ASSUME NoneOf(t, S), LastOf(s, S, e)
      PROVE  LastOf(u, S, e)
  <2>1. PICK k \in 1..Len(s) : s[k] = e /\ \A i \in 1..Len(s) : i > k => s[i] \notin S
    BY <1>3 DEF LastOf
  <2>2. k \in 1..Len(u) /\ u[k] = e
    BY <1>1, <2>1
  <2>3. \A i \in 1..Len(u) : i > k => u[i] \notin S
    <3> SUFFICES ASSUME NEW i \in 1..Len(u), i > k PROVE u[i] \notin S
      OBVIOUS
    <3>1. CASE i > Len(s)
      BY <1>1, <1>3, <3>1 DEF NoneOf
    <3>2. CASE ~ i > Len(s)
      <4>1. i \in 1..Len(s)
        BY <1>1, <3>2
      <4> QED BY <1>1, <2>1, <4>1
    <3> QED BY <3>1, <3>2
  <2> QED BY <2>2, <2>3 DEF LastOf
<1>4. NoneOf(u, S) <=> NoneOf(s, S) /\ NoneOf(t, S)
  <2>1. ASSUME NoneOf(u, S) PROVE NoneOf(s, S) /\ NoneOf(t, S)
    BY <1>1, <2>1 DEF NoneOf
  <2>2. ASSUME NoneOf(s, S), NoneOf(t, S), NEW i \in 1..Len(u) PROVE u[i] \notin S
    <3>1. CASE i > Len(s)
      BY <1>1, <2>2, <3>1 DEF NoneOf
    <3>2. CASE ~ i > Len(s)
      <4>1. i \in 1..Len(s)
        BY <1>1, <3>2
      <4> QED BY <1>1, <2>2, <4>1 DEF NoneOf
    <3> QED BY <3>1, <3>2
  <2> QED BY <2>1, <2>2 DEF NoneOf
<1> QED BY <1>2, <1>3, <1>4 DEF u

\* When the first has been carried out, either it decided or one that is left does.
LEMMA LastTail ==
    ASSUME NEW K, NEW s \in Seq(K), s # <<>>, NEW S, NEW e
    PROVE  /\ LastOf(s, S, e) => LastOf(Tail(s), S, e) \/ (Head(s) = e /\ NoneOf(Tail(s), S))
           /\ NoneOf(s, S) <=> Head(s) \notin S /\ NoneOf(Tail(s), S)
<1> DEFINE t == Tail(s)
<1>1. /\ Len(s) = Len(t) + 1 /\ Head(s) = s[1] /\ Len(t) \in Nat
      /\ \A i \in 1..Len(t) : t[i] = s[i + 1] /\ i + 1 \in 1..Len(s)
      /\ \A i \in 1..Len(s) : i # 1 => i - 1 \in 1..Len(t) /\ t[i - 1] = s[i]
      /\ 1 \in 1..Len(s)
  OBVIOUS
<1> HIDE DEF t
<1>2. ASSUME LastOf(s, S, e)
      PROVE  LastOf(t, S, e) \/ (Head(s) = e /\ NoneOf(t, S))
  <2>1. PICK k \in 1..Len(s) : s[k] = e /\ \A i \in 1..Len(s) : i > k => s[i] \notin S
    BY <1>2 DEF LastOf
  <2>2. CASE k = 1
    <3>1. \A i \in 1..Len(t) : t[i] \notin S
      BY <1>1, <2>1, <2>2
    <3> QED BY <1>1, <2>1, <2>2, <3>1 DEF NoneOf
  <2>3. CASE k # 1
    <3>1. k - 1 \in 1..Len(t) /\ t[k - 1] = e
      BY <1>1, <2>1, <2>3
    <3>2. \A i \in 1..Len(t) : i > k - 1 => t[i] \notin S
      BY <1>1, <2>1, <2>3
    <3> QED BY <3>1, <3>2 DEF LastOf
  <2> QED BY <2>2, <2>3
<1>3. NoneOf(s, S) <=> Head(s) \notin S /\ NoneOf(t, S)
  <2>1. ASSUME NoneOf(s, S) PROVE Head(s) \notin S /\ NoneOf(t, S)
    BY <1>1, <2>1 DEF NoneOf
  <2>2. ASSUME Head(s) \notin S, NoneOf(t, S), NEW i \in 1..Len(s) PROVE s[i] \notin S
    BY <1>1, <2>2 DEF NoneOf
  <2> QED BY <2>1, <2>2 DEF NoneOf
<1> QED BY <1>2, <1>3 DEF t

\* An empty sequence decides nothing.
LEMMA LastEmpty ==
    ASSUME NEW S, NEW e
    PROVE  ~ LastOf(<<>>, S, e) /\ NoneOf(<<>>, S)
<1>1. Len(<<>>) = 0
  OBVIOUS
<1> QED BY <1>1 DEF LastOf, NoneOf

\* What a sequence does not contain.
LEMMA NoneContains ==
    ASSUME NEW s, NEW S
    PROVE  NoneOf(s, S) <=> \A x \in S : ~ Occurs(s, x)
BY DEF NoneOf, Occurs

\* What the lists of requests decide that map a frame, or hide it.
LEMMA ShowLists ==
    ASSUME NEW c
    PROVE  /\ LastOf(MapFrame(c), Frames, "show") /\ MapFrame(c) \in Seq({"map", "show"})
           /\ ~ c.shaded => LastOf(MapFrame(c), Maps, "map")
           /\ c.shaded => NoneOf(MapFrame(c), Maps)
<1>1. <<"map", "show">> \in Seq({"map", "show"}) /\ <<"show">> \in Seq({"map", "show"})
      /\ Len(<<"map", "show">>) = 2 /\ Len(<<"show">>) = 1
      /\ <<"map", "show">>[1] = "map" /\ <<"map", "show">>[2] = "show" /\ <<"show">>[1] = "show"
  OBVIOUS
<1> DEFINE two == <<"map", "show">>
           one == <<"show">>
<1>2. \A i \in 1..Len(two) : i = 1 \/ i = 2
  BY <1>1
<1>3. \A i \in 1..Len(one) : i = 1
  BY <1>1
<1> HIDE DEF two, one
<1>4. LastOf(two, Frames, "show") /\ LastOf(two, Maps, "map")
  <2>1. /\ 1 \in 1..Len(two) /\ 2 \in 1..Len(two) /\ two[1] = "map" /\ two[2] = "show"
    BY <1>1 DEF two
  <2>2. \A i \in 1..Len(two) : ~ i > 2
    BY <1>2
  <2>3. \A i \in 1..Len(two) : i > 1 => two[i] \notin Maps
    BY <1>2, <2>1 DEF Maps
  <2> QED BY <2>1, <2>2, <2>3 DEF LastOf
<1>5. LastOf(one, Frames, "show") /\ NoneOf(one, Maps)
  <2>1. 1 \in 1..Len(one) /\ one[1] = "show"
    BY <1>1 DEF one
  <2>2. \A i \in 1..Len(one) : ~ i > 1
    BY <1>3
  <2> QED BY <1>3, <2>1, <2>2 DEF LastOf, NoneOf, Maps
<1> QED BY <1>1, <1>4, <1>5 DEF MapFrame, two, one

\* What a single request decides.
LEMMA OneRequest ==
    ASSUME NEW e, NEW S
    PROVE  /\ LastOf(<<e>>, S, e) /\ (e \notin S => NoneOf(<<e>>, S))
           /\ \A x : Occurs(<<e>>, x) <=> x = e
<1>1. Len(<<e>>) = 1 /\ <<e>>[1] = e
  OBVIOUS
<1> DEFINE one == <<e>>
<1>2. Len(one) = 1 /\ one[1] = e
  BY <1>1
<1> HIDE DEF one
<1>3. LastOf(one, S, e) /\ (e \notin S => NoneOf(one, S)) /\ \A x : Occurs(one, x) <=> x = e
  BY <1>2 DEF LastOf, NoneOf, Occurs
<1> QED BY <1>3 DEF one

\* A sequence over some requests holds no others.
LEMMA OnlyThese ==
    ASSUME NEW K, NEW s \in Seq(K)
    PROVE  /\ \A L : K \subseteq L => s \in Seq(L)
           /\ \A S : S \cap K = {} => NoneOf(s, S)
<1>1. \A i \in 1..Len(s) : s[i] \in K
  OBVIOUS
<1>2. ASSUME NEW L, K \subseteq L
      PROVE  s \in Seq(L)
  BY <1>2
<1>3. ASSUME NEW S, S \cap K = {}
      PROVE  NoneOf(s, S)
  BY <1>1, <1>3 DEF NoneOf
<1> QED BY <1>2, <1>3

\* What the window manager asks for to show a frame or to hide it, or not to.
LEMMA ShowTyped ==
    ASSUME NEW c
    PROVE  /\ <<>> \in Seq({"map", "show"}) /\ MapFrame(c) \in Seq({"map", "show"})
           /\ <<>> \in Seq({"map", "show", "hide"}) /\ MapFrame(c) \in Seq({"map", "show", "hide"})
           /\ <<"hide">> \in Seq({"map", "show", "hide"})
<1>1. <<>> \in Seq({"map", "show"}) /\ <<>> \in Seq({"map", "show", "hide"})
      /\ <<"hide">> \in Seq({"map", "show", "hide"})
  OBVIOUS
<1>2. MapFrame(c) \in Seq({"map", "show"})
  BY ShowLists
<1>3. {"map", "show"} \subseteq {"map", "show", "hide"}
  OBVIOUS
<1>4. MapFrame(c) \in Seq({"map", "show", "hide"})
  BY <1>2, <1>3, OnlyThese
<1> QED BY <1>1, <1>2, <1>4

(* ---- The handlers keep what settles ---- *)
\* A handler that shows the frame when it comes on the screen, and hides it when it
\* leaves it.
LEMMA QuietSettles ==
    ASSUME IInv, SInv, NEW event \in EventKinds \ (Notifications \union {"destroy"}),
           Handles(event), client.managed, client'.managed,
           client'.expected = client.expected, client'.shaded = client.shaded,
           client'.starting = client.starting, NEW list, requests' = requests \o list,
           \/ list = <<>> /\ (OnScreen' <=> OnScreen)
           \/ OnScreen' /\ list = MapFrame(client)
           \/ ~ OnScreen' /\ list = <<"hide">>
    PROVE  SInv'
<1> USE DEF SInv
<1>1. server' = server /\ requests \in Seq(RequestKinds) /\ client.shaded \in BOOLEAN
  BY DEF Handles, IInv, TypeOK
<1>2. /\ Notified(events') = Notified(events)
      /\ \A x : Occurs(events, x) <=> event = x \/ Occurs(events', x)
  <2>1. TypeOK /\ AdoptComesFirst
    BY DEF IInv
  <2> QED BY <2>1, EventHandled
<1>3. list \in Seq({"map", "show", "hide"})
  BY ShowTyped
<1>4. /\ list \in Seq(RequestKinds)
      /\ NoneOf(list, {"root", "destroy"}) /\ NoneOf(list, {"select"}) /\ NoneOf(list, {"frame"})
      /\ NoneOf(list, {"unmap"})
  <2>1. {"map", "show", "hide"} \subseteq RequestKinds
    BY DEF RequestKinds
  <2>2. /\ {"root", "destroy"} \cap {"map", "show", "hide"} = {}
        /\ {"select"} \cap {"map", "show", "hide"} = {}
        /\ {"frame"} \cap {"map", "show", "hide"} = {}
        /\ {"unmap"} \cap {"map", "show", "hide"} = {}
    OBVIOUS
  <2> QED BY <1>3, <2>1, <2>2, OnlyThese
<1>5. \A x : Occurs(requests', x) <=> Occurs(requests, x) \/ Occurs(list, x)
  BY <1>1, <1>4, ContainsConcat
<1>6. \A S, e : /\ LastOf(list, S, e) => LastOf(requests', S, e)
                /\ NoneOf(list, S) /\ LastOf(requests, S, e) => LastOf(requests', S, e)
                /\ NoneOf(requests', S) <=> NoneOf(requests, S) /\ NoneOf(list, S)
  BY <1>1, <1>4, LastConcat
<1>7. SelectFirst'
  <2>1. /\ Len(requests) \in Nat /\ Len(list) \in Nat
        /\ \A i \in 1..Len(requests) : requests'[i] = requests[i]
        /\ \A i \in 1..Len(requests') : i > Len(requests) =>
               i - Len(requests) \in 1..Len(list) /\ requests'[i] = list[i - Len(requests)]
        /\ Len(requests') = Len(requests) + Len(list)
    BY <1>1, <1>4
  <2> SUFFICES ASSUME NEW i \in 1..Len(requests'), requests'[i] = "select" PROVE i = 1
    BY DEF SelectFirst
  <2>2. CASE i > Len(requests)
    BY <1>4, <2>1, <2>2 DEF NoneOf
  <2>3. CASE ~ i > Len(requests)
    <3>1. i \in 1..Len(requests)
      BY <2>1, <2>3
    <3> QED BY <2>1, <3>1 DEF SelectFirst
  <2> QED BY <2>2, <2>3
<1>8. KeptRequests'
  BY <1>4, <1>6 DEF KeptRequests
<1>9. FrameKept' /\ InFrame'
  BY <1>1, <1>5 DEF FrameKept, InFrame, Present
<1>10. FrameFollows'
  <2> SUFFICES ASSUME server.exists PROVE FrameFollows'
    BY <1>1 DEF FrameFollows, Present
  <2>1. CASE list = <<>> /\ (OnScreen' <=> OnScreen)
    <3>1. requests' = requests
      BY <1>1, <2>1
    <3> QED BY <1>1, <2>1, <3>1 DEF FrameFollows, Present
  <2>2. CASE OnScreen' /\ list = MapFrame(client)
    BY <1>6, <2>2, ShowLists DEF FrameFollows
  <2>3. CASE ~ OnScreen' /\ list = <<"hide">>
    BY <1>6, <2>3, OneRequest DEF FrameFollows
  <2> QED BY <2>1, <2>2, <2>3
<1>11. FrameGoes' /\ GivenBack'
  BY DEF FrameGoes, GivenBack
<1>12. GoneIsTold'
  BY <1>1, <1>2 DEF GoneIsTold
<1>13. ContentFollows'
  <2> SUFFICES ASSUME server.exists, OnScreen', ~ client.shaded
               PROVE  \/ LastOf(requests', Maps, "map")
                      \/ NoneOf(requests', Maps \cup {"frame"}) /\ server'.mapped
                      \/ Notified(events') > client'.expected
    BY <1>1 DEF ContentFollows, Present
  <2>1. CASE list = <<>> /\ (OnScreen' <=> OnScreen)
    <3>1. requests' = requests
      BY <1>1, <2>1
    <3> QED BY <1>1, <1>2, <2>1, <3>1 DEF ContentFollows, Present
  <2>2. CASE list = MapFrame(client)
    BY <1>6, <2>2, ShowLists
  <2> QED BY <2>1, <2>2
<1>14. ShadedFollows'
  <2> SUFFICES ASSUME server.exists, client.shaded
               PROVE  NoneOf(requests', {"map"}) /\ (Occurs(requests', "unmap") \/ ~ server'.mapped)
    BY DEF ShadedFollows, Present, Handles
  <2>1. NoneOf(list, {"map"})
    <3>1. CASE list = <<>>
      BY <3>1, LastEmpty
    <3>2. CASE list = MapFrame(client)
      BY <3>2, ShowLists DEF NoneOf, Maps
    <3>3. CASE list = <<"hide">>
      BY <3>3, OneRequest
    <3> QED BY <3>1, <3>2, <3>3
  <2> QED BY <1>1, <1>5, <1>6, <2>1 DEF ShadedFollows, Present
<1> QED BY <1>7, <1>8, <1>9, <1>10, <1>11, <1>12, <1>13, <1>14

\* What stays as it is while events arrive or are handled that change neither the
\* window nor what is known of it, save how many notifications are expected.
LEMMA EventsSettle ==
    ASSUME SInv, requests' = requests, visible' = visible, server' = server,
           client'.managed = client.managed, client'.iconic = client.iconic,
           client'.shaded = client.shaded, client'.starting = client.starting,
           Occurs(events', "destroy") <=> Occurs(events, "destroy"),
           \/ Notified(events) > client.expected => Notified(events') > client'.expected
           \/ requests = <<>> /\ server.mapped
    PROVE  SInv'
<1> USE DEF SInv
<1>1. SelectFirst' /\ KeptRequests' /\ FrameKept' /\ InFrame' /\ FrameGoes' /\ GivenBack'
  BY DEF SelectFirst, KeptRequests, FrameKept, InFrame, FrameGoes, GivenBack, Present, NoneOf,
     LastOf, Occurs
<1>2. Present' <=> Present
  BY DEF Present
<1>3. OnScreen' <=> OnScreen
  BY DEF OnScreen, Shown
<1>4. FrameFollows'
  BY <1>2, <1>3 DEF FrameFollows
<1>5. ContentFollows'
  <2>1. CASE Notified(events) > client.expected => Notified(events') > client'.expected
    BY <1>2, <1>3, <2>1 DEF ContentFollows
  <2>2. CASE requests = <<>> /\ server.mapped
    BY <2>2, LastEmpty DEF ContentFollows
  <2> QED BY <2>1, <2>2
<1>6. ShadedFollows' /\ GoneIsTold'
  BY <1>2 DEF ShadedFollows, GoneIsTold
<1> QED BY <1>1, <1>4, <1>5, <1>6

\* A handler that ignores its event.
LEMMA IgnoredSettles ==
    ASSUME IInv, SInv, NEW event \in EventKinds \ (Notifications \union {"destroy"}),
           Handles(event), Ignored
    PROVE  SInv'
<1>1. /\ Notified(events') = Notified(events)
      /\ \A x : Occurs(events, x) <=> event = x \/ Occurs(events', x)
  <2>1. TypeOK /\ AdoptComesFirst
    BY DEF IInv
  <2> QED BY <2>1, EventHandled
<1>2. requests' = requests /\ visible' = visible /\ server' = server /\ client' = client
  BY DEF Ignored, Handles
<1> QED BY <1>1, <1>2, EventsSettle

\* A window that is managed comes into a frame, which is hidden before it is shown.
LEMMA ManageSettles ==
    ASSUME IInv, SInv, NEW event \in {"map_request", "adopt"}, Handles(event), Asks,
           ~ client.managed, server.exists, visible' = visible,
           NEW iconic \in BOOLEAN, NEW shaded \in BOOLEAN, Manage(iconic, shaded)
    PROVE  SInv'
<1> DEFINE managed == [managed |-> TRUE, iconic |-> iconic, shaded |-> FALSE,
                       starting |-> shaded, expected |-> Expected]
           list == IF shaded THEN <<>> ELSE ShowNew(managed)
           two == <<"select", "frame">>
<1>1. server' = server /\ visible \in BOOLEAN
  BY DEF Handles, IInv, TypeOK
<1>2. \A x : Occurs(events, x) <=> event = x \/ Occurs(events', x)
  <2>1. TypeOK /\ AdoptComesFirst
    BY DEF IInv
  <2> QED BY <2>1, EventHandled
<1>3. client' = managed /\ requests = <<>> /\ requests' = requests \o (two \o list)
  BY DEF Manage, Asks, Requests
<1>4. list \in Seq({"map", "show"})
  <2>1. MapFrame(managed) \in Seq({"map", "show"})
    BY ShowLists
  <2> QED BY <2>1 DEF ShowNew
<1>5. /\ client'.managed /\ client'.iconic = iconic /\ client'.shaded = FALSE
      /\ client'.starting = shaded
  BY <1>3
<1>6. IF OnScreen' THEN list = MapFrame(managed) /\ ~ managed.shaded ELSE list = <<>>
  BY <1>1, <1>5 DEF OnScreen, Shown, ShowNew
<1> HIDE DEF managed, list
<1>7. two \in Seq(RequestKinds) /\ list \in Seq(RequestKinds)
  BY <1>4 DEF RequestKinds
<1>8. requests' = two \o list
  BY <1>3, <1>7
<1>9. /\ Len(two) = 2 /\ two[1] = "select" /\ two[2] = "frame"
  OBVIOUS
<1> HIDE DEF two
<1>10. /\ LastOf(two, Frames, "select") /\ NoneOf(two, Maps) /\ NoneOf(two, {"root", "destroy"})
       /\ Occurs(two, "select") /\ Occurs(two, "frame")
  <2>1. \A i \in 1..Len(two) : i = 1 \/ i = 2
    BY <1>9
  <2>2. 1 \in 1..Len(two) /\ 2 \in 1..Len(two)
    BY <1>9
  <2>3. \A i \in 1..Len(two) : i > 1 => two[i] \notin Frames
    BY <1>9, <2>1 DEF Frames
  <2> QED BY <1>9, <2>1, <2>2, <2>3 DEF LastOf, NoneOf, Occurs, Maps
<1>11. \A x : Occurs(requests', x) <=> Occurs(two, x) \/ Occurs(list, x)
  BY <1>7, <1>8, ContainsConcat
<1>12. \A S, e : /\ LastOf(list, S, e) => LastOf(requests', S, e)
                 /\ NoneOf(list, S) /\ LastOf(two, S, e) => LastOf(requests', S, e)
                 /\ NoneOf(requests', S) <=> NoneOf(two, S) /\ NoneOf(list, S)
  BY <1>7, <1>8, LastConcat
<1>13. NoneOf(list, {"root", "destroy"}) /\ NoneOf(list, {"select"})
  BY <1>4 DEF NoneOf
<1>14. SelectFirst'
  <2>1. /\ Len(list) \in Nat /\ Len(requests') = 2 + Len(list)
        /\ \A i \in 1..2 : requests'[i] = two[i]
        /\ \A i \in 1..Len(requests') : i > 2 =>
               i - 2 \in 1..Len(list) /\ requests'[i] = list[i - 2]
    <3>1. Len(list) \in Nat /\ Len(two) \in Nat
      BY <1>7
    <3>2. /\ Len(requests') = Len(two) + Len(list)
          /\ \A i \in 1..Len(two) : requests'[i] = two[i]
          /\ \A i \in 1..Len(requests') : i > Len(two) =>
                 i - Len(two) \in 1..Len(list) /\ requests'[i] = list[i - Len(two)]
      BY <1>7, <1>8
    <3> QED BY <1>9, <3>1, <3>2
  <2> SUFFICES ASSUME NEW i \in 1..Len(requests'), requests'[i] = "select" PROVE i = 1
    BY DEF SelectFirst
  <2>2. i = 1 \/ i = 2 \/ i > 2
    BY <2>1
  <2> QED BY <1>9, <1>13, <2>1, <2>2 DEF NoneOf
<1>15. KeptRequests'
  BY <1>10, <1>12, <1>13 DEF KeptRequests
<1>16. FrameKept' /\ InFrame'
  BY <1>10, <1>11 DEF FrameKept, InFrame
<1>17. FrameFollows'
  <2>1. CASE OnScreen'
    <3>1. LastOf(list, Frames, "show")
      BY <1>6, <2>1, ShowLists
    <3> QED BY <1>12, <2>1, <3>1 DEF FrameFollows
  <2>2. CASE ~ OnScreen'
    <3>1. NoneOf(list, Frames)
      BY <1>6, <2>2, LastEmpty
    <3> QED BY <1>10, <1>12, <2>2, <3>1 DEF FrameFollows
  <2> QED BY <2>1, <2>2
<1>18. FrameGoes' /\ GivenBack'
  BY <1>5 DEF FrameGoes, GivenBack
<1>19. GoneIsTold'
  BY <1>1, <1>2 DEF GoneIsTold, SInv
<1>20. ContentFollows'
  <2> SUFFICES ASSUME OnScreen' PROVE LastOf(requests', Maps, "map")
    BY DEF ContentFollows
  <2>1. LastOf(list, Maps, "map")
    BY <1>6, ShowLists
  <2> QED BY <1>12, <2>1
<1>21. ShadedFollows'
  BY <1>5 DEF ShadedFollows
<1> QED BY <1>14, <1>15, <1>16, <1>17, <1>18, <1>19, <1>20, <1>21 DEF SInv

\* A window that becomes shaded is unmapped, if it is mapped; its frame follows.
LEMMA ShadeSettles ==
    ASSUME IInv, SInv, Asks, client.managed, client'.managed, client'.shaded,
           UNCHANGED <<server, visible>>,
           Occurs(events', "destroy") <=> Occurs(events, "destroy"), NEW list,
           IF OnScreen' /\ ~ OnScreen THEN list = MapFrame(client')
           ELSE list = <<>> /\ (OnScreen' <=> OnScreen),
           requests' = requests \o ((IF server.mapped THEN <<"unmap">> ELSE <<>>) \o list)
    PROVE  SInv'
<1> DEFINE first == IF server.mapped THEN <<"unmap">> ELSE <<>>
<1>1. requests = <<>> /\ server' = server
  BY DEF Asks
<1>2. list \in Seq({"map", "show"})
  BY ShowTyped
<1>3. first \in Seq(RequestKinds) /\ list \in Seq(RequestKinds)
  <2>1. {"map", "show"} \subseteq RequestKinds
    BY DEF RequestKinds
  <2>2. list \in Seq(RequestKinds)
    BY <1>2, <2>1, OnlyThese
  <2>3. <<>> \in Seq(RequestKinds) /\ <<"unmap">> \in Seq(RequestKinds)
    BY DEF RequestKinds
  <2> QED BY <2>2, <2>3
<1>4. requests' = first \o list
  BY <1>1, <1>3
<1>5. /\ NoneOf(first, Frames) /\ NoneOf(first, {"map"}) /\ NoneOf(first, {"root", "destroy"})
      /\ NoneOf(first, {"select"})
      /\ server.mapped => Occurs(first, "unmap")
  <2>1. CASE server.mapped
    BY <2>1, OneRequest DEF Frames
  <2>2. CASE ~ server.mapped
    BY <2>2, LastEmpty
  <2> QED BY <2>1, <2>2
<1> HIDE DEF first
<1>6. \A x : Occurs(requests', x) <=> Occurs(first, x) \/ Occurs(list, x)
  BY ONLY <1>3, <1>4, ContainsConcat
<1>7. \A S, e : /\ LastOf(list, S, e) => LastOf(requests', S, e)
                /\ NoneOf(list, S) /\ LastOf(first, S, e) => LastOf(requests', S, e)
                /\ NoneOf(requests', S) <=> NoneOf(first, S) /\ NoneOf(list, S)
  BY ONLY <1>3, <1>4, LastConcat
<1>8. NoneOf(list, {"root", "destroy"}) /\ NoneOf(list, {"select"})
  <2>1. /\ {"root", "destroy"} \cap {"map", "show"} = {} /\ {"select"} \cap {"map", "show"} = {}
    OBVIOUS
  <2> QED BY <1>2, <2>1, OnlyThese
<1>9. NoneOf(list, {"map"})
  <2>1. CASE list = MapFrame(client')
    BY <2>1, ShowLists DEF NoneOf, Maps
  <2> QED BY <2>1, LastEmpty
<1>10. \A x : ~ Occurs(requests, x)
  BY <1>1, NothingUnderWay
<1>11. SelectFirst'
  <2>1. NoneOf(requests', {"select"})
    BY <1>5, <1>7, <1>8
  <2> QED BY <2>1 DEF SelectFirst, NoneOf
<1>12. KeptRequests'
  BY <1>5, <1>7, <1>8 DEF KeptRequests
<1>13. FrameKept' /\ InFrame'
  BY <1>1, <1>10 DEF FrameKept, InFrame, SInv, Present
<1>14. FrameFollows'
  <2>1. CASE OnScreen' /\ ~ OnScreen
    <3>1. LastOf(list, Frames, "show")
      BY <2>1, ShowLists
    <3> QED BY <1>7, <2>1, <3>1 DEF FrameFollows
  <2>2. CASE list = <<>> /\ (OnScreen' <=> OnScreen)
    <3>1. NoneOf(list, Frames)
      BY <2>2, LastEmpty
    <3>2. NoneOf(requests', Frames)
      BY <1>5, <1>7, <3>1
    <3>3. \A S, e : ~ LastOf(requests, S, e)
      BY <1>1, LastEmpty
    <3>4. Present => IF OnScreen THEN server.frame = "mapped" ELSE server.frame = "unmapped"
      BY <3>3 DEF FrameFollows, SInv
    <3> QED BY <1>1, <2>2, <3>2, <3>4 DEF FrameFollows, Present
  <2> QED BY <2>1, <2>2
<1>15. FrameGoes' /\ GivenBack'
  BY DEF FrameGoes, GivenBack
<1>16. GoneIsTold'
  BY <1>1 DEF GoneIsTold, SInv, Present
<1>17. ContentFollows'
  BY DEF ContentFollows
<1>18. ShadedFollows'
  BY <1>1, <1>5, <1>6, <1>7, <1>9 DEF ShadedFollows
<1> QED BY <1>11, <1>12, <1>13, <1>14, <1>15, <1>16, <1>17, <1>18 DEF SInv

\* A window that is unshaded is mapped if it is on the screen.
LEMMA UnshadeSettles ==
    ASSUME IInv, SInv, Asks, Present, client'.managed, ~ client'.shaded,
           UNCHANGED <<server, visible>>, client'.iconic = client.iconic,
           ~ client.starting, ~ client'.starting,
           Occurs(events', "destroy") <=> Occurs(events, "destroy"),
           requests' = IF Shown(client) THEN <<"map">> ELSE <<>>
    PROVE  SInv'
<1>1. requests = <<>> /\ server' = server /\ Present'
  BY DEF Asks, Present
<1>2. (OnScreen' <=> OnScreen) /\ (OnScreen <=> Shown(client))
  BY DEF OnScreen, Shown
<1>3. /\ NoneOf(requests', Frames) /\ NoneOf(requests', {"root", "destroy"})
      /\ NoneOf(requests', {"select"})
      /\ OnScreen => LastOf(requests', Maps, "map")
  <2>1. CASE Shown(client)
    <3>1. requests' = <<"map">>
      BY <2>1
    <3> QED BY <3>1, OneRequest DEF Frames
  <2>2. CASE ~ Shown(client)
    <3>1. requests' = <<>>
      BY <2>2
    <3> QED BY <1>2, <2>2, <3>1, LastEmpty
  <2> QED BY <2>1, <2>2
<1>4. (\A x : ~ Occurs(requests, x)) /\ (\A S, e : ~ LastOf(requests, S, e))
  BY <1>1, NothingUnderWay, LastEmpty
<1>5. SelectFirst'
  BY <1>3 DEF SelectFirst, NoneOf
<1>6. KeptRequests'
  BY <1>3 DEF KeptRequests
<1>7. FrameKept' /\ InFrame'
  BY <1>1, <1>4 DEF FrameKept, InFrame, SInv
<1>8. FrameFollows'
  BY <1>1, <1>2, <1>3, <1>4 DEF FrameFollows, SInv
<1>9. FrameGoes' /\ GivenBack'
  BY DEF FrameGoes, GivenBack
<1>10. GoneIsTold'
  BY <1>1 DEF GoneIsTold, SInv, Present
<1>11. ContentFollows' /\ ShadedFollows'
  BY <1>2, <1>3 DEF ContentFollows, ShadedFollows
<1> QED BY <1>5, <1>6, <1>7, <1>8, <1>9, <1>10, <1>11 DEF SInv

\* A window that is given up loses its frame, and is given back if it still exists.
LEMMA UnmanageSettles ==
    ASSUME IInv, SInv, NEW event, Handles(event), NEW withdrawn \in BOOLEAN,
           Unmanage(withdrawn), server.exists => withdrawn /\ Asks
    PROVE  SInv'
<1>1. server' = server /\ client' = NoClient /\ requests \in Seq(RequestKinds)
  BY DEF Handles, Unmanage, IInv, TypeOK
<1>2. \A x : Occurs(events, x) <=> event = x \/ Occurs(events', x)
  <2>1. TypeOK /\ AdoptComesFirst
    BY DEF IInv
  <2> QED BY <2>1, EventHandled
<1>3. ~ client'.managed /\ ~ Present'
  BY <1>1 DEF NoClient, Present
<1>4. GoneIsTold'
  BY <1>1, <1>2, <1>3 DEF GoneIsTold, SInv
<1>5. KeptRequests' /\ FrameKept' /\ FrameFollows' /\ InFrame' /\ ContentFollows' /\ ShadedFollows'
  BY <1>3 DEF KeptRequests, FrameKept, FrameFollows, InFrame, ContentFollows, ShadedFollows
<1>6. SelectFirst' /\ FrameGoes' /\ GivenBack'
  <2>1. CASE ~ client.managed
    <3>1. requests' = requests
      BY <1>1, <2>1 DEF Unmanage, Requests
    <3> QED BY <1>1, <2>1, <3>1 DEF SelectFirst, FrameGoes, GivenBack, SInv
  <2>2. CASE client.managed
    <3> DEFINE back == IF withdrawn THEN <<"root">> ELSE <<>>
               list == back \o <<"destroy">>
    <3>1. requests' = requests \o list
      BY <2>2 DEF Unmanage, Requests
    <3>2. back \in Seq(RequestKinds) /\ <<"destroy">> \in Seq(RequestKinds)
      <4>1. <<"root">> \in Seq(RequestKinds) /\ <<>> \in Seq(RequestKinds)
            /\ <<"destroy">> \in Seq(RequestKinds)
        BY DEF RequestKinds
      <4> QED BY <4>1
    <3>3. /\ NoneOf(back, {"select"}) /\ NoneOf(back, {"frame"})
          /\ withdrawn => Occurs(back, "root")
      <4>1. CASE withdrawn
        BY <4>1, OneRequest
      <4>2. CASE ~ withdrawn
        BY <4>2, LastEmpty
      <4> QED BY <4>1, <4>2
    <3> HIDE DEF back
    <3>4. list \in Seq(RequestKinds)
      BY <3>2
    <3>5. /\ NoneOf(list, {"select"}) /\ NoneOf(list, {"frame"})
          /\ LastOf(list, Frames, "destroy")
          /\ withdrawn => Occurs(list, "root")
      <4>1. /\ NoneOf(<<"destroy">>, {"select"}) /\ NoneOf(<<"destroy">>, {"frame"})
            /\ LastOf(<<"destroy">>, Frames, "destroy")
        BY OneRequest
      <4> QED BY <3>2, <3>3, <4>1, LastConcat, ContainsConcat
    <3> HIDE DEF list
    <3>6. LastOf(requests', Frames, "destroy")
      BY <1>1, <3>1, <3>4, <3>5, LastConcat
    <3>7. SelectFirst'
      <4>1. /\ Len(requests) \in Nat /\ Len(list) \in Nat
            /\ Len(requests') = Len(requests) + Len(list)
            /\ \A i \in 1..Len(requests) : requests'[i] = requests[i]
            /\ \A i \in 1..Len(requests') : i > Len(requests) =>
                   i - Len(requests) \in 1..Len(list) /\ requests'[i] = list[i - Len(requests)]
        BY <1>1, <3>1, <3>4
      <4> SUFFICES ASSUME NEW i \in 1..Len(requests'), requests'[i] = "select" PROVE i = 1
        BY DEF SelectFirst
      <4>2. CASE i > Len(requests)
        BY <3>5, <4>1, <4>2 DEF NoneOf
      <4>3. CASE ~ i > Len(requests)
        <5>1. i \in 1..Len(requests)
          BY <4>1, <4>3
        <5> QED BY <4>1, <5>1 DEF SelectFirst, SInv
      <4> QED BY <4>2, <4>3
    <3>8. GivenBack'
      <4> SUFFICES ASSUME server.exists
                   PROVE  NoneOf(requests', {"frame"}) /\ Occurs(requests', "root")
        BY <1>1 DEF GivenBack
      <4>1. requests = <<>> /\ withdrawn
        BY DEF Asks
      <4>2. requests' = list
        BY <3>1, <3>4, <4>1
      <4> QED BY <3>5, <4>1, <4>2
    <3> QED BY <3>6, <3>7, <3>8 DEF FrameGoes
  <2> QED BY <2>1, <2>2
<1> QED BY <1>4, <1>5, <1>6 DEF SInv

(* ---- The server keeps what settles ---- *)
\* What a request makes of the frame and of the window's parent.
LEMMA ResultPlaces ==
    ASSUME NEW s \in Windows, NEW r \in RequestKinds
    PROVE  /\ r = "select" => Result(s, r).frame = "unmapped"
           /\ r = "show" /\ s.frame # "none" => Result(s, r).frame = "mapped"
           /\ r = "hide" /\ s.frame # "none" => Result(s, r).frame = "unmapped"
           /\ r = "destroy" => Result(s, r).frame = "none"
           /\ r \notin Frames => Result(s, r).frame = s.frame
           /\ r = "frame" => Result(s, r).parent = "frame"
           /\ r = "root" => Result(s, r).parent = "root"
           /\ r \notin {"frame", "root"} => Result(s, r).parent = s.parent
<1>1. CASE r = "select"
  BY <1>1 DEF Result, Windows, Frames
<1>2. CASE r = "map"
  BY <1>2 DEF Result, Windows, Frames
<1>3. CASE r = "unmap"
  BY <1>3 DEF Result, Windows, Frames, Unmapped
<1>4. CASE r = "frame"
  BY <1>4 DEF Result, Windows, Frames, Reparented
<1>5. CASE r = "root"
  BY <1>5 DEF Result, Windows, Frames, Reparented
<1>6. CASE r = "show"
  BY <1>6 DEF Result, Windows, Frames
<1>7. CASE r = "hide"
  BY <1>7 DEF Result, Windows, Frames
<1>8. CASE r = "destroy"
  BY <1>8 DEF Result, Windows, Frames
<1> QED BY <1>1, <1>2, <1>3, <1>4, <1>5, <1>6, <1>7, <1>8 DEF RequestKinds

\* The server carries out a request.
LEMMA ExecuteSettles == IInv /\ SInv /\ Execute => SInv'
<1> SUFFICES ASSUME IInv, SInv, Execute PROVE SInv'
  OBVIOUS
<1> DEFINE r == Head(requests)
<1> USE DEF SInv
<1>1. /\ requests # <<>> /\ requests' = Tail(requests) /\ requests \in Seq(RequestKinds)
      /\ client' = client /\ visible' = visible /\ r \in RequestKinds /\ server \in Windows
      /\ Notified(events) \in Nat /\ client.expected \in Nat
  BY NotifiedIsNat DEF Execute, IInv, TypeOK, Windows
<1>2. /\ r \notin Counted \union {"select"} => ~ CountedPending'
      /\ \A x : Occurs(requests, x) <=> r = x \/ Occurs(requests', x)
  <2>1. TypeOK /\ CountedComesFirst
    BY DEF IInv
  <2> QED BY <1>1, <2>1, RequestsLeft
<1>3. /\ \A S, e : LastOf(requests, S, e) =>
             LastOf(requests', S, e) \/ (r = e /\ NoneOf(requests', S))
      /\ \A S : NoneOf(requests, S) <=> r \notin S /\ NoneOf(requests', S)
  BY <1>1, LastTail
<1>4. NoneOf(requests', {"select"})
  <2>1. /\ Len(requests') \in Nat
        /\ \A i \in 1..Len(requests') : i + 1 \in 1..Len(requests) /\ requests'[i] = requests[i + 1]
    BY <1>1
  <2>2. \A i \in 1..Len(requests') : i + 1 # 1
    BY <2>1
  <2> QED BY <2>1, <2>2 DEF SelectFirst, NoneOf
<1>5. Occurs(requests, "select") => r = "select"
  BY <1>2, <1>4 DEF Occurs, NoneOf
<1>6. (OnScreen' <=> OnScreen) /\ (client.shaded' <=> client.shaded)
  BY <1>1 DEF OnScreen, Shown
<1>7. SelectFirst'
  BY <1>4 DEF SelectFirst, NoneOf
<1>8. KeptRequests'
  BY <1>1, <1>3 DEF KeptRequests
<1>9. client.managed => r # "root" /\ r # "destroy"
  BY <1>3 DEF KeptRequests
<1>10. CASE ~ server.exists /\ r \notin ForFrame
  <2>1. server' = server /\ events' = events
    BY <1>10 DEF Execute
  <2>2. ~ Present' /\ r # "destroy" /\ ~ server'.exists
    BY <1>10, <2>1 DEF Present, ForFrame
  <2>3. FrameKept' /\ FrameFollows' /\ InFrame' /\ ContentFollows' /\ ShadedFollows'
    BY <2>2 DEF FrameKept, FrameFollows, InFrame, ContentFollows, ShadedFollows
  <2>4. FrameGoes'
    BY <1>1, <1>3, <2>1, <2>2 DEF FrameGoes
  <2>5. GivenBack' /\ GoneIsTold'
    BY <1>1, <2>1, <2>2 DEF GivenBack, GoneIsTold
  <2> QED BY <1>7, <1>8, <2>3, <2>4, <2>5
<1>11. CASE ~ (~ server.exists /\ r \notin ForFrame)
  <2>1. server' = Result(server, r) /\ events' = events \o Causes(server, r)
    BY <1>11 DEF Execute
  <2>2. /\ server'.exists = server.exists
        /\ r = "map" => server'.mapped
        /\ r = "unmap" => ~ server'.mapped
        /\ r \notin {"map", "unmap"} => server'.mapped = server.mapped
    BY <1>1, <2>1, Results
  <2>3. /\ r = "select" => server'.frame = "unmapped"
        /\ r = "show" /\ server.frame # "none" => server'.frame = "mapped"
        /\ r = "hide" /\ server.frame # "none" => server'.frame = "unmapped"
        /\ r = "destroy" => server'.frame = "none"
        /\ r \notin Frames => server'.frame = server.frame
        /\ r = "frame" => server'.parent = "frame"
        /\ r = "root" => server'.parent = "root"
        /\ r \notin {"frame", "root"} => server'.parent = server.parent
    BY <1>1, <2>1, ResultPlaces
  <2>4. /\ Notified(events') \in Nat /\ Notified(events') >= Notified(events)
        /\ Occurs(events', "destroy") <=> Occurs(events, "destroy")
    <3>1. TypeOK
      BY DEF IInv
    <3> QED BY <1>1, <2>1, <3>1, CausesArrive
  <2>5. Present' <=> Present
    BY <1>1, <2>2 DEF Present
  <2>6. FrameKept'
    <3> SUFFICES ASSUME Present PROVE Occurs(requests', "select") \/ server'.frame # "none"
      BY <2>5 DEF FrameKept
    <3>1. r # "destroy"
      BY <1>9 DEF Present
    <3>2. r = "select" \/ server.frame # "none"
      BY <1>5 DEF FrameKept
    <3> QED BY <2>3, <3>1, <3>2 DEF Frames
  <2>7. FrameFollows'
    <3> SUFFICES ASSUME Present PROVE FrameFollows'
      BY <2>5 DEF FrameFollows
    <3>1. r # "select" => server.frame # "none"
      BY <1>5 DEF FrameKept
    <3>2. CASE OnScreen
      <4>1. CASE LastOf(requests, Frames, "show")
        BY <1>3, <1>6, <2>3, <3>1, <3>2, <4>1 DEF FrameFollows
      <4>2. CASE NoneOf(requests, Frames) /\ server.frame = "mapped"
        BY <1>3, <1>6, <2>3, <3>2, <4>2 DEF FrameFollows
      <4> QED BY <3>2, <4>1, <4>2 DEF FrameFollows
    <3>3. CASE ~ OnScreen
      <4>1. CASE LastOf(requests, Frames, "hide")
        BY <1>3, <1>6, <2>3, <3>1, <3>3, <4>1 DEF FrameFollows
      <4>2. CASE LastOf(requests, Frames, "select")
        BY <1>3, <1>6, <2>3, <3>3, <4>2 DEF FrameFollows
      <4>3. CASE NoneOf(requests, Frames) /\ server.frame = "unmapped"
        BY <1>3, <1>6, <2>3, <3>3, <4>3 DEF FrameFollows
      <4> QED BY <3>3, <4>1, <4>2, <4>3 DEF FrameFollows
    <3> QED BY <3>2, <3>3
  <2>8. InFrame'
    BY <1>2, <1>9, <2>3, <2>5 DEF InFrame, Present
  <2>9. FrameGoes'
    BY <1>1, <1>3, <2>3 DEF FrameGoes
  <2>10. GivenBack'
    BY <1>1, <1>2, <1>3, <2>2, <2>3 DEF GivenBack
  <2>11. GoneIsTold'
    BY <1>1, <2>2, <2>4 DEF GoneIsTold
  <2>12. ContentFollows'
    <3> SUFFICES ASSUME Present, OnScreen, ~ client.shaded
                 PROVE  \/ LastOf(requests', Maps, "map")
                        \/ NoneOf(requests', Maps \cup {"frame"}) /\ server'.mapped
                        \/ Notified(events') > client'.expected
      BY <1>1, <1>6, <2>5 DEF ContentFollows
    <3>1. CASE LastOf(requests, Maps, "map")
      <4>1. CASE r = "map" /\ NoneOf(requests', Maps)
        <5>1. ~ CountedPending'
          BY <1>2, <4>1 DEF Counted
        <5>2. NoneOf(requests', {"frame"})
          BY <5>1 DEF CountedPending, Counted, NoneOf
        <5>3. NoneOf(requests', Maps \cup {"frame"})
          BY <4>1, <5>2 DEF NoneOf
        <5> QED BY <2>2, <4>1, <5>3
      <4> QED BY <1>3, <3>1, <4>1
    <3>2. CASE NoneOf(requests, Maps \cup {"frame"}) /\ server.mapped
      BY <1>3, <2>2, <3>2 DEF Maps
    <3>3. CASE Notified(events) > client.expected
      BY <1>1, <2>4, <3>3
    <3> QED BY <3>1, <3>2, <3>3 DEF ContentFollows
  <2>13. ShadedFollows'
    BY <1>1, <1>2, <1>3, <2>2, <2>5 DEF ShadedFollows
  <2> QED BY <1>7, <1>8, <2>6, <2>7, <2>8, <2>9, <2>10, <2>11, <2>12, <2>13
<1> QED BY <1>10, <1>11

(* ---- Programs and people keep what settles ---- *)
\* A program that maps its window asks for it, and a person asks too.
LEMMA AskingSettles ==
    ASSUME IInv, SInv, ProgramMaps \/ PersonStep
    PROVE  SInv'
<1>1. events \in Seq(EventKinds)
  BY DEF IInv, TypeOK
<1>2. /\ requests' = requests /\ visible' = visible /\ server' = server /\ client' = client
  BY DEF ProgramMaps, PersonStep, Command, Call
<1>3. \/ events' = events
      \/ \E e \in EventKinds \ (Notifications \cup {"adopt", "destroy"}) :
             events' = Append(events, e)
  BY DEF ProgramMaps, PersonStep, Command, EventKinds, Notifications
<1>4. ASSUME NEW e \in EventKinds \ (Notifications \cup {"adopt", "destroy"}),
             events' = Append(events, e)
      PROVE  /\ Notified(events') = Notified(events)
             /\ Occurs(events', "destroy") <=> Occurs(events, "destroy")
  BY <1>1, <1>4, EventArrives DEF Arrived
<1>5. /\ Notified(events') = Notified(events)
      /\ Occurs(events', "destroy") <=> Occurs(events, "destroy")
  BY <1>3, <1>4
<1> QED BY <1>2, <1>5, EventsSettle

\* A program that withdraws its window: a window that was mapped to stay leaves more
\* notifications than are expected.
LEMMA ProgramWithdrawsSettles == IInv /\ SInv /\ ProgramWithdraws => SInv'
<1> SUFFICES ASSUME IInv, SInv, ProgramWithdraws PROVE SInv'
  OBVIOUS
<1> DEFINE shown == IF server.mapped THEN events \o UnmapEvents(server) ELSE events
<1> USE DEF SInv
<1>1. /\ events \in Seq(EventKinds) /\ server \in Windows /\ Notified(events) \in Nat
      /\ client.expected \in Nat
  BY NotifiedIsNat DEF IInv, TypeOK, Windows
<1>2. "synthetic_unmap" \in EventKinds \ {"adopt"} /\ "synthetic_unmap" \in Notifications
  BY DEF EventKinds, Notifications
<1>3. /\ shown \in Seq(EventKinds) /\ Notified(shown) \in Nat
      /\ Notified(shown) >= Notified(events)
      /\ Occurs(events, "destroy") <=> Occurs(shown, "destroy")
  <2>1. CASE server.mapped
    <3>1. Arrived(events, shown, IF server.selected THEN 2 ELSE 1, {"unmap"})
      BY <1>1, <2>1, UnmapEventsArrive
    <3> QED BY <1>1, <2>1, <3>1 DEF Arrived
  <2>2. CASE ~ server.mapped
    BY <1>1, <2>2
  <2> QED BY <2>1, <2>2
<1>4. events' = shown \o <<"synthetic_unmap">>
  BY DEF ProgramWithdraws
<1> HIDE DEF shown
<1>5. events' = Append(shown, "synthetic_unmap")
  BY <1>2, <1>3, <1>4
<1>6. Arrived(shown, events', 1, {"synthetic_unmap"})
  BY <1>2, <1>3, <1>5, EventArrives
<1>7. /\ Notified(events') \in Nat /\ Notified(events') > Notified(events)
      /\ Occurs(events', "destroy") <=> Occurs(events, "destroy")
  BY <1>1, <1>3, <1>6 DEF Arrived
<1>8. /\ client' = client /\ visible' = visible /\ requests' = requests /\ server.exists
      /\ server' = [server EXCEPT !.mapped = FALSE]
  BY DEF ProgramWithdraws, Call, Unmapped
<1>9. /\ server'.exists /\ server'.parent = server.parent /\ server'.frame = server.frame
      /\ ~ server'.mapped
  BY <1>1, <1>8 DEF Windows
<1>10. (Present' <=> Present) /\ (OnScreen' <=> OnScreen)
  BY <1>8, <1>9 DEF Present, OnScreen, Shown
<1>11. SelectFirst' /\ KeptRequests' /\ FrameKept' /\ InFrame' /\ FrameGoes' /\ GivenBack'
  BY <1>8, <1>9, <1>10 DEF SelectFirst, KeptRequests, FrameKept, InFrame, FrameGoes, GivenBack
<1>12. FrameFollows'
  BY <1>8, <1>9, <1>10 DEF FrameFollows
<1>13. GoneIsTold'
  BY <1>7, <1>8, <1>9 DEF GoneIsTold
<1>14. ContentFollows'
  <2> SUFFICES ASSUME Present, OnScreen, ~ client.shaded, ~ LastOf(requests, Maps, "map")
               PROVE  Notified(events') > client.expected
    BY <1>8, <1>10 DEF ContentFollows
  <2>1. CASE Notified(events) > client.expected
    BY <1>1, <1>7, <2>1
  <2>2. CASE NoneOf(requests, Maps \cup {"frame"})
    <3>1. ~ CountedPending
      BY <2>2 DEF CountedPending, Counted, NoneOf, Maps
    <3>2. ~ Occurs(events, "destroy")
      BY <1>8 DEF GoneIsTold
    <3>3. client.expected <= Notified(events)
      BY <1>1, <3>1, <3>2 DEF IInv, ExpectedComes, Coming
    <3> QED BY <1>1, <1>7, <3>3
  <2> QED BY <2>1, <2>2 DEF ContentFollows
<1>15. ShadedFollows'
  BY <1>8, <1>9, <1>10 DEF ShadedFollows
<1> QED BY <1>11, <1>12, <1>13, <1>14, <1>15

\* A program that destroys its window: that is told, and it settles what is to be
\* settled about the window itself.
LEMMA ProgramDestroysSettles == IInv /\ SInv /\ ProgramDestroys => SInv'
<1> SUFFICES ASSUME IInv, SInv, ProgramDestroys PROVE SInv'
  OBVIOUS
<1> DEFINE before == events \o (IF server.mapped THEN UnmapEvents(server) ELSE <<>>)
<1> USE DEF SInv
<1>1. events \in Seq(EventKinds) /\ server \in Windows
  BY DEF IInv, TypeOK, Windows
<1>2. before \in Seq(EventKinds)
  <2>1. CASE server.mapped
    <3>1. Arrived(events, before, IF server.selected THEN 2 ELSE 1, {"unmap"})
      BY <1>1, <2>1, UnmapEventsArrive
    <3> QED BY <3>1 DEF Arrived
  <2>2. CASE ~ server.mapped
    <3>1. before = events
      BY <1>1, <2>2
    <3> QED BY <1>1, <3>1
  <2> QED BY <2>1, <2>2
<1>3. events' = before \o <<"destroy">>
  BY DEF ProgramDestroys
<1> HIDE DEF before
<1>4. Occurs(events', "destroy")
  <2>1. <<"destroy">> \in Seq(EventKinds) /\ Occurs(<<"destroy">>, "destroy")
    BY OneRequest DEF EventKinds
  <2> QED BY <1>2, <1>3, <2>1, ContainsConcat
<1>5. /\ client' = client /\ requests' = requests
      /\ server' = [server EXCEPT !.exists = FALSE, !.mapped = FALSE]
  BY DEF ProgramDestroys, Call
<1>6. ~ server'.exists /\ server'.frame = server.frame /\ ~ Present'
  BY <1>1, <1>5 DEF Windows, Present
<1>7. SelectFirst' /\ KeptRequests' /\ FrameGoes' /\ GivenBack' /\ GoneIsTold'
  BY <1>4, <1>5, <1>6 DEF SelectFirst, KeptRequests, FrameGoes, GivenBack, GoneIsTold
<1>8. FrameKept' /\ FrameFollows' /\ InFrame' /\ ContentFollows' /\ ShadedFollows'
  BY <1>6 DEF FrameKept, FrameFollows, InFrame, ContentFollows, ShadedFollows
<1> QED BY <1>7, <1>8

(* ---- Each handler ---- *)
\* A window that is restored comes on the screen if its workspace is shown.
LEMMA RestoreSettles ==
    ASSUME IInv, SInv, NEW event \in EventKinds \ (Notifications \union {"destroy"}),
           Handles(event), client.managed, Restore(client), UNCHANGED visible
    PROVE  SInv'
<1> DEFINE list == IF client.iconic /\ visible THEN MapFrame(client) ELSE <<>>
<1>1. client \in Clients /\ visible \in BOOLEAN /\ visible' = visible
  BY DEF IInv, TypeOK, Clients
<1>2. client' = [client EXCEPT !.iconic = FALSE] /\ requests' = requests \o list
  BY DEF Restore, Requests
<1>3. /\ client'.expected = client.expected /\ client'.managed = client.managed
      /\ client'.shaded = client.shaded /\ client'.starting = client.starting
      /\ client'.iconic = FALSE /\ ~ client.starting
  BY <1>1, <1>2 DEF Clients, Handles
<1>4. \/ list = <<>> /\ (OnScreen' <=> OnScreen)
      \/ OnScreen' /\ list = MapFrame(client)
  BY <1>1, <1>3 DEF OnScreen, Shown
<1> HIDE DEF list
<1> QED BY <1>2, <1>3, <1>4, QuietSettles

LEMMA HandleMapRequestSettles == IInv /\ SInv /\ HandleMapRequest => SInv'
<1> SUFFICES ASSUME IInv, SInv, HandleMapRequest PROVE SInv'
  OBVIOUS
<1>1. "map_request" \in EventKinds \ (Notifications \union {"destroy"})
  BY DEF EventKinds, Notifications
<1>2. Handles("map_request") /\ Asks
  BY DEF HandleMapRequest
<1>3. CASE Ignored
  BY <1>1, <1>2, <1>3, IgnoredSettles
<1>4. CASE client.managed /\ Restore(client) /\ UNCHANGED visible
  BY <1>1, <1>2, <1>4, RestoreSettles
<1>5. CASE /\ server.exists /\ ~ client.managed /\ UNCHANGED visible
           /\ \E iconic, shaded \in BOOLEAN : Manage(iconic, shaded)
  <2>1. PICK iconic \in BOOLEAN, shaded \in BOOLEAN : Manage(iconic, shaded)
    BY <1>5
  <2> QED BY <1>2, <1>5, <2>1, ManageSettles
<1> QED BY <1>3, <1>4, <1>5 DEF HandleMapRequest

LEMMA HandleAdoptSettles == IInv /\ SInv /\ HandleAdopt => SInv'
<1> SUFFICES ASSUME IInv, SInv, HandleAdopt PROVE SInv'
  OBVIOUS
<1>1. "adopt" \in EventKinds \ (Notifications \union {"destroy"})
  BY DEF EventKinds, Notifications
<1>2. Handles("adopt") /\ Asks
  BY DEF HandleAdopt
<1>3. CASE ~ server.mapped
  BY <1>1, <1>2, <1>3, IgnoredSettles DEF HandleAdopt
<1>4. CASE server.mapped
  <2>1. PICK iconic \in BOOLEAN, shaded \in BOOLEAN : Manage(iconic, shaded)
    BY <1>4 DEF HandleAdopt
  <2>2. visible' = visible
    BY <1>4 DEF HandleAdopt
  <2>3. server.exists
    BY <1>4 DEF IInv, GoneIsUnmapped
  <2>4. ~ client.managed
    BY <1>2, EventHandled DEF IInv
  <2> QED BY <1>2, <2>1, <2>2, <2>3, <2>4, ManageSettles
<1> QED BY <1>3, <1>4

\* What a new count of expected notifications leaves of what is known of a window.
LEMMA RecountedFields ==
    ASSUME NEW c \in Clients, NEW n, NEW b
    PROVE  /\ [c EXCEPT !.shaded = b, !.expected = n].shaded = b
           /\ [c EXCEPT !.shaded = b, !.expected = n].managed = c.managed
           /\ [c EXCEPT !.shaded = b, !.expected = n].iconic = c.iconic
           /\ [c EXCEPT !.shaded = b, !.expected = n].starting = c.starting
           /\ [c EXCEPT !.starting = FALSE, !.shaded = b, !.expected = n].shaded = b
           /\ [c EXCEPT !.starting = FALSE, !.shaded = b, !.expected = n].managed = c.managed
           /\ [c EXCEPT !.starting = FALSE, !.shaded = b, !.expected = n].iconic = c.iconic
           /\ [c EXCEPT !.starting = FALSE, !.shaded = b, !.expected = n].starting = FALSE
BY DEF Clients

LEMMA StartShadedSettles == IInv /\ SInv /\ StartShaded => SInv'
<1> SUFFICES ASSUME IInv, SInv, StartShaded PROVE SInv'
  OBVIOUS
<1> DEFINE shaded == [client EXCEPT !.starting = FALSE, !.shaded = TRUE,
                                    !.expected = client.expected + Expected]
           list == ShowNew(shaded)
<1>1. client \in Clients /\ visible \in BOOLEAN
  BY DEF IInv, TypeOK, Clients
<1>2. /\ Asks /\ UNCHANGED <<server, visible, events>> /\ client' = shaded /\ client.starting
      /\ requests' = requests \o ((IF server.mapped THEN <<"unmap">> ELSE <<>>) \o list)
  BY DEF StartShaded, Requests
<1>3. client.managed
  BY DEF StartShaded, IInv, UnmanagedExpectsNothing, NoClient
<1>4. /\ shaded.managed = client.managed /\ shaded.shaded = TRUE /\ shaded.starting = FALSE
      /\ shaded.iconic = client.iconic
  BY <1>1, RecountedFields
<1> HIDE DEF shaded
<1>5. ~ OnScreen /\ (OnScreen' <=> Shown(shaded))
  BY <1>2, <1>4 DEF OnScreen, Shown
<1>6. IF OnScreen' /\ ~ OnScreen THEN list = MapFrame(client')
      ELSE list = <<>> /\ (OnScreen' <=> OnScreen)
  BY <1>2, <1>5 DEF ShowNew
<1> HIDE DEF list
<1>7. Occurs(events', "destroy") <=> Occurs(events, "destroy")
  BY <1>2
<1> QED BY <1>2, <1>3, <1>4, <1>6, <1>7, ShadeSettles

LEMMA HandleShadeSettles == IInv /\ SInv /\ HandleShade => SInv'
<1> SUFFICES ASSUME IInv, SInv, HandleShade PROVE SInv'
  OBVIOUS
<1>1. "shade" \in EventKinds \ (Notifications \union {"destroy"})
  BY DEF EventKinds, Notifications
<1>2. Handles("shade") /\ Asks /\ ~ client.starting /\ server' = server
  BY DEF HandleShade, Handles
<1>3. client \in Clients /\ client.shaded \in BOOLEAN
  BY DEF IInv, TypeOK, Clients
<1>4. Occurs(events', "destroy") <=> Occurs(events, "destroy")
  BY <1>1, <1>2, EventHandled DEF IInv
<1>5. CASE ~ client.managed \/ ~ server.exists
  BY <1>1, <1>2, <1>5, IgnoredSettles DEF HandleShade
<1>6. CASE client.managed /\ server.exists /\ client.shaded
  <2> DEFINE list == IF Shown(client) THEN <<"map">> ELSE <<>>
  <2>1. /\ client' = [client EXCEPT !.shaded = ~ client.shaded, !.expected = client.expected]
        /\ requests' = requests \o list /\ visible' = visible
    BY <1>6 DEF HandleShade, Requests
  <2>2. /\ client'.managed /\ ~ client'.shaded /\ client'.iconic = client.iconic
        /\ ~ client'.starting
    <3> DEFINE b == ~ client.shaded
               n == client.expected
    <3>1. client' = [client EXCEPT !.shaded = b, !.expected = n] /\ b = FALSE
      BY <1>3, <1>6, <2>1
    <3> HIDE DEF b, n
    <3> QED BY <1>2, <1>3, <1>6, <3>1, RecountedFields
  <2>3. requests' = list
    <3>1. list \in Seq({"map"})
      <4>1. <<>> \in Seq({"map"}) /\ <<"map">> \in Seq({"map"})
        OBVIOUS
      <4> QED BY <4>1
    <3> HIDE DEF list
    <3> QED BY <1>2, <2>1, <3>1 DEF Asks
  <2> QED BY <1>2, <1>4, <1>6, <2>1, <2>2, <2>3, UnshadeSettles DEF Present
<1>7. CASE client.managed /\ server.exists /\ ~ client.shaded
  <2> DEFINE unmaps == IF server.mapped THEN <<"unmap">> ELSE <<>>
  <2>1. /\ client' = [client EXCEPT !.shaded = ~ client.shaded,
                                    !.expected = client.expected + Expected]
        /\ requests' = requests \o unmaps /\ visible' = visible
    BY <1>7 DEF HandleShade, Requests
  <2>2. /\ client'.managed /\ client'.shaded /\ client'.iconic = client.iconic
        /\ client'.starting = client.starting
    <3> DEFINE b == ~ client.shaded
               n == client.expected + Expected
    <3>1. client' = [client EXCEPT !.shaded = b, !.expected = n] /\ b = TRUE
      BY <1>3, <1>7, <2>1
    <3> HIDE DEF b, n
    <3> QED BY <1>3, <1>7, <3>1, RecountedFields
  <2>3. OnScreen' <=> OnScreen
    BY <2>1, <2>2 DEF OnScreen, Shown
  <2>4. unmaps \o <<>> = unmaps
    OBVIOUS
  <2>5. requests' = requests \o ((IF server.mapped THEN <<"unmap">> ELSE <<>>) \o <<>>)
    BY <2>1, <2>4
  <2> QED BY <1>2, <1>4, <1>7, <2>1, <2>2, <2>3, <2>5, ShadeSettles
<1> QED BY <1>5, <1>6, <1>7

LEMMA HandleIconifySettles == IInv /\ SInv /\ HandleIconify => SInv'
<1> SUFFICES ASSUME IInv, SInv, HandleIconify PROVE SInv'
  OBVIOUS
<1>1. "iconify" \in EventKinds \ (Notifications \union {"destroy"})
  BY DEF EventKinds, Notifications
<1>2. Handles("iconify")
  BY DEF HandleIconify
<1>3. CASE ~ client.managed
  BY <1>1, <1>2, <1>3, IgnoredSettles DEF HandleIconify
<1>4. CASE client.managed /\ client.iconic
  BY <1>1, <1>2, <1>4, RestoreSettles DEF HandleIconify
<1>5. CASE client.managed /\ ~ client.iconic
  <2>1. /\ client' = [client EXCEPT !.iconic = TRUE] /\ requests' = requests \o <<"hide">>
    BY <1>5 DEF HandleIconify, Requests
  <2>2. client \in Clients
    BY DEF IInv, TypeOK, Clients
  <2>3. /\ client'.expected = client.expected /\ client'.managed = client.managed
        /\ client'.shaded = client.shaded /\ client'.starting = client.starting
        /\ client'.iconic = TRUE
    BY <2>1, <2>2 DEF Clients
  <2>4. ~ OnScreen'
    BY <2>3 DEF OnScreen, Shown
  <2> QED BY <1>1, <1>2, <1>5, <2>1, <2>3, <2>4, QuietSettles
<1> QED BY <1>3, <1>4, <1>5

LEMMA HandleSwitchSettles == IInv /\ SInv /\ HandleSwitch => SInv'
<1> SUFFICES ASSUME IInv, SInv, HandleSwitch PROVE SInv'
  OBVIOUS
<1>1. "switch" \in EventKinds \ (Notifications \union {"destroy"})
  BY DEF EventKinds, Notifications
<1>2. Handles("switch") /\ client' = client /\ server' = server /\ ~ client.starting
  BY DEF HandleSwitch, Handles
<1>3. CASE client.managed
  <2> DEFINE list == IF ~ client.iconic /\ visible' THEN MapFrame(client) ELSE <<"hide">>
  <2>1. requests' = requests \o list
    BY <1>3 DEF HandleSwitch, Requests
  <2>2. \/ OnScreen' /\ list = MapFrame(client)
        \/ ~ OnScreen' /\ list = <<"hide">>
    BY <1>2 DEF OnScreen, Shown
  <2> HIDE DEF list
  <2> QED BY <1>1, <1>2, <1>3, <2>1, <2>2, QuietSettles
<1>4. CASE ~ client.managed
  <2>1. requests' = requests
    <3>1. requests \in Seq(RequestKinds) /\ requests' = requests \o <<>>
      BY <1>4 DEF HandleSwitch, Requests, IInv, TypeOK
    <3> QED BY <3>1
  <2>2. Occurs(events', "destroy") <=> Occurs(events, "destroy")
    BY <1>1, <1>2, EventHandled DEF IInv
  <2>3. ~ Present' /\ ~ client'.managed
    BY <1>2, <1>4 DEF Present
  <2>4. SelectFirst' /\ FrameGoes' /\ GivenBack' /\ GoneIsTold'
    BY <1>2, <2>1, <2>2 DEF SelectFirst, FrameGoes, GivenBack, GoneIsTold, SInv
  <2>5. KeptRequests' /\ FrameKept' /\ FrameFollows' /\ InFrame' /\ ContentFollows' /\ ShadedFollows'
    BY <2>3 DEF KeptRequests, FrameKept, FrameFollows, InFrame, ContentFollows, ShadedFollows
  <2> QED BY <2>4, <2>5 DEF SInv
<1> QED BY <1>3, <1>4

LEMMA HandleExpectedUnmapSettles == IInv /\ SInv /\ HandleExpectedUnmap => SInv'
<1> SUFFICES ASSUME IInv, SInv, HandleExpectedUnmap PROVE SInv'
  OBVIOUS
<1>1. PICK event \in Notifications : Handles(event)
  BY DEF HandleExpectedUnmap, Notifications
<1>2. /\ server' = server /\ visible' = visible /\ requests' = requests
      /\ client' = [client EXCEPT !.expected = client.expected - 1]
  BY <1>1 DEF Handles, HandleExpectedUnmap
<1>3. /\ Notified(events) \in Nat /\ Notified(events') \in Nat
      /\ Notified(events) = Notified(events') + 1
      /\ Occurs(events', "destroy") <=> Occurs(events, "destroy")
  <2>1. event # "destroy"
    BY <1>1 DEF Notifications
  <2> QED BY <1>1, <2>1, EventHandled DEF IInv
<1>4. client \in Clients
  BY DEF IInv, TypeOK, Clients
<1>5. /\ client'.expected = client.expected - 1 /\ client'.managed = client.managed
      /\ client'.iconic = client.iconic /\ client'.shaded = client.shaded
      /\ client'.starting = client.starting /\ client.expected \in Nat
  BY <1>2, <1>4 DEF Clients
<1>6. Notified(events) > client.expected => Notified(events') > client'.expected
  BY <1>3, <1>5
<1> QED BY <1>2, <1>3, <1>5, <1>6, EventsSettle

LEMMA HandleUnmapSettles == IInv /\ SInv /\ HandleUnmap => SInv'
<1> SUFFICES ASSUME IInv, SInv, HandleUnmap PROVE SInv'
  OBVIOUS
<1>1. server.exists \in BOOLEAN
  BY DEF IInv, TypeOK
<1> QED BY <1>1, UnmanageSettles DEF HandleUnmap

LEMMA HandleSyntheticUnmapSettles == IInv /\ SInv /\ HandleSyntheticUnmap => SInv'
<1> SUFFICES ASSUME IInv, SInv, HandleSyntheticUnmap PROVE SInv'
  OBVIOUS
<1>1. server.exists \in BOOLEAN /\ Handles("synthetic_unmap") /\ Asks
  BY DEF IInv, TypeOK, HandleSyntheticUnmap
<1>2. CASE ~ server.mapped
  BY <1>1, <1>2, UnmanageSettles DEF HandleSyntheticUnmap
<1>3. CASE server.mapped
  <2>1. /\ client' = client /\ visible' = visible /\ requests' = requests /\ server' = server
    BY <1>1, <1>3 DEF HandleSyntheticUnmap, Ignored, Handles
  <2>2. Occurs(events', "destroy") <=> Occurs(events, "destroy")
    BY <1>1, EventHandled DEF IInv
  <2>3. requests = <<>>
    BY <1>1 DEF Asks
  <2> QED BY <1>3, <2>1, <2>2, <2>3, EventsSettle
<1> QED BY <1>2, <1>3

LEMMA HandleDestroySettles == IInv /\ SInv /\ HandleDestroy => SInv'
<1> SUFFICES ASSUME IInv, SInv, HandleDestroy PROVE SInv'
  OBVIOUS
<1>1. Handles("destroy") /\ Unmanage(FALSE)
  BY DEF HandleDestroy
<1>2. ~ server.exists
  <2>1. Occurs(events, "destroy")
    BY <1>1, EventHandled DEF IInv
  <2> QED BY <2>1 DEF SInv, GoneIsTold
<1> QED BY <1>1, <1>2, UnmanageSettles

\* At the start the window is not managed, and has no frame.
LEMMA InitSettles == Init => SInv
<1> SUFFICES ASSUME Init PROVE SInv
  OBVIOUS
<1>1. /\ server.exists /\ server.parent = "root" /\ server.frame = "none"
      /\ client = NoClient /\ requests = <<>> /\ events = <<"adopt">>
  BY DEF Init
<1>2. ~ client.managed /\ ~ Present
  BY <1>1 DEF NoClient, Present
<1>3. ~ Occurs(events, "destroy")
  BY <1>1, OneRequest
<1>4. (\A S : NoneOf(requests, S)) /\ SelectFirst
  BY <1>1, LastEmpty DEF SelectFirst
<1> QED
  BY <1>1, <1>2, <1>3, <1>4
     DEF SInv, KeptRequests, FrameKept, FrameFollows, InFrame, FrameGoes, GivenBack, GoneIsTold,
         ContentFollows, ShadedFollows

\* Every step keeps what settles.
LEMMA NextSettles == IInv /\ SInv /\ [Next]_vars => SInv'
<1> SUFFICES ASSUME IInv, SInv, [Next]_vars PROVE SInv'
  OBVIOUS
<1>1. CASE ServerStep
  BY <1>1, ExecuteSettles DEF ServerStep
<1>2. CASE ProgramStep
  BY <1>2, AskingSettles, ProgramWithdrawsSettles, ProgramDestroysSettles DEF ProgramStep
<1>3. CASE ManagerStep
  BY <1>3, HandleMapRequestSettles, HandleAdoptSettles, StartShadedSettles, HandleDestroySettles,
     HandleExpectedUnmapSettles, HandleUnmapSettles, HandleSyntheticUnmapSettles,
     HandleShadeSettles, HandleIconifySettles, HandleSwitchSettles DEF ManagerStep
<1>4. CASE PersonStep
  BY <1>4, AskingSettles
<1>5. CASE UNCHANGED vars
  BY <1>5, EventsSettle DEF vars
<1> QED BY <1>1, <1>2, <1>3, <1>4, <1>5 DEF Next

\* Once everything under way has been carried out and handled, a managed window is in
\* its frame, the frame is on the screen exactly when it should be, and the window is
\* mapped or not as it should be; one that is not managed has no frame (map_frame,
\* set_shaded, iconify, restore, sync_workspace_visibility, unmanage).
THEOREM Settling == Spec => []VisibilitySettles
<1>1. ASSUME IInv, SInv
      PROVE  VisibilitySettles
  <2> SUFFICES ASSUME Settled PROVE VisibilitySettles
    BY DEF VisibilitySettles, FramesSettle, ContentSettles
  <2>1. /\ requests = <<>> /\ events = <<>> /\ ~ client.starting
        /\ client.expected \in Nat /\ server \in Windows
    BY <1>1 DEF Settled, IInv, TypeOK, Windows
  <2>2. /\ \A S, e : ~ LastOf(requests, S, e)
        /\ \A x : ~ Occurs(requests, x) /\ ~ Occurs(events, x)
    BY <2>1, LastEmpty, NothingUnderWay DEF Occurs
  <2>3. Notified(events) = 0
    <3>1. NotifiedAt(events) = {}
      BY <2>1 DEF NotifiedAt
    <3> QED BY <3>1, FS_EmptySet DEF Notified
  <2>4. client.managed => Present
    BY <1>1, <2>2 DEF SInv, GoneIsTold, Present
  <2>5. OnScreen <=> Shown(client)
    BY <2>1 DEF OnScreen
  <2>6. FramesSettle
    <3>1. ASSUME client.managed
          PROVE  /\ server.exists /\ server.parent = "frame"
                 /\ server.frame = IF Shown(client) THEN "mapped" ELSE "unmapped"
      BY <1>1, <2>2, <2>4, <2>5, <3>1 DEF SInv, InFrame, FrameFollows, Present
    <3>2. ASSUME ~ client.managed
          PROVE  server.frame = "none" /\ (server.exists => server.parent = "root")
      BY <1>1, <2>2, <3>2 DEF SInv, FrameGoes, GivenBack
    <3> QED BY <3>1, <3>2 DEF FramesSettle
  <2>7. ContentSettles
    BY <1>1, <2>1, <2>2, <2>3, <2>4, <2>5 DEF SInv, ContentFollows, ShadedFollows, ContentSettles
  <2> QED BY <2>6, <2>7 DEF VisibilitySettles
<1> QED BY <1>1, InitIInv, InitSettles, NextKeepsIInv, NextSettles, PTL DEF Spec

(* ---- Geometry ---- *)
\* A span whose end is a coordinate too.
WithinCoordinates(span) == span \in Spans /\ End(span) <= MaxCoordinate

-----------------------------------------------------------------------------
(* Numbers *)

\* Every coordinate is saturated into the range of the code's integers.
LEMMA ToCoordinateRange ==
    ASSUME NEW value \in Int
    PROVE  /\ ToCoordinate(value) \in Coordinates
           /\ value \in Coordinates => ToCoordinate(value) = value
    BY CoordinateAssumption
    DEF ToCoordinate, Clamped, Larger, Smaller, Coordinates, MinCoordinate

\* A finite set of integers has a greatest one: the one with the fewest above it.
LEMMA GreatestOne ==
    ASSUME NEW numbers \in SUBSET Int, IsFiniteSet(numbers), numbers # {}
    PROVE  /\ Max(numbers) \in numbers
           /\ \A number \in numbers : Max(numbers) >= number
<1> DEFINE above(number) == {other \in numbers : other > number}
           aboves == {above(number) : number \in numbers}
<1>1. aboves \subseteq FiniteSubsetsOf(numbers) /\ aboves # {}
  <2>1. \A number \in numbers : above(number) \in FiniteSubsetsOf(numbers)
    <3> SUFFICES ASSUME NEW number \in numbers
                 PROVE  above(number) \in FiniteSubsetsOf(numbers)
      OBVIOUS
    <3>1. above(number) \subseteq numbers
      OBVIOUS
    <3> HIDE DEF above
    <3> QED BY <3>1, FS_Subset DEF FiniteSubsetsOf
  <2> HIDE DEF above
  <2> QED BY <2>1
<1>2. IsWellFoundedOn(StrictSubsetOrdering(numbers), FiniteSubsetsOf(numbers))
    BY FS_StrictSubsetOrderingWellFounded
<1>3. PICK least \in aboves :
          \A other \in aboves : <<other, least>> \notin StrictSubsetOrdering(numbers)
  <2> HIDE DEF aboves
  <2> QED BY <1>1, <1>2, WFMin
<1>4. PICK greatest \in numbers : least = above(greatest)
    OBVIOUS
<1>5. \A number \in numbers : greatest >= number
  <2> SUFFICES ASSUME NEW number \in numbers, ~(greatest >= number) PROVE FALSE
    OBVIOUS
  <2>1. number > greatest
    OBVIOUS
  <2>2. above(number) \subseteq above(greatest)
    <3> SUFFICES ASSUME NEW other \in numbers, other > number
                 PROVE  other > greatest
      OBVIOUS
    <3> QED BY <2>1
  <2>3. number \in above(greatest) /\ number \notin above(number)
    BY <2>1
  <2>4. <<above(number), above(greatest)>> \in StrictSubsetOrdering(numbers)
    BY <2>2, <2>3 DEF StrictSubsetOrdering
  <2> QED BY <1>3, <1>4, <2>4
<1> QED BY <1>5 DEF Max

\* And a least one.
LEMMA LeastOne ==
    ASSUME NEW numbers \in SUBSET Int, IsFiniteSet(numbers), numbers # {}
    PROVE  /\ Min(numbers) \in numbers
           /\ \A number \in numbers : Min(numbers) <= number
<1> DEFINE below(number) == {other \in numbers : other < number}
           belows == {below(number) : number \in numbers}
<1>1. belows \subseteq FiniteSubsetsOf(numbers) /\ belows # {}
  <2>1. \A number \in numbers : below(number) \in FiniteSubsetsOf(numbers)
    <3> SUFFICES ASSUME NEW number \in numbers
                 PROVE  below(number) \in FiniteSubsetsOf(numbers)
      OBVIOUS
    <3>1. below(number) \subseteq numbers
      OBVIOUS
    <3> HIDE DEF below
    <3> QED BY <3>1, FS_Subset DEF FiniteSubsetsOf
  <2> HIDE DEF below
  <2> QED BY <2>1
<1>2. IsWellFoundedOn(StrictSubsetOrdering(numbers), FiniteSubsetsOf(numbers))
    BY FS_StrictSubsetOrderingWellFounded
<1>3. PICK least \in belows :
          \A other \in belows : <<other, least>> \notin StrictSubsetOrdering(numbers)
  <2> HIDE DEF belows
  <2> QED BY <1>1, <1>2, WFMin
<1>4. PICK lowest \in numbers : least = below(lowest)
    OBVIOUS
<1>5. \A number \in numbers : lowest <= number
  <2> SUFFICES ASSUME NEW number \in numbers, ~(lowest <= number) PROVE FALSE
    OBVIOUS
  <2>1. number < lowest
    OBVIOUS
  <2>2. below(number) \subseteq below(lowest)
    <3> SUFFICES ASSUME NEW other \in numbers, other < number
                 PROVE  other < lowest
      OBVIOUS
    <3> QED BY <2>1
  <2>3. number \in below(lowest) /\ number \notin below(number)
    BY <2>1
  <2>4. <<below(number), below(lowest)>> \in StrictSubsetOrdering(numbers)
    BY <2>2, <2>3 DEF StrictSubsetOrdering
  <2> QED BY <1>3, <1>4, <2>4
<1> QED BY <1>5 DEF Min

-----------------------------------------------------------------------------
(* Work areas *)

\* The work area of a span lies within it and keeps a pixel at least, however
\* deep the panels at its two ends are.
LEMMA WorkAreaSpanInside ==
    ASSUME NEW span, WithinCoordinates(span), NEW before \in Nat, NEW after \in Nat
    PROVE  /\ WorkAreaSpan(span, before, after) \in Spans
           /\ WorkAreaSpan(span, before, after).start >= span.start
           /\ End(WorkAreaSpan(span, before, after)) <= End(span)
    BY CoordinateAssumption
    DEF WithinCoordinates, WorkAreaSpan, Spans, Span, End, ToCoordinate, Clamped,
        Larger, Smaller, Coordinates, Lengths, MinCoordinate, MaxLength

\* What a panel may reserve at each edge.
Reservations ==
    [Directions -> [depth : Nat, start : Int, end : Int]]

LEMMA DepthIsLength ==
    ASSUME NEW rectangle, NEW reservations \in SUBSET Reservations,
           IsFiniteSet(reservations), NEW direction \in Directions
    PROVE  ReservedDepth(rectangle, reservations, direction) \in Nat
<1> DEFINE along == rectangle[Other(direction.axis)]
           reaching == {reservation \in reservations :
                           SpansOverlap(reservation[direction].start,
                                        reservation[direction].end,
                                        along.start, LastPoint(along))}
           reserved == {reservation[direction].depth : reservation \in reaching}
           depths == {0} \cup reserved
<1>1. IsFiniteSet(reaching)
    BY FS_Subset
<1>2. IsFiniteSet(reserved)
  <2> DEFINE f == [reservation \in reaching |-> reservation[direction].depth]
  <2>1. f \in Surjection(reaching, reserved)
      BY DEF Surjection
  <2> HIDE DEF f, reaching, reserved
  <2> QED BY <1>1, <2>1, FS_Surjection
<1>3. reserved \subseteq Nat
    BY DEF Reservations
<1>4. IsFiniteSet(depths) /\ depths \in SUBSET Int /\ depths # {} /\ depths \subseteq Nat
  <2> HIDE DEF reserved
  <2>1. IsFiniteSet(depths)
    BY <1>2, FS_AddElement
  <2> QED BY <1>3, <2>1
<1>5. Max(depths) \in depths
  <2> HIDE DEF depths
  <2> QED BY <1>4, GreatestOne
<1>6. ReservedDepth(rectangle, reservations, direction) = Max(depths)
    BY DEF ReservedDepth
<1> HIDE DEF depths
<1> QED BY <1>4, <1>5, <1>6

\* Geometry::work_area: whatever panels and margins reserve, a screen or an
\* output keeps a work area, and it lies within it.
THEOREM WorkAreaInside ==
    ASSUME NEW rectangle \in Rectangles, NEW reservations \in SUBSET Reservations,
           IsFiniteSet(reservations),
           \A axis \in Axes : WithinCoordinates(rectangle[axis])
    PROVE  /\ WorkArea(rectangle, reservations) \in Rectangles
           /\ Inside(rectangle, WorkArea(rectangle, reservations))
<1> DEFINE depth(axis, toward) ==
               ReservedDepth(rectangle, reservations, [axis |-> axis, toward |-> toward])
           area(axis) == WorkAreaSpan(rectangle[axis], depth(axis, "start"),
                                      depth(axis, "end"))
<1>1. \A axis \in Axes, toward \in {"start", "end"} : depth(axis, toward) \in Nat
  <2> SUFFICES ASSUME NEW axis \in Axes, NEW toward \in {"start", "end"}
               PROVE  depth(axis, toward) \in Nat
    OBVIOUS
  <2>1. [axis |-> axis, toward |-> toward] \in Directions
    BY DEF Axes, Directions, Left, Right, Up, Down
  <2> QED BY <2>1, DepthIsLength
<1>2. \A axis \in Axes : /\ area(axis) \in Spans
                         /\ area(axis).start >= rectangle[axis].start
                         /\ End(area(axis)) <= End(rectangle[axis])
    BY <1>1, WorkAreaSpanInside
<1>3. WorkArea(rectangle, reservations)
          = [horizontal |-> area("horizontal"), vertical |-> area("vertical")]
    BY DEF WorkArea, Both
<1> HIDE DEF area
<1> QED BY <1>2, <1>3 DEF Axes, Rectangles, Inside

-----------------------------------------------------------------------------
(* Placement *)

LEMMA ClampedSpanInside ==
    ASSUME NEW position \in Int, NEW bounds, WithinCoordinates(bounds),
           NEW length \in Lengths, length <= bounds.length
    PROVE  LET clamped == Span(ClampedStart(position, bounds, length), length)
           IN  /\ clamped \in Spans
               /\ clamped.start >= bounds.start
               /\ End(clamped) <= End(bounds)
               /\ /\ position >= bounds.start
                  /\ position + length <= End(bounds)
                  => clamped.start = position
    BY CoordinateAssumption
    DEF WithinCoordinates, ClampedStart, Less, Spans, Span, End, ToCoordinate, Clamped,
        Larger, Smaller, Coordinates, Lengths, MinCoordinate, MaxLength

Sizes == [horizontal : Lengths, vertical : Lengths]

AxisPlacements == [kind : {"keep", "start", "center", "end"}, amount : Int]

LEMMA PlaceAxisType ==
    ASSUME NEW current \in Int, NEW source \in Spans, NEW target \in Spans,
           NEW length \in Lengths, NEW placement \in AxisPlacements
    PROVE  PlaceAxis(current, source, target, length, placement) \in Int
<1> DEFINE spare == target.length - length
<1>1. /\ source.start \in Int /\ target.start \in Int /\ target.length \in Int
      /\ length \in Int /\ placement.amount \in Int
    BY CoordinateAssumption
    DEF Spans, Coordinates, Lengths, MinCoordinate, MaxLength, AxisPlacements
<1>2. \A value \in Int : Quotient(value, 2) \in Int
    BY DEF Quotient
<1>3. Quotient(spare, 2) \in Int
    BY <1>1, <1>2
<1>4. \A value \in Int : ToCoordinate(value) \in Int
    BY ToCoordinateRange, CoordinateAssumption DEF Coordinates, MinCoordinate
<1> QED BY <1>1, <1>3, <1>4 DEF PlaceAxis, AxisPlacements

\* Geometry::clamp_position: a rectangle that fits ends up inside the bounds.
LEMMA ClampPositionInside ==
    ASSUME NEW rectangle, NEW bounds \in Rectangles,
           \A axis \in Axes : /\ rectangle[axis].start \in Int
                              /\ rectangle[axis].length \in Lengths
                              /\ WithinCoordinates(bounds[axis])
                              /\ rectangle[axis].length <= bounds[axis].length
    PROVE  /\ ClampPosition(rectangle, bounds) \in Rectangles
           /\ Inside(bounds, ClampPosition(rectangle, bounds))
           /\ \A axis \in Axes : ClampPosition(rectangle, bounds)[axis].length
                                     = rectangle[axis].length
<1> DEFINE clamped(axis) ==
               Span(ClampedStart(rectangle[axis].start, bounds[axis],
                                 rectangle[axis].length),
                    rectangle[axis].length)
<1>1. \A axis \in Axes : /\ clamped(axis) \in Spans
                         /\ clamped(axis).start >= bounds[axis].start
                         /\ End(clamped(axis)) <= End(bounds[axis])
    BY ClampedSpanInside
<1>2. \A axis \in Axes : clamped(axis).length = rectangle[axis].length
    BY CoordinateAssumption DEF Span, Larger, Lengths, MaxLength
<1>3. ClampPosition(rectangle, bounds)
          = [horizontal |-> clamped("horizontal"), vertical |-> clamped("vertical")]
    BY DEF ClampPosition, Both
<1> HIDE DEF clamped
<1> QED BY <1>1, <1>2, <1>3 DEF Axes, Rectangles, Inside

\* move_resize_geometry, which every absolute action goes through: whatever
\* place is asked for, a rectangle that fits lies in the target's work area.
THEOREM MoveResizeInside ==
    ASSUME NEW current \in Rectangles, NEW source \in Rectangles, NEW target \in Rectangles,
           NEW size \in Sizes, NEW placements \in [Axes -> AxisPlacements],
           \A axis \in Axes : /\ WithinCoordinates(target[axis])
                              /\ size[axis] <= target[axis].length
    PROVE  /\ MoveResize(current, source, target, size, placements) \in Rectangles
           /\ Inside(target, MoveResize(current, source, target, size, placements))
<1> DEFINE start(axis) == PlaceAxis(current[axis].start, source[axis], target[axis],
                                    size[axis], placements[axis])
           required == Both(LAMBDA axis : Span(start(axis), size[axis]))
<1>1. \A axis \in Axes : /\ current[axis].start \in Int
                         /\ source[axis] \in Spans
                         /\ target[axis] \in Spans
                         /\ size[axis] \in Lengths
    BY CoordinateAssumption
    DEF Axes, Rectangles, Spans, Coordinates, MinCoordinate, Sizes
<1>2. \A axis \in Axes : start(axis) \in Int
    BY <1>1, PlaceAxisType
<1>3. \A axis \in Axes : Span(start(axis), size[axis])
                             = [start |-> start(axis), length |-> size[axis]]
    BY <1>1, CoordinateAssumption DEF Span, Larger, Lengths, MaxLength
<1>4. required = [horizontal |-> Span(start("horizontal"), size.horizontal),
                vertical |-> Span(start("vertical"), size.vertical)]
    BY DEF Both
<1>5. \A axis \in Axes : required[axis] = Span(start(axis), size[axis])
  <2> HIDE DEF start, required
  <2> QED BY <1>4 DEF Axes
<1>6. MoveResize(current, source, target, size, placements) = ClampPosition(required, target)
    BY DEF MoveResize
<1> HIDE DEF start, required
<1>7. \A axis \in Axes : /\ required[axis].start \in Int
                         /\ required[axis].length \in Lengths
                         /\ required[axis].length <= target[axis].length
  <2> SUFFICES ASSUME NEW axis \in Axes
               PROVE  /\ required[axis].start \in Int
                      /\ required[axis].length \in Lengths
                      /\ required[axis].length <= target[axis].length
    OBVIOUS
  <2>1. required[axis] = [start |-> start(axis), length |-> size[axis]]
    BY <1>3, <1>5
  <2> QED BY <1>1, <1>2, <2>1
<1> QED BY <1>6, <1>7, ClampPositionInside

-----------------------------------------------------------------------------
(* Resizes *)

\* What a client may say of its size; an increment or a base of zero on one
\* axis is possible, an aspect is a range of two ratios.
Ratios == [wide : Nat \ {0}, high : Nat \ {0}]

Hints == [minimum : Sizes \cup {NoSize}, maximum : Sizes \cup {NoSize},
          base : [horizontal : 0 .. MaxLength, vertical : 0 .. MaxLength],
          increment : [horizontal : 0 .. MaxLength, vertical : 0 .. MaxLength],
          aspect : {NoAspect} \cup [minimum : Ratios, maximum : Ratios]]

LEMMA ScaledHeightType ==
    ASSUME NEW width \in Nat, NEW ratio \in Ratios
    PROVE  ScaledHeight(width, ratio) \in Lengths
<1>1. width * ratio.high \in Nat /\ ratio.wide \in Nat \ {0}
    BY DEF Ratios
<1>2. (width * ratio.high) \div ratio.wide \in Int
  <2> DEFINE product == width * ratio.high
             divisor == ratio.wide
  <2>1. product \in Nat /\ divisor \in Nat \ {0}
    BY <1>1
  <2> HIDE DEF product, divisor
  <2>2. product \div divisor \in Int
    BY <2>1
  <2> QED BY <2>2 DEF product, divisor
<1> QED BY <1>2, CoordinateAssumption
    DEF ScaledHeight, Larger, Smaller, Lengths, MaxLength

LEMMA ClampedLength ==
    ASSUME NEW value \in Int, NEW low \in Lengths, NEW high \in Lengths
    PROVE  Clamped(value, low, high) \in Lengths
    BY CoordinateAssumption DEF Clamped, Larger, Smaller, Lengths, MaxLength

LEMMA ConstrainAspectType ==
    ASSUME NEW size \in Sizes, NEW base \in [horizontal : 0 .. MaxLength, vertical : 0 .. MaxLength],
           NEW range \in [minimum : Ratios, maximum : Ratios]
    PROVE  ConstrainAspect(size, base, range) \in Sizes
<1> DEFINE width == Larger(1, size.horizontal - base.horizontal)
           asked == Larger(1, size.vertical - base.vertical)
           lower == IF asked * range.minimum.wide > width * range.minimum.high
                    THEN ScaledHeight(width, range.minimum) ELSE asked
           height == IF lower * range.maximum.wide < width * range.maximum.high
                     THEN ScaledHeight(width, range.maximum) ELSE lower
<1>1. width \in Nat \ {0} /\ asked \in Nat \ {0}
    BY CoordinateAssumption DEF Larger, Sizes, Lengths, MaxLength
<1>2. range.minimum \in Ratios /\ range.maximum \in Ratios
    OBVIOUS
<1>3. \A length \in Lengths : length \in Nat \ {0}
    BY CoordinateAssumption DEF Lengths, MaxLength
<1> HIDE DEF width, asked
<1>4. lower \in Nat \ {0}
    BY <1>1, <1>2, <1>3, ScaledHeightType
<1> HIDE DEF lower
<1>5. height \in Nat \ {0}
    BY <1>1, <1>2, <1>3, <1>4, ScaledHeightType
<1> HIDE DEF height
<1>6. /\ Smaller(width + base.horizontal, MaxLength) \in Lengths
      /\ Smaller(height + base.vertical, MaxLength) \in Lengths
    BY <1>1, <1>5, CoordinateAssumption DEF Smaller, Lengths, MaxLength
<1>7. ConstrainAspect(size, base, range)
          = [horizontal |-> Smaller(width + base.horizontal, MaxLength),
             vertical |-> Smaller(height + base.vertical, MaxLength)]
    BY DEF ConstrainAspect, width, height, lower, asked
<1> QED BY <1>6, <1>7 DEF Sizes

LEMMA SnapDimensionType ==
    ASSUME NEW requested \in Int, NEW base \in Int, NEW increment \in Nat
    PROVE  SnapDimension(requested, base, increment) \in Int
<1> DEFINE steps == (requested - base) \div increment
<1>1. increment > 1 => steps \in Int
    OBVIOUS
<1> HIDE DEF steps
<1>2. increment > 1 => base + steps * increment \in Int
    BY <1>1
<1>3. SnapDimension(requested, base, increment)
          = IF increment <= 1 \/ requested <= base THEN requested
            ELSE Smaller(base + steps * increment, MaxLength)
    BY DEF SnapDimension, steps
<1>4. MaxLength \in Int
    BY CoordinateAssumption DEF MaxLength
<1> DEFINE snapped == base + steps * increment
<1>5. increment > 1 => Smaller(snapped, MaxLength) \in Int
  <2> HIDE DEF snapped
  <2> QED BY <1>2, <1>4 DEF Smaller, snapped
<1> HIDE DEF snapped
<1> QED BY <1>3, <1>5 DEF snapped

\* SizeHints::constrain: whatever the hints, the result is a size.
LEMMA ConstrainType ==
    ASSUME NEW hints \in Hints, NEW requested \in Sizes
    PROVE  Constrain(hints, requested) \in Sizes
<1> DEFINE minimum == Given(hints.minimum, OnePixel)
           top(axis) == IF hints.maximum = NoSize THEN MaxLength ELSE hints.maximum[axis]
           maximum == Both(LAMBDA axis : Larger(top(axis), minimum[axis]))
           base == Given(hints.base, minimum)
           fitted == Both(LAMBDA axis : Clamped(requested[axis], minimum[axis],
                                                maximum[axis]))
           snapped(axis) == SnapDimension(fitted[axis], base[axis], hints.increment[axis])
           stepped == IF hints.increment = NoSize THEN fitted
                      ELSE Both(LAMBDA axis : Clamped(snapped(axis), minimum[axis],
                                                      maximum[axis]))
<1>1. 1 \in Lengths /\ MaxLength \in Lengths
    BY CoordinateAssumption DEF Lengths, MaxLength
<1>2. minimum \in Sizes
    BY <1>1 DEF Given, OnePixel, Both, Hints, Sizes
<1>3. \A axis \in Axes : top(axis) \in Lengths
    BY <1>1 DEF Hints, Sizes, Axes
<1>4. \A one, other \in Lengths : Larger(one, other) \in Lengths
    BY DEF Larger
<1> HIDE DEF minimum, top
<1>5. \A axis \in Axes : minimum[axis] \in Lengths
    BY <1>2 DEF Sizes, Axes
<1>6. maximum \in Sizes
    BY <1>3, <1>4, <1>5 DEF Both, Sizes, Axes
<1>7. base \in [horizontal : Nat, vertical : Nat]
    BY <1>2, CoordinateAssumption DEF Given, Hints, Sizes, Lengths, MaxLength
<1> HIDE DEF maximum, base
<1>8. \A axis \in Axes : /\ maximum[axis] \in Lengths
                         /\ requested[axis] \in Lengths
                         /\ base[axis] \in Int
                         /\ hints.increment[axis] \in Nat
    BY <1>6, <1>7, CoordinateAssumption DEF Sizes, Axes, Hints, MaxLength
<1>9. \A axis \in Axes : Clamped(requested[axis], minimum[axis], maximum[axis]) \in Lengths
  <2>1. \A axis \in Axes : requested[axis] \in Int
    BY <1>8, CoordinateAssumption DEF Lengths, MaxLength
  <2> QED BY <1>5, <1>8, <2>1, ClampedLength
<1>10. fitted \in Sizes
    BY <1>9 DEF Both, Sizes, Axes
<1> HIDE DEF fitted
<1>11. \A axis \in Axes : fitted[axis] \in Int
    BY <1>10, CoordinateAssumption DEF Sizes, Axes, Lengths, MaxLength
<1>12. \A axis \in Axes : snapped(axis) \in Int
    BY <1>8, <1>11, SnapDimensionType
<1> HIDE DEF snapped
<1>13. \A axis \in Axes : Clamped(snapped(axis), minimum[axis], maximum[axis]) \in Lengths
    BY <1>5, <1>8, <1>12, ClampedLength
<1>14. stepped \in Sizes
    BY <1>10, <1>13 DEF Both, Sizes, Axes
<1>15. Constrain(hints, requested)
           = IF hints.aspect = NoAspect THEN stepped
             ELSE ConstrainAspect(stepped, hints.base, hints.aspect)
    BY DEF Constrain, stepped, snapped, fitted, base, maximum, top, minimum
<1> HIDE DEF stepped
<1>16. hints.aspect # NoAspect => hints.aspect \in [minimum : Ratios, maximum : Ratios]
    BY DEF Hints
<1>17. hints.base \in [horizontal : 0 .. MaxLength, vertical : 0 .. MaxLength]
    BY DEF Hints
<1> QED BY <1>14, <1>15, <1>16, <1>17, ConstrainAspectType

\* The drag that resizes, of either backend: whatever the pointer does and the
\* hints ask for, an edge that is not dragged stays where it was, as long as the
\* window is not at the end of the coordinates.
THEOREM ResizeDragKeepsAnchor ==
    ASSUME NEW initial \in Rectangles, NEW edges \in SUBSET Directions,
           NEW delta \in [Axes -> Int], NEW bounds \in Rectangles, NEW resistance \in Nat,
           NEW hints \in Hints, NEW allowed \in Sizes,
           NEW axis \in Axes,
           initial[axis].length <= MaxCoordinate,
           End(initial[axis]) <= MaxCoordinate,
           allowed[axis] <= MaxCoordinate,
           End(initial[axis]) - allowed[axis] >= MinCoordinate
    PROVE  LET resized == ResizeDrag(initial, edges, delta, bounds, resistance, hints,
                                     allowed)[axis]
           IN  /\ resized.length \in 1 .. allowed[axis]
               /\ IF [axis |-> axis, toward |-> "start"] \in edges
                  THEN End(resized) = End(initial[axis])
                  ELSE resized.start = initial[axis].start
<1> DEFINE pointed == PointerResize(initial, edges, delta, bounds, resistance)
           size == Constrain(hints, SizeOf(pointed))
           length(a) == Smaller(size[a], allowed[a])
           initialEnd(a) == ToCoordinate(initial[a].start
                                         + Smaller(initial[a].length, MaxCoordinate))
           span(a) == Span(IF [axis |-> a, toward |-> "start"] \in edges
                           THEN ToCoordinate(initialEnd(a) - Smaller(length(a), MaxCoordinate))
                           ELSE pointed[a].start,
                           length(a))
           side(a, toward) == DraggedSide(initial, edges, delta, bounds, resistance,
                                          [axis |-> a, toward |-> toward])
           near(a) == ToCoordinate(side(a, "start"))
           long(a) == ToLength(side(a, "end") - side(a, "start"))
<1>1. \A a \in Axes : /\ initial[a] \in Spans /\ bounds[a] \in Spans
                      /\ delta[a] \in Int /\ allowed[a] \in Lengths
    BY DEF Axes, Rectangles, Sizes
<1>2. \A a \in Axes, toward \in {"start", "end"} : side(a, toward) \in Int
  <2> SUFFICES ASSUME NEW a \in Axes, NEW toward \in {"start", "end"}
               PROVE  side(a, toward) \in Int
    OBVIOUS
  <2> QED BY <1>1, CoordinateAssumption
      DEF DraggedSide, Side, End, Spans, Coordinates, Lengths, MinCoordinate, MaxLength
<1>3. [axis |-> axis, toward |-> "start"] \notin edges => side(axis, "start") = initial[axis].start
    BY DEF DraggedSide, Side
<1> HIDE DEF side
<1>4. \A a \in Axes : near(a) \in Coordinates /\ long(a) \in Lengths
    BY <1>2, CoordinateAssumption
    DEF ToCoordinate, ToLength, Clamped, Larger, Smaller, Coordinates, Lengths,
        MinCoordinate, MaxLength
<1>5. pointed = [horizontal |-> Span(near("horizontal"), long("horizontal")),
                 vertical |-> Span(near("vertical"), long("vertical"))]
    BY DEF PointerResize, Both, side
<1> HIDE DEF near, long, pointed
<1>6. \A a \in Axes : pointed[a].start = near(a) /\ pointed[a].length \in Lengths
    BY <1>4, <1>5, CoordinateAssumption DEF Span, Larger, Axes, Lengths, MaxLength
<1>7. SizeOf(pointed) \in Sizes
    BY <1>6 DEF SizeOf, Both, Sizes, Axes
<1>8. size \in Sizes
    BY <1>7, ConstrainType
<1> HIDE DEF size
<1>9. length(axis) \in 1 .. allowed[axis]
    BY <1>1, <1>8, CoordinateAssumption DEF Smaller, Sizes, Axes, Lengths, MaxLength
<1> HIDE DEF length
<1>10. ResizeDrag(initial, edges, delta, bounds, resistance, hints, allowed)[axis] = span(axis)
    BY DEF ResizeDrag, Both, Axes, size, pointed, length
<1>11. span(axis).length = length(axis)
    BY <1>1, <1>9, CoordinateAssumption DEF Span, Larger, Lengths, MaxLength
<1>12. initialEnd(axis) = End(initial[axis])
    BY <1>1, CoordinateAssumption
    DEF Smaller, End, ToCoordinate, Clamped, Larger, Spans, Coordinates, Lengths,
        MinCoordinate, MaxLength
<1>13. ToCoordinate(End(initial[axis]) - Smaller(length(axis), MaxCoordinate))
           = End(initial[axis]) - length(axis)
    BY <1>1, <1>9, CoordinateAssumption
    DEF Smaller, End, ToCoordinate, Clamped, Larger, Spans, Coordinates, Lengths,
        MinCoordinate, MaxLength
<1>14. CASE [axis |-> axis, toward |-> "start"] \in edges
  <2>1. span(axis).start = End(initial[axis]) - length(axis)
    BY <1>12, <1>13, <1>14 DEF Span
  <2>2. End(initial[axis]) \in Int /\ length(axis) \in Int
    BY <1>1, <1>9, CoordinateAssumption
    DEF End, Spans, Coordinates, Lengths, MinCoordinate, MaxLength
  <2>3. End(span(axis)) = End(initial[axis])
    <3> HIDE DEF span
    <3> QED BY <1>11, <2>1, <2>2 DEF End
  <2> QED BY <1>9, <1>10, <1>11, <1>14, <2>3
<1>15. CASE [axis |-> axis, toward |-> "start"] \notin edges
  <2>1. near(axis) = initial[axis].start
    BY <1>1, <1>3, <1>15, ToCoordinateRange, CoordinateAssumption
    DEF near, Spans, Coordinates, MinCoordinate
  <2>2. span(axis).start = initial[axis].start
    BY <1>6, <1>15, <2>1 DEF Span
  <2> QED BY <1>9, <1>10, <1>11, <1>15, <2>2
<1> QED BY <1>14, <1>15

-----------------------------------------------------------------------------
(* Moving and growing to the next edge *)

\* What is met first of a finite set of coordinates.
LEMMA FirstMetIsFirst ==
    ASSUME NEW coordinates \in SUBSET Int, IsFiniteSet(coordinates), coordinates # {},
           NEW direction \in Directions
    PROVE  /\ FirstMet(coordinates, direction) \in coordinates
           /\ \A coordinate \in coordinates :
                 ~Beyond(coordinate, FirstMet(coordinates, direction), direction)
<1>1. /\ Max(coordinates) \in coordinates
      /\ \A coordinate \in coordinates : Max(coordinates) >= coordinate
    BY GreatestOne
<1>2. /\ Min(coordinates) \in coordinates
      /\ \A coordinate \in coordinates : Min(coordinates) <= coordinate
    BY LeastOne
<1>3. CASE direction.toward = "start"
  <2>1. FirstMet(coordinates, direction) = Max(coordinates)
    BY <1>3 DEF FirstMet
  <2>2. ASSUME NEW coordinate \in coordinates
        PROVE  ~Beyond(coordinate, Max(coordinates), direction)
    <3> DEFINE most == Max(coordinates)
    <3>1. most \in Int /\ coordinate \in Int /\ most >= coordinate
      BY <1>1
    <3> HIDE DEF most
    <3>2. ~Beyond(coordinate, most, direction)
      BY <1>3, <3>1 DEF Beyond
    <3> QED BY <3>2 DEF most
  <2> QED BY <1>1, <2>1, <2>2
<1>4. CASE direction.toward # "start"
  <2>1. FirstMet(coordinates, direction) = Min(coordinates)
    BY <1>4 DEF FirstMet
  <2>2. ASSUME NEW coordinate \in coordinates
        PROVE  ~Beyond(coordinate, Min(coordinates), direction)
    <3> DEFINE most == Min(coordinates)
    <3>1. most \in Int /\ coordinate \in Int /\ most <= coordinate
      BY <1>2
    <3> HIDE DEF most
    <3>2. ~Beyond(coordinate, most, direction)
      BY <1>4, <3>1 DEF Beyond
    <3> QED BY <3>2 DEF most
  <2> QED BY <1>2, <2>1, <2>2
<1> QED BY <1>3, <1>4

LEMMA NearestEdgeBetween ==
    ASSUME NEW current \in Int, NEW boundary \in Int, NEW direction \in Directions,
           NEW candidates \in SUBSET Int, IsFiniteSet(candidates)
    PROVE  LET met == NearestEdge(current, boundary, candidates, direction)
           IN  /\ met \in Int
               /\ ~Beyond(current, boundary, direction) => met = current
               /\ Beyond(current, boundary, direction) =>
                     /\ Beyond(current, met, direction)
                     /\ ~Beyond(boundary, met, direction)
                     /\ \A candidate \in candidates :
                           Beyond(current, candidate, direction) =>
                               ~Beyond(candidate, met, direction)
<1> DEFINE met == NearestEdge(current, boundary, candidates, direction)
           ahead == {candidate \in candidates :
                        /\ Beyond(current, candidate, direction)
                        /\ ~Beyond(boundary, candidate, direction)}
           stops == ahead \cup {boundary}
<1>1. direction.toward \in {"start", "end"}
    BY DEF Directions, Left, Right, Up, Down
<1>2. IsFiniteSet(ahead) /\ ahead \subseteq Int
    BY FS_Subset
<1>3. /\ \A stop \in ahead : stop \in candidates
      /\ \A stop \in ahead : Beyond(current, stop, direction)
      /\ \A stop \in ahead : ~Beyond(boundary, stop, direction)
      /\ \A candidate \in candidates :
            /\ Beyond(current, candidate, direction)
            /\ ~Beyond(boundary, candidate, direction)
            => candidate \in ahead
    BY DEF Beyond
<1>4. NearestEdge(current, boundary, candidates, direction)
          = IF ~Beyond(current, boundary, direction) THEN current
            ELSE FirstMet({boundary} \cup ahead, direction)
    BY DEF NearestEdge
<1>5. {boundary} \cup ahead = stops
    OBVIOUS
<1> HIDE DEF ahead
<1>6. IsFiniteSet(stops) /\ stops \in SUBSET Int /\ stops # {}
    BY <1>2, FS_AddElement
<1>7. /\ FirstMet(stops, direction) \in stops
      /\ \A stop \in stops : ~Beyond(stop, FirstMet(stops, direction), direction)
  <2> HIDE DEF stops
  <2> QED BY <1>6, FirstMetIsFirst
<1>8. boundary \in stops /\ \A stop \in ahead : stop \in stops
    OBVIOUS
<1>9. CASE ~Beyond(current, boundary, direction)
    BY <1>4, <1>9
<1>10. CASE Beyond(current, boundary, direction)
  <2> DEFINE first == FirstMet(stops, direction)
  <2>1. met = first
    BY <1>4, <1>5, <1>10
  <2>2. first \in Int /\ (first = boundary \/ first \in ahead)
    BY <1>6, <1>7
  <2>3. ~Beyond(boundary, first, direction)
    BY <1>7, <1>8
  <2>4. Beyond(current, first, direction)
    BY <1>3, <1>10, <2>2
  <2>5. \A candidate \in candidates :
            Beyond(current, candidate, direction) => ~Beyond(candidate, first, direction)
    <3> SUFFICES ASSUME NEW candidate \in candidates, Beyond(current, candidate, direction)
                 PROVE  ~Beyond(candidate, first, direction)
      OBVIOUS
    <3>1. CASE candidate \in ahead
      BY <1>7, <1>8, <3>1
    <3>2. CASE Beyond(boundary, candidate, direction)
      <4> HIDE DEF first
      <4> QED BY <1>1, <2>2, <2>3, <3>2 DEF Beyond
    <3> QED BY <1>3, <3>1, <3>2
  <2> HIDE DEF first, met
  <2>6. Beyond(current, met, direction) /\ ~Beyond(boundary, met, direction) /\ met \in Int
    BY <2>1, <2>2, <2>3, <2>4
  <2> QED BY <1>10, <2>1, <2>5, <2>6 DEF met
<1> QED BY <1>9, <1>10

LEMMA OtherAxis ==
    ASSUME NEW axis \in Axes
    PROVE  /\ Other(axis) \in Axes
           /\ Other(axis) # axis
           /\ Axes = {axis, Other(axis)}
<1>1. \E other \in Axes : other # axis
    BY DEF Axes
<1> QED BY <1>1 DEF Other, Axes

\* A side moved outward takes its place and leaves everything else.
LEMMA SideMoved ==
    ASSUME NEW rectangle \in Rectangles, NEW direction \in Directions, NEW target \in Int,
           WithinCoordinates(rectangle[direction.axis]),
           IF direction.toward = "start"
           THEN MinCoordinate <= target /\ target <= rectangle[direction.axis].start
           ELSE End(rectangle[direction.axis]) <= target /\ target <= MaxCoordinate
    PROVE  LET grown == WithSide(rectangle, direction, target)
               axis == direction.axis
           IN  /\ grown \in Rectangles
               /\ grown[Other(axis)] = rectangle[Other(axis)]
               /\ grown[axis].start = IF direction.toward = "start" THEN target
                                      ELSE rectangle[axis].start
               /\ End(grown[axis]) = IF direction.toward = "start" THEN End(rectangle[axis])
                                     ELSE target
<1> DEFINE axis == direction.axis
           span == rectangle[axis]
           moved == IF direction.toward = "start"
                    THEN Span(ToCoordinate(target), ToLength(End(span) - target))
                    ELSE Span(span.start, ToLength(target - span.start))
<1>1. axis \in Axes
    BY DEF Axes, Directions, Left, Right, Up, Down
<1>2. span \in Spans /\ rectangle[Other(axis)] \in Spans
    BY <1>1, OtherAxis DEF Axes, Rectangles
<1>3. /\ moved \in Spans
      /\ moved.start = IF direction.toward = "start" THEN target ELSE span.start
      /\ End(moved) = IF direction.toward = "start" THEN End(span) ELSE target
  <2>1. CASE direction.toward = "start"
    BY <1>2, <2>1, CoordinateAssumption
    DEF WithinCoordinates, Span, End, ToCoordinate, ToLength, Clamped, Larger, Smaller,
        Spans, Coordinates, Lengths, MinCoordinate, MaxLength
  <2>2. CASE direction.toward # "start"
    BY <1>2, <2>2, CoordinateAssumption
    DEF WithinCoordinates, Span, End, ToCoordinate, ToLength, Clamped, Larger, Smaller,
        Spans, Coordinates, Lengths, MinCoordinate, MaxLength
  <2> QED BY <2>1, <2>2
<1>4. WithSide(rectangle, direction, target) = [rectangle EXCEPT ![axis] = moved]
    BY DEF WithSide
<1> HIDE DEF moved
<1> DEFINE grown == [rectangle EXCEPT ![axis] = moved]
<1>5. /\ grown[axis] = moved
      /\ grown[Other(axis)] = rectangle[Other(axis)]
      /\ grown \in Rectangles
  <2>1. CASE axis = "horizontal"
    BY <1>1, <1>3, <2>1, OtherAxis DEF Rectangles, Axes
  <2>2. CASE axis = "vertical"
    BY <1>1, <1>3, <2>2, OtherAxis DEF Rectangles, Axes
  <2> QED BY <1>1, <2>1, <2>2 DEF Axes
<1> QED BY <1>3, <1>4, <1>5

\* On half-open spans, standing beside each other is overlapping.
LEMMA BesideOverlaps ==
    ASSUME NEW one, NEW other, WithinCoordinates(one), WithinCoordinates(other)
    PROVE  Beside(one, other) <=> one.start < End(other) /\ End(one) > other.start
    BY CoordinateAssumption
    DEF WithinCoordinates, Beside, SpansOverlap, LastPoint, End, ToCoordinate, Clamped,
        Larger, Smaller, Spans, Coordinates, Lengths, MinCoordinate, MaxLength

LEMMA EdgeCandidatesFinite ==
    ASSUME NEW rectangle \in Rectangles, NEW axis \in Axes,
           NEW obstacles \in SUBSET Rectangles, IsFiniteSet(obstacles)
    PROVE  LET candidates == EdgeCandidates(rectangle, obstacles, axis)
           IN  /\ candidates \in SUBSET Int
               /\ IsFiniteSet(candidates)
               /\ \A obstacle \in InTheWay(rectangle, obstacles, axis) :
                     obstacle[axis].start \in candidates /\ End(obstacle[axis]) \in candidates
<1> DEFINE inTheWay == InTheWay(rectangle, obstacles, axis)
           edges(obstacle) == {obstacle[axis].start, End(obstacle[axis])}
           sets == {edges(obstacle) : obstacle \in inTheWay}
<1>1. inTheWay \subseteq obstacles
    BY DEF InTheWay
<1>2. IsFiniteSet(inTheWay)
  <2> HIDE DEF inTheWay
  <2> QED BY <1>1, FS_Subset
<1> HIDE DEF inTheWay
<1>3. \A obstacle \in inTheWay : edges(obstacle) \subseteq Int /\ IsFiniteSet(edges(obstacle))
  <2> SUFFICES ASSUME NEW obstacle \in inTheWay
               PROVE  edges(obstacle) \subseteq Int /\ IsFiniteSet(edges(obstacle))
    OBVIOUS
  <2>1. obstacle[axis] \in Spans
    BY <1>1 DEF Rectangles, Axes
  <2>2. obstacle[axis].start \in Int /\ End(obstacle[axis]) \in Int
    BY <2>1, CoordinateAssumption
    DEF Spans, End, Coordinates, Lengths, MinCoordinate, MaxLength
  <2>3. IsFiniteSet({obstacle[axis].start})
    BY FS_Singleton
  <2>4. edges(obstacle) = {obstacle[axis].start} \cup {End(obstacle[axis])}
    OBVIOUS
  <2>5. IsFiniteSet({obstacle[axis].start} \cup {End(obstacle[axis])})
    BY <2>3, FS_AddElement
  <2> QED BY <2>2, <2>4, <2>5
<1>4. IsFiniteSet(sets)
  <2> DEFINE f == [obstacle \in inTheWay |-> edges(obstacle)]
  <2>1. f \in Surjection(inTheWay, sets)
    BY DEF Surjection
  <2> HIDE DEF f, sets
  <2> QED BY <1>2, <2>1, FS_Surjection
<1>5. \A set \in sets : set \subseteq Int /\ IsFiniteSet(set)
    BY <1>3
<1>6. \A obstacle \in inTheWay : edges(obstacle) \in sets
    OBVIOUS
<1>7. EdgeCandidates(rectangle, obstacles, axis) = UNION sets
    BY DEF EdgeCandidates, inTheWay
<1>8. IsFiniteSet(UNION sets) /\ UNION sets \subseteq Int
  <2> HIDE DEF sets
  <2> QED BY <1>4, <1>5, FS_UNION
<1>9. \A obstacle \in inTheWay :
          obstacle[axis].start \in UNION sets /\ End(obstacle[axis]) \in UNION sets
  <2> HIDE DEF sets
  <2> QED BY <1>6
<1> HIDE DEF sets
<1> QED BY <1>7, <1>8, <1>9 DEF inTheWay

Free(rectangle, obstacles) ==
    \A obstacle \in obstacles : ~Intersects(rectangle, obstacle)

\* directional_grow_geometry, where edges that are touched stop it: growing one
\* side up to the next edge keeps the window inside the bounds, gives up nothing
\* and, whatever other windows there are, covers none that was clear of it.
THEOREM GrowthCoversNothing ==
    ASSUME NEW rectangle \in Rectangles, NEW bounds \in Rectangles,
           NEW obstacles \in SUBSET Rectangles, IsFiniteSet(obstacles),
           \A axis \in Axes : WithinCoordinates(rectangle[axis]),
           \A axis \in Axes : WithinCoordinates(bounds[axis]),
           \A obstacle \in obstacles, axis \in Axes : WithinCoordinates(obstacle[axis]),
           Inside(bounds, rectangle), Free(rectangle, obstacles),
           NEW direction \in Directions
    PROVE  LET grown == DirectionalGrow(rectangle, bounds, obstacles, direction, Stop)
           IN  /\ Inside(bounds, grown)
               /\ Inside(grown, rectangle)
               /\ Free(grown, obstacles)
<1> DEFINE axis == direction.axis
           side == Side(rectangle, direction)
           boundary == Side(bounds, direction)
           candidates == EdgeCandidates(rectangle, obstacles, axis)
           met == NearestEdge(side, boundary, candidates, direction)
           grown == WithSide(rectangle, direction, met)
<1>1. /\ axis \in Axes
      /\ Other(axis) \in Axes
      /\ Other(axis) # axis
      /\ Axes = {axis, Other(axis)}
      /\ direction.toward \in {"start", "end"}
    BY OtherAxis DEF Axes, Directions, Left, Right, Up, Down
<1>2. \A r \in Rectangles, a \in Axes : /\ r[a] \in Spans
                                        /\ r[a].start \in Int
                                        /\ r[a].length \in Int
                                        /\ End(r[a]) \in Int
    BY CoordinateAssumption
    DEF Rectangles, Axes, Spans, End, Coordinates, Lengths, MinCoordinate, MaxLength
<1>3. side \in Int /\ boundary \in Int
    BY <1>1, <1>2 DEF Side
<1>4. /\ candidates \in SUBSET Int
      /\ IsFiniteSet(candidates)
      /\ \A obstacle \in InTheWay(rectangle, obstacles, axis) :
            obstacle[axis].start \in candidates /\ End(obstacle[axis]) \in candidates
    BY <1>1, EdgeCandidatesFinite
<1> HIDE DEF candidates
<1>5. \A a \in Axes : /\ rectangle[a].start >= bounds[a].start
                      /\ End(rectangle[a]) <= End(bounds[a])
    BY DEF Inside
<1>6. DirectionalGrow(rectangle, bounds, obstacles, direction, Stop)
          = IF side \in candidates \cup {boundary} THEN rectangle ELSE grown
    BY DEF DirectionalGrow, candidates
<1>7. CASE side \in candidates \cup {boundary}
  <2>1. Inside(rectangle, rectangle)
    BY <1>2 DEF Inside
  <2> QED BY <1>6, <1>7, <2>1
<1>8. CASE side \notin candidates \cup {boundary}
  <2>1. Beyond(side, boundary, direction)
    BY <1>1, <1>2, <1>3, <1>5, <1>8 DEF Beyond, Side
  <2>2. /\ met \in Int
        /\ Beyond(side, met, direction)
        /\ ~Beyond(boundary, met, direction)
        /\ \A candidate \in candidates : Beyond(side, candidate, direction) =>
                                             ~Beyond(candidate, met, direction)
    BY <1>3, <1>4, <2>1, NearestEdgeBetween
  <2> HIDE DEF met
  <2>3. IF direction.toward = "start"
        THEN met < rectangle[axis].start /\ bounds[axis].start <= met
        ELSE End(rectangle[axis]) < met /\ met <= End(bounds[axis])
    BY <1>1, <1>2, <2>2 DEF Beyond, Side
  <2>4. IF direction.toward = "start"
        THEN MinCoordinate <= met /\ met <= rectangle[axis].start
        ELSE End(rectangle[axis]) <= met /\ met <= MaxCoordinate
    BY <1>1, <1>2, <2>2, <2>3, CoordinateAssumption
    DEF WithinCoordinates, Spans, Coordinates, MinCoordinate
  <2>5. /\ grown \in Rectangles
        /\ grown[Other(axis)] = rectangle[Other(axis)]
        /\ grown[axis].start = IF direction.toward = "start" THEN met
                               ELSE rectangle[axis].start
        /\ End(grown[axis]) = IF direction.toward = "start" THEN End(rectangle[axis])
                              ELSE met
    BY <1>1, <2>2, <2>4, SideMoved
  <2> HIDE DEF grown
  <2>6. Inside(bounds, grown) /\ Inside(grown, rectangle)
    BY <1>1, <1>2, <1>5, <2>2, <2>3, <2>5 DEF Inside
  <2>7. ASSUME NEW obstacle \in obstacles
        PROVE  ~Intersects(grown, obstacle)
    <3>1. /\ obstacle[axis].start \in Int /\ End(obstacle[axis]) \in Int
          /\ ~Intersects(rectangle, obstacle)
      BY <1>1, <1>2 DEF Free
    <3>2. CASE obstacle \in InTheWay(rectangle, obstacles, axis)
      <4>1. Beside(rectangle[Other(axis)], obstacle[Other(axis)])
        BY <3>2 DEF InTheWay
      <4>2. /\ rectangle[Other(axis)].start < End(obstacle[Other(axis)])
            /\ End(rectangle[Other(axis)]) > obstacle[Other(axis)].start
        BY <1>1, <4>1, BesideOverlaps
      <4>3. ~(/\ rectangle[axis].start < End(obstacle[axis])
              /\ End(rectangle[axis]) > obstacle[axis].start)
        BY <1>1, <3>1, <4>2 DEF Intersects
      <4>4. obstacle[axis].start \in candidates /\ End(obstacle[axis]) \in candidates
        BY <1>4, <3>2
      <4>5. ~(/\ grown[axis].start < End(obstacle[axis])
              /\ End(grown[axis]) > obstacle[axis].start)
        <5>1. CASE direction.toward = "start"
          BY <1>1, <1>2, <1>8, <2>2, <2>3, <2>5, <3>1, <4>3, <4>4, <5>1 DEF Beyond, Side
        <5>2. CASE direction.toward # "start"
          BY <1>1, <1>2, <1>8, <2>2, <2>3, <2>5, <3>1, <4>3, <4>4, <5>2 DEF Beyond, Side
        <5> QED BY <5>1, <5>2
      <4> QED BY <1>1, <4>5 DEF Intersects
    <3>3. CASE obstacle \notin InTheWay(rectangle, obstacles, axis)
      <4>1. ~Beside(rectangle[Other(axis)], obstacle[Other(axis)])
        BY <3>3 DEF InTheWay
      <4>2. ~(/\ rectangle[Other(axis)].start < End(obstacle[Other(axis)])
              /\ End(rectangle[Other(axis)]) > obstacle[Other(axis)].start)
        BY <1>1, <4>1, BesideOverlaps
      <4> QED BY <1>1, <2>5, <4>2 DEF Intersects
    <3> QED BY <3>2, <3>3
  <2> QED BY <1>6, <1>8, <2>6, <2>7 DEF Free
<1> QED BY <1>7, <1>8
=============================================================================

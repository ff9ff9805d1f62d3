---------------------------- MODULE EventStream ----------------------------
(***************************************************************************)
(* What a subscribed session is promised about its events, without a       *)
(* queue, a transport or a window manager: "An agent snapshots at sequence *)
(* N and applies events N+1, N+2, ... to stay consistent" (docs/           *)
(* agent-protocol.md), or is told to start over.  AgentEvents shows that   *)
(* the window manager keeps this promise to every session.                 *)
(***************************************************************************)
EXTENDS Integers, SequencesExt

VARIABLES
    stamp,    \* the changes the session could observe; -1 while it is not served
    on,       \* whether it has subscribed
    unread,   \* what is on its way to the session, oldest first
    at,       \* the changes the session knows
    lost      \* whether it has to take a snapshot first

vars == <<stamp, on, unread, at, lost>>

Event(n) == [what |-> "event", n |-> n]

SnapshotAt(n) == [what |-> "snapshot", n |-> n]

Resync == [what |-> "resync", n |-> 0]

\* A session that has just been greeted, or is about to be, knows nothing.
Fresh == on = FALSE /\ unread = <<>> /\ at = 0 /\ lost = TRUE

Init == stamp \in {-1, 0} /\ Fresh

Begin == stamp = -1 /\ Fresh /\ stamp' = 0 /\ UNCHANGED <<on, unread, at, lost>>

\* Changes happen before the session subscribes.
Ignore == ~ on /\ stamp >= 0 /\ stamp' > stamp /\ UNCHANGED <<on, unread, at, lost>>

\* Changes happen, and the session will be told of each of them.
Tell ==
    /\ on /\ stamp >= 0
    /\ stamp' > stamp
    /\ unread' = unread \o [i \in 1..(stamp' - stamp) |-> Event(stamp + i)]
    /\ UNCHANGED <<on, at, lost>>

\* Changes happen and the session will not be told of all of them.  The last thing
\* on its way is then the notice.
Lose ==
    /\ on /\ stamp >= 0
    /\ stamp' > stamp
    /\ \E kept \in 0..Len(unread) : unread' = Append(SubSeq(unread, 1, kept), Resync)
    /\ UNCHANGED <<on, at, lost>>

\* A snapshot may overtake the events that wait, never the changes that happened.
Look ==
    /\ stamp >= 0
    /\ \E i \in 1..(Len(unread) + 1) : unread' = InsertAt(unread, i, SnapshotAt(stamp))
    /\ UNCHANGED <<stamp, on, at, lost>>

\* A subscription replaces an earlier one with what still waited for it.
Subscribe ==
    /\ stamp >= 0
    /\ on'
    /\ \E kept \in 0..Len(unread) :
        unread' = Append(SubSeq(unread, 1, kept), SnapshotAt(stamp))
    /\ UNCHANGED <<stamp, at, lost>>

\* The session is no longer served.  It may still read some of what was sent.
End ==
    /\ stamp' = -1
    /\ ~ on'
    /\ \E kept \in 0..Len(unread) : unread' = SubSeq(unread, 1, kept)
    /\ UNCHANGED <<at, lost>>

\* The session reads: a snapshot in any state, a notice in any state, an event only
\* if it has read all that come before.
Read ==
    /\ unread /= <<>>
    /\ unread' = Tail(unread)
    /\ LET first == Head(unread)
       IN  \/ first.what = "snapshot" /\ at' = first.n /\ ~ lost'
           \/ first.what = "resync" /\ at' = at /\ lost'
           \/ first.what = "event" /\ (lost \/ first.n <= at) /\ at' = at /\ lost' = lost
           \/ first.what = "event" /\ ~ lost /\ first.n = at + 1 /\ at' = first.n /\ ~ lost'
    /\ UNCHANGED <<stamp, on>>

Next == Begin \/ Ignore \/ Tell \/ Lose \/ Look \/ Subscribe \/ End \/ Read

Spec == Init /\ [][Next]_vars

=============================================================================

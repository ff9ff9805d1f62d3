---------------------------- MODULE RequestBook ----------------------------
(***************************************************************************)
(* What agents are promised about their requests: each one is answered     *)
(* exactly once, sooner or later, as long as its session is served.        *)
(* AgentRequests shows that the window manager keeps this promise.         *)
(***************************************************************************)
CONSTANTS Sessions, Requests

VARIABLE book    \* for every session and request: new, waiting, answered or gone

TypeOK == book \in [Sessions -> [Requests -> {"new", "waiting", "answered", "gone"}]]

Init == book = [s \in Sessions |-> [r \in Requests |-> "new"]]

\* A request arrives and is answered at once or waits; one that waited is answered.
MayBecome(before, after) ==
    \/ after = before
    \/ before = "new" /\ after \in {"waiting", "answered"}
    \/ before = "waiting" /\ after = "answered"

\* A session is served as before or given up with all its requests.
Served(s) == \A r \in Requests : MayBecome(book[s][r], book'[s][r])

GivenUp(s) == \A r \in Requests : book'[s][r] = "gone"

\* The number of a session that was given up is used for another one.
Renewed(s) == \A r \in Requests : book[s][r] = "gone" /\ book'[s][r] = "new"

Next == \A s \in Sessions : Served(s) \/ GivenUp(s) \/ Renewed(s)

Waits(s, r) == book[s][r] = "waiting"

Spec ==
    /\ Init /\ [][Next]_book
    /\ \A s \in Sessions, r \in Requests : Waits(s, r) ~> ~ Waits(s, r)

=============================================================================

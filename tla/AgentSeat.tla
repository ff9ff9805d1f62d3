----------------------------- MODULE AgentSeat -----------------------------
(***************************************************************************)
(* The transport between companions and the window manager: the threads of *)
(* crates/nobox-agent-seat/src/lib.rs, with the part of the event loop of  *)
(* crates/nobox-x11/src/lib.rs that they talk to.                          *)
(*                                                                         *)
(* An acceptor takes connections from the listening socket and starts two  *)
(* threads for each.  The acceptor and the readers put what happens into   *)
(* one bounded inbox and wake the event loop, which takes all of it at     *)
(* once; the event loop answers through one bounded queue for each writer. *)
(* The event loop must never wait for any of them.                         *)
(***************************************************************************)
EXTENDS Naturals, Sequences, FiniteSets

CONSTANTS
    Connections,      \* connections, 1..n, in the order in which companions dial
    Acceptor,         \* the listening thread; the readers are named by their sessions
    MaxSessions,      \* sessions held at once
    InboxQueue,       \* items all threads together may have queued
    WriterLimit,      \* messages one session may have queued
    Kinds,            \* what companions send, see SendFrame
    MaxFrames         \* bound: the frames companions send

ASSUME SeatAssumption ==
    /\ Acceptor \notin Connections
    /\ Kinds \subseteq {"sound", "unsound", "garbage"}
    /\ {MaxSessions, InboxQueue, WriterLimit, MaxFrames} \subseteq Nat \ {0}

VARIABLES
    thread,           \* what the acceptor and each reader are doing
    writer,           \* what each writer is doing
    inbox,            \* what the threads hand to the event loop
    wakeup_pending,   \* the event loop has been told and has not looked
    signals,          \* wake-up messages on their way to the event loop
    manager,          \* where the event loop is, with what it has taken
    held,             \* the sessions of the transport
    policy,           \* the sessions of the agent state, after their handshake
    queue,            \* what each writer is to write
    stopping,
    companion,        \* the other ends: whether hung up, what they sent
    frames            \* how many

seatVars == <<thread, writer, inbox, wakeup_pending, signals, manager, held, policy,
          queue, stopping, companion, frames>>

threads == <<thread, writer, inbox, wakeup_pending, signals>>
companions == <<companion, frames>>
loop == <<manager, held, policy, queue, stopping>>

Threads == Connections \cup {Acceptor}

(* ---- What is handed to the event loop, and what it answers ---- *)
Connected(s) == [kind |-> "connected", session |-> s]

Frame(s, sound) == [kind |-> "frame", session |-> s, sound |-> sound]

Faulted(s) == [kind |-> "faulted", session |-> s]

Disconnected(s) == [kind |-> "disconnected", session |-> s]

Nothing == [kind |-> "nothing"]

Doing(at, item) == [at |-> at, item |-> item]

\* Both ends of the socket are shut down by whichever thread of a session ends first.
Shut(s) == writer[s] = "done" \/ thread[s].at = "done"

\* A writer lives as long as somebody may still send to it.
HasSender(s) ==
    \/ s \in held
    \/ Doing("sends", Connected(s)) = thread[Acceptor]
    \/ \E i \in DOMAIN inbox : inbox[i] = Connected(s)
    \/ \E i \in DOMAIN manager.batch : manager.batch[i] = Connected(s)

\* What a companion has sent is discarded with its socket.
Fresh == [hungUp |-> FALSE, sent |-> <<>>]

Discard ==
    /\ companion' = [s \in Connections |-> IF thread'[s].at = "done" THEN Fresh ELSE companion[s]]
    /\ UNCHANGED frames

(* ---- Threads that deliver: SeatContext::deliver and wake ---- *)
\* What a thread does after delivering an item.
After(item) ==
    CASE item.kind = "connected" -> Doing("splits", item)
      [] item.kind = "frame" -> Doing("waits", Nothing)
      [] OTHER -> Doing("done", Nothing)

Resumed(t) ==
    IF t = Acceptor /\ thread[t].item.kind = "disconnected"
    THEN Doing("waits", Nothing) ELSE After(thread[t].item)

\* A full inbox makes the thread wait.
Deliver(t) ==
    /\ thread[t].at = "sends"
    /\ \/ /\ manager.at /= "stopped" /\ Len(inbox) < InboxQueue
          /\ inbox' = Append(inbox, thread[t].item)
          /\ thread' = [thread EXCEPT ![t].at = "wakes"]
       \/ /\ manager.at = "stopped"
          /\ thread' = [thread EXCEPT ![t] = Doing("done", Nothing)]
          /\ UNCHANGED inbox
    /\ Discard
    /\ UNCHANGED <<writer, wakeup_pending, signals>> /\ UNCHANGED loop

\* wake, in its two steps: the flag is set, and whoever has set it sends the message.
Wake(t) ==
    /\ thread[t].at = "wakes"
    /\ wakeup_pending' = TRUE
    /\ thread' = [thread EXCEPT ![t] = IF wakeup_pending THEN Resumed(t) ELSE [@ EXCEPT !.at = "signals"]]
    /\ Discard
    /\ UNCHANGED <<writer, inbox, signals>> /\ UNCHANGED loop

Signal(t) ==
    /\ thread[t].at = "signals"
    /\ signals' = signals + 1
    /\ thread' = [thread EXCEPT ![t] = Resumed(t)]
    /\ Discard
    /\ UNCHANGED <<writer, inbox, wakeup_pending>> /\ UNCHANGED loop

(* ---- The acceptor: accept_loop and spawn_session ---- *)
\* Mutant of Accept: the reader starts before the session is announced.
AcceptAndStart(s) ==
    /\ thread[Acceptor].at = "waits" /\ ~ stopping
    /\ thread[s].at = "none"
    /\ thread' = [thread EXCEPT ![Acceptor] = Doing("sends", Connected(s)), ![s].at = "waits"]
    /\ UNCHANGED writer
    /\ Discard
    /\ UNCHANGED <<inbox, wakeup_pending, signals>> /\ UNCHANGED loop

\* The next companion connects.  A connection whose peer cannot be identified is dropped.
Accept(s) ==
    /\ thread[Acceptor].at = "waits" /\ ~ stopping
    /\ thread[s].at = "none" /\ 1..(s - 1) \subseteq {t \in Connections : thread[t].at /= "none"}
    /\ \/ /\ thread' = [thread EXCEPT ![Acceptor] = Doing("sends", Connected(s)),
                                      ![s].at = "starts"]
          /\ UNCHANGED writer
       \/ /\ thread' = [thread EXCEPT ![s].at = "done"]
          /\ writer' = [writer EXCEPT ![s] = "done"]
    /\ Discard
    /\ UNCHANGED <<inbox, wakeup_pending, signals>> /\ UNCHANGED loop

\* The listener may fail, which ends the acceptor; nobody is told.
AcceptFails ==
    /\ thread[Acceptor].at = "waits"
    /\ thread' = [thread EXCEPT ![Acceptor].at = "done"]
    /\ UNCHANGED <<writer, inbox, wakeup_pending, signals, companions>> /\ UNCHANGED loop

\* stop connects to its own socket, so that the acceptor sees that it is to end.
AcceptorEnds == stopping /\ AcceptFails

\* The session is announced before its threads start, or fails to start them.
Split ==
    /\ thread[Acceptor].at = "splits"
    /\ LET s == thread[Acceptor].item.session
       IN  \/ /\ thread' = [thread EXCEPT ![Acceptor] = Doing("waits", Nothing), ![s].at = "waits"]
              /\ writer' = [writer EXCEPT ![s] = "waits"]
           \/ /\ thread' = [thread EXCEPT ![Acceptor] = Doing("sends", Disconnected(s)),
                                          ![s].at = "done"]
              /\ writer' = [writer EXCEPT ![s] = "done"]
    /\ Discard
    /\ UNCHANGED <<inbox, wakeup_pending, signals>> /\ UNCHANGED loop

(* ---- The reader and the writer of a session ---- *)
Ended(s) == companion[s].hungUp \/ Shut(s)

\* A stream that ends within a frame cannot be framed.
Receive(s) ==
    /\ thread[s].at = "waits"
    /\ LET sent == companion[s].sent
       IN  \/ /\ sent /= <<>>
              /\ thread' = [thread EXCEPT ![s] =
                    Doing("sends", IF Head(sent) = "garbage" THEN Faulted(s)
                                   ELSE Frame(s, Head(sent) = "sound"))]
              /\ companion' = [companion EXCEPT ![s].sent = Tail(@)]
           \/ /\ sent = <<>> /\ Ended(s)
              /\ \E item \in {Disconnected(s), Faulted(s)} :
                    thread' = [thread EXCEPT ![s] = Doing("sends", item)]
              /\ UNCHANGED companion
    /\ UNCHANGED <<writer, inbox, wakeup_pending, signals, frames>> /\ UNCHANGED loop

\* What a writer leaves behind: nothing is queued for it any more.
WriterGone(s) == writer' = [writer EXCEPT ![s] = "done"] /\ queue' = [queue EXCEPT ![s] = <<>>]

\* A write ends when the companion reads, which may be never.  The message that is
\* being written counts as queued.
Write(s) ==
    /\ writer[s] = "waits" /\ queue[s] /= <<>> /\ ~ Ended(s)
    /\ IF Head(queue[s]) = "goodbye" THEN WriterGone(s)
       ELSE queue' = [queue EXCEPT ![s] = Tail(@)] /\ UNCHANGED writer
    /\ UNCHANGED <<thread, inbox, wakeup_pending, signals, manager, held, policy, stopping, companions>>

WriteFails(s) ==
    /\ writer[s] = "waits" /\ queue[s] /= <<>> /\ Ended(s)
    /\ WriterGone(s)
    /\ UNCHANGED <<thread, inbox, wakeup_pending, signals, manager, held, policy, stopping, companions>>

WriterEnds(s) ==
    /\ writer[s] = "waits" /\ queue[s] = <<>> /\ ~ HasSender(s)
    /\ WriterGone(s)
    /\ UNCHANGED <<thread, inbox, wakeup_pending, signals, manager, held, policy, stopping, companions>>

(***************************************************************************)
(* The event loop: drain_agent_traffic, take_inbound and                   *)
(* handle_agent_inbound.                                                   *)
(***************************************************************************)
\* Mutant of Look: the flag stays as it is until the inbox has been taken.
LookFirst ==
    /\ manager.at = "waits" /\ signals > 0
    /\ signals' = signals - 1
    /\ UNCHANGED wakeup_pending
    /\ manager' = [manager EXCEPT !.at = "takes"]
    /\ UNCHANGED <<thread, writer, inbox, held, policy, queue, stopping, companions>>

\* The flag is cleared first.
Look ==
    /\ manager.at = "waits" /\ signals > 0
    /\ signals' = signals - 1
    /\ wakeup_pending' = FALSE
    /\ manager' = [manager EXCEPT !.at = "takes"]
    /\ UNCHANGED <<thread, writer, inbox, held, policy, queue, stopping, companions>>

TakeInbound ==
    /\ manager.at = "takes"
    /\ \/ /\ inbox /= <<>>
          /\ manager' = [manager EXCEPT !.batch = Append(@, Head(inbox))]
          /\ inbox' = Tail(inbox)
       \/ /\ inbox = <<>>
          /\ manager' = [manager EXCEPT !.at = "handles"]
          /\ UNCHANGED inbox
    /\ UNCHANGED <<thread, writer, wakeup_pending, signals, held, policy, queue, stopping, companions>>

\* A message for a writer, if there is room.
Offered(s, message) ==
    IF writer[s] /= "done" /\ Len(queue[s]) < WriterLimit
    THEN [queue EXCEPT ![s] = Append(@, message)] ELSE queue

\* AgentSeat::close
CloseTransport(s) == held' = held \ {s} /\ queue' = Offered(s, "goodbye")

\* AgentSeat::send: who has stopped reading, or is gone, is dropped.
SendTo(s) ==
    /\ queue' = Offered(s, "answer")
    /\ held' = IF queue' = queue THEN held \ {s} ELSE held

\* AgentSeat::accept
HandleConnected(s) ==
    IF Cardinality(held) >= MaxSessions
    THEN queue' = Offered(s, "goodbye") /\ UNCHANGED <<held, policy>>
    ELSE held' = held \cup {s} /\ UNCHANGED <<queue, policy>>

\* The handshake, and then requests.  A frame out of order ends the session.
HandleFrame(s, sound) ==
    IF s \notin held THEN UNCHANGED <<held, policy, queue>>
    ELSE IF sound THEN SendTo(s) /\ policy' = policy \cup {s}
    ELSE CloseTransport(s) /\ policy' = policy \ {s}

HandleFaulted(s) ==
    IF s \in held THEN CloseTransport(s) /\ policy' = policy \ {s}
    ELSE UNCHANGED <<held, policy, queue>>

HandleDisconnected(s) ==
    held' = held \ {s} /\ policy' = policy \ {s} /\ UNCHANGED queue

Handle ==
    /\ manager.at = "handles" /\ manager.batch /= <<>>
    /\ manager' = [manager EXCEPT !.batch = Tail(@)]
    /\ LET item == Head(manager.batch)
       IN  CASE item.kind = "connected" -> HandleConnected(item.session)
             [] item.kind = "frame" -> HandleFrame(item.session, item.sound)
             [] item.kind = "faulted" -> HandleFaulted(item.session)
             [] item.kind = "disconnected" -> HandleDisconnected(item.session)
    /\ UNCHANGED threads /\ UNCHANGED <<stopping, companions>>

Finish ==
    /\ manager.at = "handles" /\ manager.batch = <<>>
    /\ manager' = [manager EXCEPT !.at = "waits"]
    /\ UNCHANGED threads /\ UNCHANGED <<held, policy, queue, stopping, companions>>

\* AgentSeat::stop until it waits for the acceptor to end.
Stop ==
    /\ manager.at = "waits"
    /\ manager' = [manager EXCEPT !.at = "joins"]
    /\ held' = {}
    /\ queue' = [s \in Connections |-> IF s \in held THEN Offered(s, "goodbye")[s] ELSE queue[s]]
    /\ stopping' = TRUE
    /\ UNCHANGED <<thread, writer, inbox, wakeup_pending, signals, policy, companions>>

\* The rest of stop and of stop_agent_seat: what is in the inbox is dropped.
Join ==
    /\ manager.at = "joins" /\ thread[Acceptor].at = "done"
    /\ manager' = [manager EXCEPT !.at = "stopped"]
    /\ inbox' = <<>> /\ policy' = {}
    /\ UNCHANGED <<thread, writer, wakeup_pending, signals, held, queue, stopping, companions>>

(* ---- Companions ---- *)
Alone == UNCHANGED loop /\ UNCHANGED <<thread, writer, inbox, wakeup_pending, signals>>

\* A frame in order, a frame out of order, or bytes that are no frame.
SendFrame(s, kind) ==
    /\ thread[s].at /= "none" /\ ~ Ended(s)
    /\ frames < MaxFrames
    /\ frames' = frames + 1
    /\ companion' = [companion EXCEPT ![s].sent = Append(@, kind)]
    /\ Alone

HangUp(s) ==
    /\ thread[s].at /= "none" /\ ~ Ended(s)
    /\ companion' = [companion EXCEPT ![s].hungUp = TRUE]
    /\ UNCHANGED frames /\ Alone

(* ---- The specification ---- *)
SeatInit ==
    /\ thread = [t \in Threads |-> Doing(IF t = Acceptor THEN "waits" ELSE "none", Nothing)]
    /\ writer = [s \in Connections |-> "none"]
    /\ frames = 0 /\ inbox = <<>> /\ wakeup_pending = FALSE /\ signals = 0
    /\ manager = [at |-> "waits", batch |-> <<>>]
    /\ held = {} /\ policy = {} /\ stopping = FALSE
    /\ queue = [s \in Connections |-> <<>>]
    /\ companion = [s \in Connections |-> Fresh]

ThreadStep(t) == Deliver(t) \/ Wake(t) \/ Signal(t)

AcceptorStep == ThreadStep(Acceptor) \/ Split \/ AcceptorEnds

ReaderStep(s) == ThreadStep(s) \/ Receive(s)

WriterStep(s) == WriteFails(s) \/ WriterEnds(s)

LoopStep == Look \/ TakeInbound \/ Handle \/ Finish \/ Join

CompanionStep(s) ==
    \/ HangUp(s)
    \/ \E kind \in Kinds : SendFrame(s, kind)

SeatNext ==
    \/ AcceptorStep \/ AcceptFails \/ LoopStep \/ Stop
    \/ \E s \in Connections : Accept(s) \/ ReaderStep(s) \/ WriterStep(s) \/ Write(s) \/ CompanionStep(s)

\* Threads that can go on do so, and so does the event loop.  Companions need not read,
\* write or hang up, and nobody need stop the seat.
SeatFairness ==
    /\ WF_seatVars(AcceptorStep) /\ WF_seatVars(LoopStep)
    /\ \A s \in Connections : WF_seatVars(ReaderStep(s)) /\ WF_seatVars(WriterStep(s))

SeatSpec == SeatInit /\ [][SeatNext]_seatVars /\ SeatFairness

(* ---- Properties ---- *)
\* What is in the inbox while the event loop waits is never forgotten: a wake-up message
\* is on its way, or a thread is about to send one (wake and take_inbound).
WakeupNotLost ==
    inbox /= <<>> /\ manager.at = "waits"
    => signals > 0 \/ \E t \in Threads : thread[t].at \in {"wakes", "signals"}

\* The event loop hears of a session in the order of its life: it is connected first,
\* before anything is held for it, and after its end nothing comes (accept_loop and
\* spawn_session).
Heard == manager.batch \o inbox

SessionsInOrder ==
    \A j \in DOMAIN Heard :
        /\ Heard[j].kind = "connected" => Heard[j].session \notin held \cup policy
        /\ \A i \in 1..(j - 1) : Heard[i].session = Heard[j].session =>
              Heard[i].kind \in {"connected", "frame"} /\ Heard[j].kind /= "connected"

\* The acceptor goes on in the end when it waits because the inbox is full, however many
\* readers wait with it, unless the seat is being stopped.
BackpressureEnds ==
    thread[Acceptor].at = "sends" ~> thread[Acceptor].at /= "sends" \/ stopping

=============================================================================

------------------------------- MODULE Relays -------------------------------
(***************************************************************************)
(* A web socket connection relayed to an instance by the API server        *)
(* (lxd/index.ts, router.ts): the terminal of LXD, Jupyter, and MATLAB     *)
(* over VNC.  Connections share nothing, so there is one.                  *)
(*                                                                         *)
(* The sockets are those of the library ws: a paused socket reports        *)
(* nothing, but pausing one that still connects does nothing; close()      *)
(* leaves the socket closing until the peer answers or half a minute has   *)
(* passed; what the peer sent before its close is read before it.          *)
(*                                                                         *)
(* A message is the number its sender gives it.                            *)
(***************************************************************************)
EXTENDS Integers, Sequences

CONSTANT MaxSaid  \* bound on the messages of each side

VARIABLES
    kind,    \* which of the three socket servers took the connection
    stage,   \* how far the relay has come
    socket,  \* readyState of the client's socket and of the container's
    reading, \* has the client's socket been resumed?
    timer,   \* does an interval wait for the container's socket to open?
    line     \* the messages from each side to the other

relay == <<kind, stage, socket, reading, timer, line>>

Sides == {"client", "container"}
Other(side) == CHOOSE o \in Sides : o # side

Kinds == {"terminal", "jupyter", "vnc"}

-----------------------------------------------------------------------------
(* The buffers.                                                            *)

\* The terminal's server sends the head of the buffer and takes it off when
\* the send has succeeded; in the meantime the head may be sent again.
FlushHead(l) ==
    IF l.buffer = <<>> THEN l
    ELSE [l EXCEPT !.put = Append(@, Head(l.buffer)), !.calls = @ + 1]

\* Mutant of FlushAll: one message at a time, without coming back for the rest.
FlushOne(l) ==
    IF l.buffer = <<>> THEN l
    ELSE [l EXCEPT !.put = Append(@, Head(l.buffer)), !.buffer = Tail(@)]

\* The other two take each message off before they send it.
FlushAll(l) == [l EXCEPT !.put = @ \o l.buffer, !.buffer = <<>>]

\* flushClientMessageBuffers and flushContainerMessageBuffers, once for each
\* server, while the other socket is open.
FlushFor(l) == IF kind = "terminal" THEN FlushHead(l) ELSE FlushAll(l)
Flush(side, l) == IF socket[Other(side)] = "open" THEN FlushFor(l) ELSE l

\* close() on an open socket; the relay calls it on no other.
Shut(sockets, side) ==
    IF sockets[side] = "open" THEN [sockets EXCEPT ![side] = "closing"] ELSE sockets

-----------------------------------------------------------------------------
(* The connection is made.                                                 *)

Init ==
    /\ kind \in Kinds
    /\ stage = "new"
    /\ socket = [client |-> "open", container |-> "none"]
    /\ reading = FALSE
    /\ timer = FALSE
    /\ line = [side \in Sides |-> [said |-> 0, buffer |-> <<>>, put |-> <<>>, calls |-> 0]]

\* An upgrade to a path no socket server has, without the id of an instance,
\* or, to MATLAB, that is not one to a web socket.
RefuseUpgrade ==
    /\ stage = "new"
    /\ stage' = "refused"
    /\ socket' = [socket EXCEPT !.client = "closed"]
    /\ UNCHANGED <<kind, reading, timer, line>>

\* The terminal's address comes with the request; the others look theirs up.
Upgrade ==
    /\ stage = "new"
    /\ stage' = IF kind = "terminal" THEN "found" ELSE "finding"
    /\ UNCHANGED <<kind, socket, reading, timer, line>>

TargetFound ==
    /\ stage = "finding"
    /\ stage' = "found"
    /\ UNCHANGED <<kind, socket, reading, timer, line>>

\* The container's socket is created; the VNC server alone leaves the client
\* paused until that socket is open.
Resumes == kind # "vnc"
Link ==
    /\ stage = "found"
    /\ stage' = "linked"
    /\ socket' = [socket EXCEPT !.container = "connecting"]
    /\ reading' = Resumes
    /\ UNCHANGED <<kind, timer, line>>

\* No target, or no socket to it: the client is closed, still paused.
Refuse ==
    /\ stage \in {"finding", "found"}
    /\ stage' = "refused"
    /\ socket' = Shut(socket, "client")
    /\ UNCHANGED <<kind, reading, timer, line>>

-----------------------------------------------------------------------------
(* The handlers of the sockets' events.                                    *)

\* containerSocket.on('open')
Open ==
    /\ socket.container = "connecting"
    /\ socket' = [socket EXCEPT !.container = "open"]
    /\ line' = [line EXCEPT !.client = FlushFor(@)]
    /\ reading' = TRUE
    /\ UNCHANGED <<kind, stage, timer>>

\* on('message'): a socket the relay is closing still reads messages.
Heard(l) == [l EXCEPT !.said = @ + 1, !.buffer = Append(@, l.said + 1)]
Message(side) ==
    /\ stage = "linked"
    /\ socket[side] \in {"open", "closing"}
    /\ side = "client" => reading
    /\ line[side].said < MaxSaid
    /\ line' = [line EXCEPT ![side] = Flush(side, Heard(@))]
    /\ UNCHANGED <<kind, stage, socket, reading, timer>>

\* The terminal's send has succeeded ...
Shift(l) == [l EXCEPT !.calls = @ - 1,
                      !.buffer = IF @ = <<>> THEN @ ELSE Tail(@)]
Sent(side) ==
    /\ line[side].calls > 0
    /\ line' = [line EXCEPT ![side] = Flush(side, Shift(@))]
    /\ UNCHANGED <<kind, stage, socket, reading, timer>>

\* ... or failed, which a send on an open socket does not.
NotSent(side) ==
    /\ line[side].calls > 0
    /\ socket[Other(side)] # "open"
    /\ line' = [line EXCEPT ![side].calls = @ - 1]
    /\ UNCHANGED <<kind, stage, socket, reading, timer>>

\* The peer's close frame arrives.
Leave(side) ==
    /\ stage = "linked"
    /\ socket[side] = "open"
    /\ side = "client" => reading
    /\ socket' = [socket EXCEPT ![side] = "leaving"]
    /\ UNCHANGED <<kind, stage, reading, timer, line>>

\* on('error'), for the container's socket also while it connects.
Error(side) ==
    /\ stage = "linked"
    /\ socket[side] \in {"open", "connecting"}
    /\ side = "client" => reading
    /\ socket' = Shut([socket EXCEPT ![side] = "leaving"], Other(side))
    /\ UNCHANGED <<kind, stage, reading, timer, line>>

\* clientSocket.on('close'): while the container's socket still connects, the
\* Jupyter server looks every second whether it can be closed.
AwaitsOpen == kind = "jupyter" /\ socket.container = "connecting"
ClientClosed ==
    /\ socket.client \in {"closing", "leaving"}
    /\ stage = "refused" => socket.client = "closing"
    /\ LET after == [socket EXCEPT !.client = "closed"]
       IN  socket' = IF stage = "linked" THEN Shut(after, "container") ELSE after
    /\ timer' = (timer \/ AwaitsOpen)
    /\ UNCHANGED <<kind, stage, reading, line>>

\* The interval of the Jupyter server.
Interval ==
    /\ timer
    /\ socket.container = "open"
    /\ socket' = Shut(socket, "container")
    /\ timer' = FALSE
    /\ UNCHANGED <<kind, stage, reading, line>>

\* containerSocket.on('close')
ContainerClosed ==
    /\ socket.container \in {"closing", "leaving"}
    /\ socket' = Shut([socket EXCEPT !.container = "closed"], "client")
    /\ line' = [line EXCEPT !.container = Flush("container", @)]
    /\ UNCHANGED <<kind, stage, reading, timer>>

Next ==
    \/ RefuseUpgrade \/ Upgrade \/ TargetFound \/ Link \/ Refuse
    \/ Open \/ ClientClosed \/ Interval \/ ContainerClosed
    \/ \E side \in Sides :
         Message(side) \/ Sent(side) \/ NotSent(side) \/ Leave(side) \/ Error(side)

Spec == Init /\ [][Next]_relay

-----------------------------------------------------------------------------
(* Properties.                                                             *)

Line == [said : 0..MaxSaid, buffer : Seq(1..MaxSaid), put : Seq(1..MaxSaid), calls : Nat]

\* The type invariant, and that a relay has a socket to the container if, and
\* only if, it was linked.
TypeOK ==
    /\ kind \in Kinds
    /\ stage \in {"new", "finding", "found", "linked", "refused"}
    /\ socket \in [client : {"open", "closing", "leaving", "closed"},
                   container : {"none", "connecting", "open", "closing", "leaving", "closed"}]
    /\ reading \in BOOLEAN /\ timer \in BOOLEAN
    /\ line \in [Sides -> Line]
    /\ stage = "linked" <=> socket.container # "none"

\* What one side said reaches the other in its order and without a gap.  The
\* terminal's server may say a message twice in a row, the others never do
\* (flush...MessageBuffers).
InOrder ==
    \A side \in Sides :
        LET put == line[side].put
        IN  /\ put # <<>> => put[1] = 1
            /\ \A i \in 1..Len(put) - 1 :
                   \/ put[i + 1] = put[i] + 1
                   \/ kind = "terminal" /\ put[i + 1] = put[i]

\* Between two open sockets nothing stays in a buffer unless a send is under
\* way that comes back for it: not what the client said before the container
\* answered, nor what came while another message was being sent.
NoneStranded ==
    socket.client = "open" /\ socket.container = "open" =>
        \A side \in Sides : line[side].calls = 0 => line[side].buffer = <<>>

\* Once the client is gone, Jupyter and MATLAB do not keep the connection to
\* the container: it is closed, closing, or an interval waits to close it.
\* (The terminal's server keeps one that was still connecting.)
NoOrphan ==
    socket.client = "closed" /\ socket.container \in {"connecting", "open"} =>
        kind = "terminal" \/ timer

\* All of it: a relay delivers what is said and is gone when its client is.
RelaysDeliver == InOrder /\ NoneStranded /\ NoOrphan
=============================================================================

------------------------------ MODULE Connector ------------------------------
(***************************************************************************)
(* A connector (`devsite connect` and `devsite access connect`, run_tunnel *)
(* and forward_connection of devsite-cli/src/main.rs, with devsite-client):*)
(* it listens on a loopback port and turns every local connection into one *)
(* authorised stream to the daemon of its session.                         *)
(*                                                                         *)
(* Concurrency.  Every local connection is a task; the tasks share a cache *)
(* of connections by daemon.  A session leads to one daemon, so the cache  *)
(* is one entry.  The connection attempt is the only await between looking *)
(* into the cache and filling it.  The daemon's half of a stream, handle_- *)
(* stream's two copy loops, is modelled with the connector's; what admits a*)
(* stream at the daemon is Daemon, what issues its capability is Tunnels.  *)
(*                                                                         *)
(* The transport (external) hands out connections.  One whose daemon is    *)
(* gone is noticed after its idle timeout.  One that nothing refers to any *)
(* more closes, as the comment at devsite-client/src/lib.rs:59 says; the   *)
(* halves of a stream, which are all that a task keeps while it copies, do *)
(* refer to their connection.  A connection carries a limited number of    *)
(* streams at a time, and opening one more waits for room.                 *)
(***************************************************************************)
EXTENDS Naturals, FiniteSets

CONSTANTS
    Locals,       \* slots for local connections under way (bound)
    Connections,  \* connections the transport may hand out (bound)
    NoConnection,
    MaxStreams,   \* the transport's limit of streams on one connection
    MaxStops      \* bound on the stops of the daemon

ASSUME ConnectorAssumption ==
    /\ NoConnection \notin Connections
    /\ MaxStreams \in Nat \ {0}
    /\ MaxStops \in Nat

VARIABLES
    tunnel,      \* the connector: off, listening, stopping or over
    up,          \* is the daemon running?
    stops,       \* how often it has stopped
    connection,  \* unused, dialing, open, lost, dead or closed, by connection
    cache,       \* the connection ClientEndpoint keeps for the daemon
    local        \* tasks of forward_connection

daemonVars == <<up, stops>>
vars == <<tunnel, daemonVars, connection, cache, local>>

\* near and far: the connector's task and the daemon's task hold the stream;
\* in and out: the bytes to the service and the bytes from it; broken: one of
\* the two ends was cut off; stale: the cached connection was known to be dead.
NoLocal ==
    [phase |-> "idle", via |-> NoConnection, near |-> FALSE, far |-> FALSE,
     in |-> "open", out |-> "open", broken |-> FALSE, stale |-> FALSE]

LocalTasks ==
    [phase : {"idle", "asking", "dialing", "opening", "requested", "streaming"},
     via : Connections \cup {NoConnection}, near : BOOLEAN, far : BOOLEAN,
     in : {"open", "ended", "sent", "done"}, out : {"open", "ended", "sent", "done"},
     broken : BOOLEAN, stale : BOOLEAN]

Init ==
    /\ tunnel = "off"
    /\ up = TRUE
    /\ stops = 0
    /\ connection = [c \in Connections |-> "unused"]
    /\ cache = NoConnection
    /\ local = [i \in Locals |-> NoLocal]

-----------------------------------------------------------------------------
(* The life of the tunnel.                                                 *)

\* connect buys a session with a ticket, or connect_grant asks for the session
\* that it was granted; the endpoint is made and run_tunnel binds the port.
Connect ==
    /\ tunnel = "off"
    /\ tunnel' = "listening"
    /\ UNCHANGED <<daemonVars, connection, cache, local>>

Streaming(i) == local[i].phase = "streaming"

\* One end stops for another reason: nothing that is under way counts any more.
Torn(i, end) ==
    [[local[i] EXCEPT ![end] = FALSE] EXCEPT !.broken = TRUE, !.in = "open", !.out = "open"]

\* Every end of the process takes its connections and tasks with it.
Exit ==
    /\ tunnel' = "over"
    /\ connection' = [c \in Connections |->
           IF connection[c] \in {"dialing", "open", "lost"} THEN "closed"
           ELSE connection[c]]
    /\ cache' = NoConnection
    /\ local' = [i \in Locals |->
           IF Streaming(i) THEN Torn(i, "near") ELSE NoLocal]

\* One of these steps fails, or accept does.
Abort ==
    /\ tunnel \in {"off", "listening"}
    /\ Exit
    /\ UNCHANGED daemonVars

\* Ctrl-C: no further local connection is accepted; the others go on.
CtrlC ==
    /\ tunnel = "listening"
    /\ tunnel' = "stopping"
    /\ UNCHANGED <<daemonVars, connection, cache, local>>

\* The DELETE of the session is answered, or fails, and the client is closed.
CloseClient ==
    /\ tunnel = "stopping"
    /\ Exit
    /\ UNCHANGED daemonVars

-----------------------------------------------------------------------------
(* The transport and the daemon process.                                   *)

\* The tasks that hold connection c, other than task i.
OthersOn(c, i) == {j \in Locals \ {i} : local[j].via = c /\ local[j].near}

\* Mutant: a task closes the connection it used when it is done with it.
ClosedByLast(i, kept) ==
    [c \in Connections |->
        IF c = local[i].via /\ connection[c] = "open" THEN "closed"
        ELSE connection[c]]

\* Task i lets go of its connection: the last reference closes it.
Released(i, kept) ==
    [c \in Connections |->
        IF /\ c = local[i].via
           /\ c # kept
           /\ OthersOn(c, i) = {}
           /\ connection[c] = "open"
        THEN "closed" ELSE connection[c]]

DaemonStops ==
    /\ up
    /\ stops < MaxStops
    /\ up' = FALSE
    /\ stops' = stops + 1
    /\ connection' = [c \in Connections |->
           IF connection[c] = "open" THEN "lost" ELSE connection[c]]
    /\ local' = [i \in Locals |-> IF local[i].far THEN Torn(i, "far") ELSE local[i]]
    /\ UNCHANGED <<tunnel, cache>>

DaemonStarts ==
    /\ ~up
    /\ up' = TRUE
    /\ UNCHANGED <<tunnel, stops, connection, cache, local>>

\* The idle timeout tells the connector; nothing tells the cache.
NoticeLoss(c) ==
    /\ connection[c] = "lost"
    /\ connection' = [connection EXCEPT ![c] = "dead"]
    /\ UNCHANGED <<tunnel, daemonVars, cache, local>>

-----------------------------------------------------------------------------
(* forward_connection.                                                     *)

Accept(i) ==
    /\ tunnel = "listening"
    /\ local[i] = NoLocal
    /\ local' = [local EXCEPT ![i] = [NoLocal EXCEPT !.phase = "asking", !.near = TRUE]]
    /\ UNCHANGED <<tunnel, daemonVars, connection, cache>>

\* The task ends with an error before it has a stream.
Failed(i) == local' = [local EXCEPT ![i] = NoLocal]

\* POST /api/tunnel/capability fails: the session was deleted, revoked or has
\* expired, its viewer lost access, or the control plane cannot be reached.
CapabilityFails(i) ==
    /\ local[i].phase = "asking"
    /\ Failed(i)
    /\ UNCHANGED <<tunnel, daemonVars, connection, cache>>

\* Mutant: the cache is taken to hold a connection.
ReuseAnything(i) ==
    /\ local[i].phase = "asking"
    /\ local' = [local EXCEPT ![i] = [@ EXCEPT !.phase = "opening", !.via = cache]]
    /\ UNCHANGED <<tunnel, daemonVars, connection, cache>>

\* connection_to finds a connection in the cache and returns it as it is.
Reuse(i) ==
    /\ local[i].phase = "asking"
    /\ cache # NoConnection
    /\ local' = [local EXCEPT ![i] =
           [@ EXCEPT !.phase = "opening", !.via = cache,
                     !.stale = connection[cache] \in {"dead", "closed"}]]
    /\ UNCHANGED <<tunnel, daemonVars, connection, cache>>

\* It finds none and calls the daemon; another task may be doing the same.
Dial(i, c) ==
    /\ local[i].phase = "asking"
    /\ cache = NoConnection
    /\ connection[c] = "unused"
    /\ connection' = [connection EXCEPT ![c] = "dialing"]
    /\ local' = [local EXCEPT ![i] = [@ EXCEPT !.phase = "dialing", !.via = c]]
    /\ UNCHANGED <<tunnel, daemonVars, cache>>

\* The new connection replaces the one that another task may have cached; what
\* nothing refers to any more closes.
Dialed(i) ==
    LET c == local[i].via IN
    /\ local[i].phase = "dialing"
    /\ up
    /\ connection' = [b \in Connections |->
           IF b = c THEN "open"
           ELSE IF b = cache /\ OthersOn(b, i) = {} /\ connection[b] = "open"
           THEN "closed"
           ELSE connection[b]]
    /\ cache' = c
    /\ local' = [local EXCEPT ![i].phase = "opening"]
    /\ UNCHANGED <<tunnel, daemonVars>>


\* CONNECT_TIMEOUT, or the transport refuses at once.
DialFails(i) ==
    /\ local[i].phase = "dialing"
    /\ connection' = [connection EXCEPT ![local[i].via] = "unused"]
    /\ Failed(i)
    /\ UNCHANGED <<tunnel, daemonVars, cache>>

\* The stream of a task counts from its request until both ends are through.
StreamsOn(c) ==
    {j \in Locals : local[j].via = c /\ local[j].phase \in {"requested", "streaming"}}

\* request_stream: open_bi waits for room, and the request is sent.
OpenBi(i) ==
    LET c == local[i].via IN
    /\ local[i].phase = "opening"
    /\ connection[c] \in {"open", "lost"}
    /\ Cardinality(StreamsOn(c)) < MaxStreams
    /\ local' = [local EXCEPT ![i].phase = "requested"]
    /\ UNCHANGED <<tunnel, daemonVars, connection, cache>>

\* The daemon answers Connected.
Opened(i) ==
    /\ local[i].phase = "requested"
    /\ connection[local[i].via] = "open"
    /\ local' = [local EXCEPT ![i] = [@ EXCEPT !.phase = "streaming", !.far = TRUE]]
    /\ UNCHANGED <<tunnel, daemonVars, connection, cache>>

\* The daemon answers that it denies the capability or has no upstream.
Refused(i) ==
    /\ local[i].phase = "requested"
    /\ connection[local[i].via] = "open"
    /\ connection' = Released(i, cache)
    /\ Failed(i)
    /\ UNCHANGED <<tunnel, daemonVars, cache>>

\* The connection is found dead, at once or while the task waits on it.
OpenFails(i) ==
    /\ local[i].phase \in {"opening", "requested"}
    /\ connection[local[i].via] \in {"dead", "closed"}
    /\ connection' = Released(i, cache)
    /\ Failed(i)
    /\ UNCHANGED <<tunnel, daemonVars, cache>>

-----------------------------------------------------------------------------
(* The copy loops of both ends of a stream.                                *)

Carries(i) == Streaming(i) /\ connection[local[i].via] = "open"

Keep(i, fields) ==
    /\ local' = [local EXCEPT ![i] = fields]
    /\ UNCHANGED <<tunnel, daemonVars, connection, cache>>

\* The local peer, or the service, has written its last byte.
Ends(i) ==
    /\ Streaming(i)
    /\ ~local[i].broken
    /\ \/ local[i].in = "open" /\ local[i].near
          /\ Keep(i, [local[i] EXCEPT !.in = "ended"])
       \/ local[i].out = "open" /\ local[i].far
          /\ Keep(i, [local[i] EXCEPT !.out = "ended"])

\* The copy loop of this end sees it and finishes the stream's direction.
Finish(i) ==
    /\ Streaming(i)
    /\ \/ local[i].near /\ local[i].in = "ended"
          /\ Keep(i, [local[i] EXCEPT !.in = "sent"])
       \/ local[i].far /\ local[i].out = "ended"
          /\ Keep(i, [local[i] EXCEPT !.out = "sent"])

\* The copy loop of the other end has passed on all of it, and says so.
Deliver(i) ==
    /\ Carries(i)
    /\ \/ local[i].far /\ local[i].in = "sent"
          /\ Keep(i, [local[i] EXCEPT !.in = "done"])
       \/ local[i].near /\ local[i].out = "sent"
          /\ Keep(i, [local[i] EXCEPT !.out = "done"])

\* Mutant: an end is done as soon as one of its directions is.
EitherDone(mine, theirs) == mine \in {"sent", "done"} \/ theirs = "done"

\* try_join: an end is done when both of its directions are.
BothDone(mine, theirs) == mine \in {"sent", "done"} /\ theirs = "done"

\* forward_connection returns and drops its halves.
NearDone(i) ==
    /\ Streaming(i)
    /\ local[i].near
    /\ BothDone(local[i].in, local[i].out)
    /\ connection' = Released(i, cache)
    /\ local' = [local EXCEPT ![i].near = FALSE]
    /\ UNCHANGED <<tunnel, daemonVars, cache>>

\* handle_stream returns.
FarDone(i) ==
    /\ Streaming(i)
    /\ local[i].far
    /\ BothDone(local[i].out, local[i].in)
    /\ Keep(i, [local[i] EXCEPT !.far = FALSE])

\* A peer or the service resets, or the daemon cancels the stream: one end stops.
Cut(i) ==
    /\ Streaming(i)
    /\ \/ /\ local[i].near
          /\ connection' = Released(i, cache)
          /\ local' = [local EXCEPT ![i] = Torn(i, "near")]
          /\ UNCHANGED <<tunnel, daemonVars, cache>>
       \/ /\ local[i].far
          /\ Keep(i, Torn(i, "far"))

\* An end learns that the other was cut off, or that the connection is gone.
Learn(i) ==
    /\ Streaming(i)
    /\ \/ /\ local[i].near
          /\ \/ connection[local[i].via] \in {"dead", "closed"}
             \/ local[i].broken /\ ~local[i].far /\ connection[local[i].via] = "open"
          /\ connection' = Released(i, cache)
          /\ local' = [local EXCEPT ![i] = Torn(i, "near")]
          /\ UNCHANGED <<tunnel, daemonVars, cache>>
       \/ /\ local[i].far
          /\ \/ connection[local[i].via] = "closed"
             \/ local[i].broken /\ ~local[i].near
          /\ Keep(i, Torn(i, "far"))

\* Both ends are through; the slot is free.
Over(i) ==
    /\ local[i] # NoLocal
    /\ ~local[i].near
    /\ ~local[i].far
    /\ Keep(i, NoLocal)

-----------------------------------------------------------------------------
\* Steps of the copy loops.  Each brings its stream closer to its end.
Copy(i) == Finish(i) \/ Deliver(i) \/ NearDone(i) \/ FarDone(i) \/ Learn(i) \/ Over(i)

Task(i) ==
    \/ CapabilityFails(i) \/ Reuse(i) \/ Dialed(i) \/ DialFails(i)
    \/ OpenBi(i) \/ Opened(i) \/ Refused(i) \/ OpenFails(i) \/ Copy(i)
    \/ \E c \in Connections : Dial(i, c)

Next ==
    \/ Connect \/ Abort \/ CtrlC \/ CloseClient
    \/ DaemonStops \/ DaemonStarts
    \/ \E c \in Connections : NoticeLoss(c)
    \/ \E i \in Locals : Accept(i) \/ Ends(i) \/ Cut(i) \/ Task(i)

\* An attempt to connect is answered or runs into CONNECT_TIMEOUT, the transport
\* reports a loss, and a task that waits on a lost connection is woken by that.
\* The copy loops go on as long as the local peer and the service read: their
\* fairness assumes that both do.  Nothing makes the control plane answer the
\* POST (its client has no timeout), a stream end to give room to the next, or a
\* daemon that is connected answer a request.
Fairness ==
    /\ \A i \in Locals :
           /\ WF_vars(Dialed(i) \/ DialFails(i))
           /\ WF_vars(OpenFails(i))
           /\ WF_vars(Copy(i))
    /\ \A c \in Connections : WF_vars(NoticeLoss(c))

Spec == Init /\ [][Next]_vars /\ Fairness

-----------------------------------------------------------------------------
(* Properties.                                                             *)

\* Every variable keeps its type, and a task that uses a connection has one.
TypeOK ==
    /\ tunnel \in {"off", "listening", "stopping", "over"}
    /\ up \in BOOLEAN
    /\ stops \in 0 .. MaxStops
    /\ connection \in [Connections ->
           {"unused", "dialing", "open", "lost", "dead", "closed"}]
    /\ cache \in Connections \cup {NoConnection}
    /\ local \in [Locals -> LocalTasks]
    /\ \A i \in Locals :
           local[i].phase \in {"dialing", "opening", "requested", "streaming"} =>
               local[i].via \in Connections

\* The comment at devsite-client/src/lib.rs:59: the connector never closes a
\* connection under a task that still uses it, or keeps one that it closed for
\* the next task, although tasks that dial at the same time replace each other's
\* connection in the cache.
InUseStaysOpen ==
    \A c \in Connections :
        connection[c] = "closed" =>
            /\ cache # c
            /\ \A i \in Locals : ~(local[i].near /\ local[i].via = c)

\* A task that calls the daemon, or that holds a connection to a daemon that is
\* gone.
Unreachable(i) ==
    \/ local[i].phase = "dialing"
    \/ local[i].near /\ local[i].via # NoConnection /\ connection[local[i].via] # "open"


\* A stream may be closed in one direction and still carry the other: what the
\* service has written when it ends reaches the local peer, also when that peer
\* ended its own input before, and what the peer has written reaches the service,
\* unless the service had ended its answer, or something cut the stream off.  It
\* takes a peer and a service that read.
BytesArrive ==
    \A i \in Locals :
        /\ local[i].out = "ended" ~> (local[i].out = "done" \/ local[i].broken)
        /\ local[i].in = "ended" ~>
               (local[i].in = "done" \/ local[i].out = "done" \/ local[i].broken)

\* devsite-client/src/lib.rs:144 "A live connection to `daemon`, reusing the
\* cached one when there is one": a connection is not reused once it is known to
\* be closed.
ReusedIsLive == \A i \in Locals : ~local[i].stale
=============================================================================

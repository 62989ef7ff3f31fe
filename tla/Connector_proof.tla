--------------------------- MODULE Connector_proof ---------------------------
(***************************************************************************)
(* Proofs about Connector, for any number of local connections, connections*)
(* of the transport and stops of the daemon.                               *)
(***************************************************************************)
EXTENDS Connector, TLAPS

-----------------------------------------------------------------------------
(* Tasks and what they hold.                                               *)

\* The phases of a task that has a connection, or an attempt at one.
Attached == {"dialing", "opening", "requested", "streaming"}

LEMMA NoLocalType ==
    /\ NoLocal \in LocalTasks
    /\ NoLocal.phase \notin Attached /\ NoLocal.via = NoConnection
    /\ ~NoLocal.near /\ ~NoLocal.far
  BY DEF NoLocal, LocalTasks, Attached

LEMMA TornNear ==
    ASSUME NEW i, local[i] \in LocalTasks
    PROVE  /\ Torn(i, "near") \in LocalTasks
           /\ Torn(i, "near").phase = local[i].phase
           /\ Torn(i, "near").via = local[i].via
           /\ ~Torn(i, "near").near
  BY DEF Torn, LocalTasks

LEMMA TornFar ==
    ASSUME NEW i, local[i] \in LocalTasks
    PROVE  /\ Torn(i, "far") \in LocalTasks
           /\ Torn(i, "far").phase = local[i].phase
           /\ Torn(i, "far").via = local[i].via
           /\ Torn(i, "far").near = local[i].near
  BY DEF Torn, LocalTasks

\* Everything but the tasks.
StatesOK ==
    /\ tunnel \in {"off", "listening", "stopping", "over"}
    /\ up \in BOOLEAN
    /\ stops \in 0 .. MaxStops
    /\ connection \in [Connections ->
           {"unused", "dialing", "open", "lost", "dead", "closed"}]
    /\ cache \in Connections \cup {NoConnection}

TasksOK ==
    /\ local \in [Locals -> LocalTasks]
    /\ \A i \in Locals :
           local[i].phase \in Attached =>
               local[i].via \in Connections

LEMMA TypeParts == TypeOK <=> StatesOK /\ TasksOK
  BY DEF TypeOK, StatesOK, TasksOK, Attached

\* Nobody holds a connection that is closed.
Inv == StatesOK /\ TasksOK /\ InUseStaysOpen

LEMMA InitInv == Init => Inv
  BY ConnectorAssumption, NoLocalType
     DEF Init, Inv, StatesOK, TasksOK, InUseStaysOpen

\* A step of one task: what it holds afterwards it held before, or has just
\* taken, and what was closed on the way was neither cached nor held by another.
LEMMA OneTask ==
    ASSUME Inv, StatesOK', NEW i \in Locals, NEW t \in LocalTasks,
           local' = [local EXCEPT ![i] = t],
           t.phase \in Attached => t.via \in Connections,
           \A c \in Connections :
               connection'[c] = "closed" =>
                   /\ cache' # c
                   /\ ~(t.near /\ t.via = c)
                   /\ \A j \in Locals \ {i} : ~(local[j].near /\ local[j].via = c)
    PROVE  Inv'
  <1>1. \A j \in Locals : local'[j] = IF j = i THEN t ELSE local[j]
    BY DEF Inv, TasksOK
  <1>2. TasksOK'
    BY <1>1 DEF Inv, TasksOK
  <1>3. InUseStaysOpen'
    BY <1>1 DEF InUseStaysOpen
  <1> QED
    BY <1>2, <1>3 DEF Inv

\* A step of one task that leaves everything else alone and takes nothing.
LEMMA KeepInv ==
    ASSUME Inv, NEW i \in Locals, NEW t \in LocalTasks, Keep(i, t),
           t.phase \in Attached => t.via \in Connections,
           t.near => local[i].near /\ t.via = local[i].via
    PROVE  Inv'
  <1>1. UNCHANGED <<tunnel, up, stops, connection, cache>>
        /\ local' = [local EXCEPT ![i] = t]
    BY DEF Keep, daemonVars
  <1>2. StatesOK'
    BY <1>1 DEF Inv, StatesOK
  <1>3. ASSUME NEW c \in Connections, connection'[c] = "closed"
        PROVE  /\ cache' # c
               /\ ~(t.near /\ t.via = c)
               /\ \A j \in Locals \ {i} : ~(local[j].near /\ local[j].via = c)
    BY <1>1, <1>3 DEF Inv, InUseStaysOpen
  <1> QED
    BY <1>1, <1>2, <1>3, OneTask

\* A task that ends, or stops holding its connection.
LEMMA ReleaseInv ==
    ASSUME Inv, NEW i \in Locals, NEW t \in LocalTasks,
           local' = [local EXCEPT ![i] = t],
           t.phase \in Attached => t.via \in Connections,
           ~t.near,
           connection' = Released(i, cache),
           UNCHANGED <<tunnel, up, stops, cache>>
    PROVE  Inv'
  <1>1. StatesOK'
    BY DEF Inv, StatesOK, Released
  <1>2. ASSUME NEW c \in Connections, connection'[c] = "closed"
        PROVE  /\ cache # c
               /\ \A j \in Locals \ {i} : ~(local[j].near /\ local[j].via = c)
    <2>1. CASE connection[c] = "closed"
      BY <2>1 DEF Inv, InUseStaysOpen
    <2>2. CASE connection[c] # "closed"
      <3>1. c # cache /\ OthersOn(c, i) = {}
        BY <1>2, <2>2 DEF Released
      <3> QED
        BY <3>1 DEF OthersOn
    <2> QED
      BY <2>1, <2>2
  <1> QED
    BY <1>1, <1>2, OneTask

-----------------------------------------------------------------------------
(* The life of the tunnel, the transport and the daemon.                   *)

LEMMA ExitInv ==
    ASSUME Inv, Exit, UNCHANGED daemonVars
    PROVE  Inv'
  <1>1. StatesOK'
    BY DEF Inv, StatesOK, Exit, daemonVars
  <1>2. ASSUME NEW i \in Locals
        PROVE  /\ local'[i] \in LocalTasks /\ ~local'[i].near
               /\ local'[i].phase \in Attached =>
                      local'[i].via \in Connections
    <2>1. CASE Streaming(i)
      <3>1. local'[i] = Torn(i, "near")
        BY <2>1 DEF Exit
      <3> QED
        BY <3>1, TornNear DEF Inv, TasksOK
    <2>2. CASE ~Streaming(i)
      BY <2>2, NoLocalType DEF Exit
    <2> QED
      BY <2>1, <2>2
  <1>3. local' = [i \in Locals |-> local'[i]] /\ cache' = NoConnection
    BY DEF Exit
  <1> QED
    BY <1>1, <1>2, <1>3, ConnectorAssumption DEF Inv, TasksOK, InUseStaysOpen

LEMMA LifeInv ==
    ASSUME Inv, Connect \/ Abort \/ CtrlC \/ CloseClient
    PROVE  Inv'
  <1>1. CASE Connect \/ CtrlC
    BY <1>1 DEF Connect, CtrlC, Inv, StatesOK, TasksOK, InUseStaysOpen, daemonVars
  <1>2. CASE Abort \/ CloseClient
    BY <1>2, ExitInv DEF Abort, CloseClient
  <1> QED
    BY <1>1, <1>2

LEMMA DaemonInv ==
    ASSUME Inv, DaemonStops \/ DaemonStarts
    PROVE  Inv'
  <1>1. CASE DaemonStops
    <2>1. StatesOK'
      <3>1. stops' \in 0 .. MaxStops
        BY <1>1, ConnectorAssumption DEF DaemonStops, Inv, StatesOK
      <3> QED
        BY <1>1, <3>1 DEF DaemonStops, Inv, StatesOK
    <2>2. ASSUME NEW i \in Locals
          PROVE  /\ local'[i] \in LocalTasks
                 /\ local'[i].phase = local[i].phase
                 /\ local'[i].via = local[i].via
                 /\ local'[i].near = local[i].near
      <3>1. \/ local'[i] = Torn(i, "far")
            \/ local'[i] = local[i]
        BY <1>1 DEF DaemonStops
      <3> QED
        BY <3>1, TornFar DEF Inv, TasksOK
    <2>3. local' = [i \in Locals |-> local'[i]] /\ cache' = cache
      BY <1>1 DEF DaemonStops
    <2>4. \A c \in Connections : connection'[c] = "closed" => connection[c] = "closed"
      BY <1>1 DEF DaemonStops
    <2> QED
      BY <2>1, <2>2, <2>3, <2>4 DEF Inv, TasksOK, InUseStaysOpen
  <1>2. CASE DaemonStarts
    BY <1>2 DEF DaemonStarts, Inv, StatesOK, TasksOK, InUseStaysOpen
  <1> QED
    BY <1>1, <1>2

LEMMA NoticeLossInv ==
    ASSUME Inv, NEW c \in Connections, NoticeLoss(c)
    PROVE  Inv'
  BY DEF NoticeLoss, Inv, StatesOK, TasksOK, InUseStaysOpen, daemonVars

-----------------------------------------------------------------------------
(* forward_connection.                                                     *)

LEMMA AcceptInv ==
    ASSUME Inv, NEW i \in Locals, Accept(i)
    PROVE  Inv'
  <1> DEFINE t == [NoLocal EXCEPT !.phase = "asking", !.near = TRUE]
  <1>1. /\ t \in LocalTasks /\ t.phase = "asking" /\ t.via = NoConnection
    BY DEF NoLocal, LocalTasks
  <1>2. /\ local' = [local EXCEPT ![i] = t]
        /\ UNCHANGED <<tunnel, up, stops, connection, cache>>
    BY DEF Accept, daemonVars
  <1>3. StatesOK'
    BY <1>2 DEF Inv, StatesOK
  <1>4. ASSUME NEW c \in Connections, connection'[c] = "closed"
        PROVE  /\ cache' # c
               /\ ~(t.near /\ t.via = c)
               /\ \A j \in Locals \ {i} : ~(local[j].near /\ local[j].via = c)
    BY <1>1, <1>2, <1>4, ConnectorAssumption DEF Inv, InUseStaysOpen
  <1> HIDE DEF t
  <1> QED
    BY <1>1, <1>2, <1>3, <1>4, OneTask DEF Attached

LEMMA CapabilityFailsInv ==
    ASSUME Inv, NEW i \in Locals, CapabilityFails(i)
    PROVE  Inv'
  <1>1. Keep(i, NoLocal)
    BY DEF CapabilityFails, Failed, Keep
  <1> QED
    BY <1>1, NoLocalType, KeepInv

\* The cached connection is not closed, so the task does not take a closed one.
LEMMA ReuseInv ==
    ASSUME Inv, NEW i \in Locals, Reuse(i)
    PROVE  Inv'
  <1> DEFINE gone == connection[cache] \in {"dead", "closed"}
             t == [local[i] EXCEPT !.phase = "opening", !.via = cache, !.stale = gone]
  <1>1. cache \in Connections /\ local[i] \in LocalTasks /\ gone \in BOOLEAN
    BY DEF Reuse, Inv, StatesOK, TasksOK
  <1>2. /\ t \in LocalTasks /\ t.via = cache
    <2> HIDE DEF gone
    <2> QED
      BY <1>1 DEF LocalTasks
  <1>3. /\ local' = [local EXCEPT ![i] = t]
        /\ UNCHANGED <<tunnel, up, stops, connection, cache>>
    BY DEF Reuse, daemonVars
  <1>4. StatesOK'
    BY <1>3 DEF Inv, StatesOK
  <1>5. ASSUME NEW c \in Connections, connection'[c] = "closed"
        PROVE  /\ cache' # c
               /\ ~(t.near /\ t.via = c)
               /\ \A j \in Locals \ {i} : ~(local[j].near /\ local[j].via = c)
    BY <1>2, <1>3, <1>5 DEF Inv, InUseStaysOpen
  <1> HIDE DEF t
  <1> QED
    BY <1>1, <1>2, <1>3, <1>4, <1>5, OneTask

LEMMA DialInv ==
    ASSUME Inv, NEW i \in Locals, NEW d \in Connections, Dial(i, d)
    PROVE  Inv'
  <1> DEFINE t == [local[i] EXCEPT !.phase = "dialing", !.via = d]
  <1>1. local[i] \in LocalTasks
    BY DEF Inv, TasksOK
  <1>2. t \in LocalTasks /\ t.via = d
    BY <1>1 DEF LocalTasks
  <1>3. /\ local' = [local EXCEPT ![i] = t]
        /\ connection' = [connection EXCEPT ![d] = "dialing"]
        /\ UNCHANGED <<tunnel, up, stops, cache>>
    BY DEF Dial, daemonVars
  <1>4. StatesOK'
    BY <1>3 DEF Inv, StatesOK
  <1>5. ASSUME NEW c \in Connections, connection'[c] = "closed"
        PROVE  /\ cache' # c
               /\ ~(t.near /\ t.via = c)
               /\ \A j \in Locals \ {i} : ~(local[j].near /\ local[j].via = c)
    <2>1. c # d /\ connection[c] = "closed"
      BY <1>3, <1>5 DEF Inv, StatesOK
    <2> QED
      BY <1>2, <1>3, <2>1 DEF Inv, InUseStaysOpen
  <1> HIDE DEF t
  <1> QED
    BY <1>2, <1>3, <1>4, <1>5, OneTask

\* The connection that is replaced closes only when no other task holds it, and
\* it is not the one that replaces it.
LEMMA DialedInv ==
    ASSUME Inv, NEW i \in Locals, Dialed(i)
    PROVE  Inv'
  <1> DEFINE t == [local[i] EXCEPT !.phase = "opening"]
             d == local[i].via
  <1>1. local[i] \in LocalTasks /\ d \in Connections
    BY DEF Inv, TasksOK, Dialed, Attached
  <1>2. t \in LocalTasks /\ t.via = d
    BY <1>1 DEF LocalTasks
  <1>3. /\ local' = [local EXCEPT ![i] = t]
        /\ connection' = [b \in Connections |->
              IF b = d THEN "open"
              ELSE IF b = cache /\ OthersOn(b, i) = {} /\ connection[b] = "open"
              THEN "closed"
              ELSE connection[b]]
        /\ cache' = d
        /\ UNCHANGED <<tunnel, up, stops>>
    BY <1>1 DEF Dialed, daemonVars, Inv, TasksOK
  <1>4. StatesOK'
    BY <1>1, <1>3 DEF Inv, StatesOK
  <1>5. ASSUME NEW c \in Connections, connection'[c] = "closed"
        PROVE  /\ cache' # c
               /\ ~(t.near /\ t.via = c)
               /\ \A j \in Locals \ {i} : ~(local[j].near /\ local[j].via = c)
    <2>1. c # d
      BY <1>3, <1>5
    <2>2. \/ connection[c] = "closed"
          \/ OthersOn(c, i) = {}
      BY <1>3, <1>5, <2>1
    <2>3. \A j \in Locals \ {i} : ~(local[j].near /\ local[j].via = c)
      BY <2>2 DEF OthersOn, Inv, InUseStaysOpen
    <2> QED
      BY <1>2, <1>3, <2>1, <2>3
  <1>6. t \in LocalTasks /\ t.via \in Connections
    BY <1>1, <1>2
  <1>7. local' = [local EXCEPT ![i] = t]
    BY <1>3
  <1> HIDE DEF t
  <1> QED
    BY <1>4, <1>5, <1>6, <1>7, OneTask

LEMMA DialFailsInv ==
    ASSUME Inv, NEW i \in Locals, DialFails(i)
    PROVE  Inv'
  <1>1. /\ local' = [local EXCEPT ![i] = NoLocal]
        /\ connection' = [connection EXCEPT ![local[i].via] = "unused"]
        /\ UNCHANGED <<tunnel, up, stops, cache>>
    BY DEF DialFails, Failed, daemonVars
  <1>2. StatesOK'
    BY <1>1 DEF Inv, StatesOK
  <1>3. ASSUME NEW c \in Connections, connection'[c] = "closed"
        PROVE  /\ cache' # c
               /\ ~(NoLocal.near /\ NoLocal.via = c)
               /\ \A j \in Locals \ {i} : ~(local[j].near /\ local[j].via = c)
    <2>1. connection[c] = "closed"
      BY <1>1, <1>3 DEF Inv, StatesOK
    <2> QED
      BY <1>1, <2>1, NoLocalType DEF Inv, InUseStaysOpen
  <1> QED
    BY <1>1, <1>2, <1>3, NoLocalType, OneTask

LEMMA OpenedInv ==
    ASSUME Inv, NEW i \in Locals, Opened(i)
    PROVE  Inv'
  <1> DEFINE t == [local[i] EXCEPT !.phase = "streaming", !.far = TRUE]
  <1>1. /\ t \in LocalTasks /\ t.via = local[i].via /\ t.near = local[i].near
        /\ t.via \in Connections
    BY DEF Opened, Inv, TasksOK, LocalTasks, Attached
  <1>2. Keep(i, t)
    BY DEF Opened, Keep
  <1> HIDE DEF t
  <1> QED
    BY <1>1, <1>2, KeepInv

LEMMA OpenBiInv ==
    ASSUME Inv, NEW i \in Locals, OpenBi(i)
    PROVE  Inv'
  <1> DEFINE t == [local[i] EXCEPT !.phase = "requested"]
  <1>1. /\ t \in LocalTasks /\ t.via = local[i].via /\ t.near = local[i].near
        /\ t.via \in Connections
    BY DEF OpenBi, Inv, TasksOK, LocalTasks, Attached
  <1>2. Keep(i, t)
    BY DEF OpenBi, Keep, Inv, TasksOK
  <1> HIDE DEF t
  <1> QED
    BY <1>1, <1>2, KeepInv

LEMMA OpenFailsInv ==
    ASSUME Inv, NEW i \in Locals, Refused(i) \/ OpenFails(i)
    PROVE  Inv'
  BY NoLocalType, ReleaseInv DEF Refused, OpenFails, Failed, daemonVars, Attached

-----------------------------------------------------------------------------
(* The copy loops.                                                         *)

\* The bytes under way are no part of the invariant.
LEMMA BytesInv ==
    ASSUME Inv, NEW i \in Locals,
           Ends(i) \/ Finish(i) \/ Deliver(i) \/ FarDone(i)
    PROVE  Inv'
  <1>1. PICK t : /\ Keep(i, t)
                 /\ \/ \E v \in {"ended", "sent", "done"} :
                          \/ t = [local[i] EXCEPT !.in = v]
                          \/ t = [local[i] EXCEPT !.out = v]
                    \/ t = [local[i] EXCEPT !.far = FALSE]
    <2>1. CASE Ends(i)
      BY <2>1 DEF Ends
    <2>2. CASE Finish(i)
      BY <2>2 DEF Finish
    <2>3. CASE Deliver(i)
      BY <2>3 DEF Deliver
    <2>4. CASE FarDone(i)
      BY <2>4 DEF FarDone, Keep
    <2> QED
      BY <2>1, <2>2, <2>3, <2>4
  <1>2. local[i] \in LocalTasks
        /\ (local[i].phase \in Attached =>
               local[i].via \in Connections)
    BY DEF Inv, TasksOK
  <1>3. /\ t \in LocalTasks /\ t.phase = local[i].phase
        /\ t.via = local[i].via /\ t.near = local[i].near
    BY <1>1, <1>2 DEF LocalTasks
  <1> QED
    BY <1>1, <1>2, <1>3, KeepInv

LEMMA NearDoneInv ==
    ASSUME Inv, NEW i \in Locals, NearDone(i)
    PROVE  Inv'
  <1> DEFINE t == [local[i] EXCEPT !.near = FALSE]
  <1>0. /\ local[i] \in LocalTasks
        /\ local[i].phase \in Attached => local[i].via \in Connections
    BY DEF Inv, TasksOK
  <1>1. /\ t \in LocalTasks /\ ~t.near
        /\ t.phase \in Attached => t.via \in Connections
    BY <1>0 DEF LocalTasks
  <1>2. /\ local' = [local EXCEPT ![i] = t]
        /\ connection' = Released(i, cache)
        /\ UNCHANGED <<tunnel, up, stops, cache>>
    BY DEF NearDone, daemonVars, Inv, TasksOK
  <1> HIDE DEF t
  <1> QED
    BY <1>1, <1>2, ReleaseInv

LEMMA CutInv ==
    ASSUME Inv, NEW i \in Locals, Cut(i) \/ Learn(i)
    PROVE  Inv'
  <1>1. local[i] \in LocalTasks
        /\ (local[i].phase \in Attached =>
               local[i].via \in Connections)
    BY DEF Inv, TasksOK
  <1>2. \/ /\ connection' = Released(i, cache)
           /\ local' = [local EXCEPT ![i] = Torn(i, "near")]
           /\ UNCHANGED <<tunnel, up, stops, cache>>
        \/ Keep(i, Torn(i, "far"))
    BY DEF Cut, Learn, daemonVars
  <1>3. CASE Keep(i, Torn(i, "far"))
    BY <1>1, <1>3, TornFar, KeepInv
  <1>4. CASE /\ connection' = Released(i, cache)
             /\ local' = [local EXCEPT ![i] = Torn(i, "near")]
             /\ UNCHANGED <<tunnel, up, stops, cache>>
    BY <1>1, <1>4, TornNear, ReleaseInv
  <1> QED
    BY <1>2, <1>3, <1>4

LEMMA OverInv ==
    ASSUME Inv, NEW i \in Locals, Over(i)
    PROVE  Inv'
  BY NoLocalType, KeepInv DEF Over

-----------------------------------------------------------------------------

LEMMA InvStep == Inv /\ [Next]_vars => Inv'
  <1> SUFFICES ASSUME Inv, [Next]_vars PROVE Inv'
    OBVIOUS
  <1>1. CASE Connect \/ Abort \/ CtrlC \/ CloseClient
    BY <1>1, LifeInv
  <1>2. CASE DaemonStops \/ DaemonStarts
    BY <1>2, DaemonInv
  <1>3. ASSUME NEW c \in Connections, NoticeLoss(c) PROVE Inv'
    BY <1>3, NoticeLossInv
  <1>4. ASSUME NEW i \in Locals, Accept(i) \/ Ends(i) \/ Cut(i) PROVE Inv'
    BY <1>4, AcceptInv, BytesInv, CutInv
  <1>5. ASSUME NEW i \in Locals, Task(i) PROVE Inv'
    BY <1>5, CapabilityFailsInv, ReuseInv, DialInv, DialedInv, DialFailsInv, OpenBiInv,
       OpenedInv, OpenFailsInv, BytesInv, NearDoneInv, CutInv, OverInv
       DEF Task, Copy
  <1>6. CASE UNCHANGED vars
    BY <1>6 DEF vars, daemonVars, Inv, StatesOK, TasksOK, InUseStaysOpen
  <1> QED
    BY <1>1, <1>2, <1>3, <1>4, <1>5, <1>6 DEF Next

\* Every variable keeps its type; a task that dials, asks for a stream or has one
\* holds a connection (connection_to, forward_connection).
THEOREM TypeCorrect == Spec => []TypeOK
  <1>1. Inv => TypeOK
    BY TypeParts DEF Inv
  <1> QED
    BY InitInv, InvStep, <1>1, PTL DEF Spec

\* A connection closes only when neither the cache nor a task refers to it: two
\* tasks that found the cache empty replace each other's connection, and the one
\* that is replaced lives on for the tasks that use it.
THEOREM ConnectionsStayOpen == Spec => []InUseStaysOpen
  <1>1. Inv => InUseStaysOpen
    BY DEF Inv
  <1> QED
    BY InitInv, InvStep, <1>1, PTL DEF Spec
=============================================================================

---------------------------- MODULE Daemon_proof ----------------------------
(***************************************************************************)
(* Proofs about Daemon, for any sets of accounts, services, keys, nonces   *)
(* and stream tasks, any clock drift and any values of the time constants. *)
(***************************************************************************)
EXTENDS Daemon, TLAPS

-----------------------------------------------------------------------------
(* Lemmas about the operators.                                             *)

\* Issuer::issue signs well-formed claims.
LEMMA IssueType ==
    ASSUME NEW p \in Pairs, NEW a \in Endpoints, NEW c \in Clients,
           NEW n \in Nonces, NEW t \in Nat
    PROVE  Issue(p, a, c, t, n) \in Claims
  <1>1. t + Lifetime \in Nat
    BY CapabilityAssumption
  <1>2. p[1] \in Accounts /\ p[2] \in Services
    BY DEF Pairs
  <1> QED
    BY <1>1, <1>2 DEF Issue, Claims

\* What Admit does to a task's record.
LEMMA DialType ==
    ASSUME NEW r \in Streams
    PROVE  [r EXCEPT !.phase = "dialing", !.clock = 0, !.services = {}]
             \in Streams
  <1>1. [r EXCEPT !.phase = "dialing"] \in Streams
    BY DEF Streams
  <1>2. ASSUME NEW q \in Streams PROVE [q EXCEPT !.clock = 0] \in Streams
    BY DEF Streams
  <1>3. ASSUME NEW q \in Streams PROVE [q EXCEPT !.services = {}] \in Streams
    BY DEF Streams
  <1> QED
    BY <1>1, <1>2, <1>3

\* The guard's two results are sets of entries.
LEMMA GuardType ==
    ASSUME NEW g \in SUBSET Entries, NEW c \in Claims, NEW t \in Int
    PROVE  /\ Retained(g, t) \in SUBSET Entries
           /\ Recorded(g, c, t) \in SUBSET Entries
  BY DEF Retained, Recorded, Entries, Entry, Claims

\* cancel_where changes nothing but phases, from active to cancelled, and
\* leaves no stream active whose pair it does not keep.
LEMMA CancelWhereEffect ==
    ASSUME stream \in [StreamIds -> Streams], NEW kept
    PROVE  /\ CancelWhere(kept) \in [StreamIds -> Streams]
           /\ \A s \in StreamIds :
                /\ CancelWhere(kept)[s].claims = stream[s].claims
                /\ CancelWhere(kept)[s].since = stream[s].since
                /\ CancelWhere(kept)[s].clock = stream[s].clock
                /\ CancelWhere(kept)[s].phase = "active" =>
                     /\ stream[s].phase = "active"
                     /\ Pair(stream[s]) \in kept
                /\ CancelWhere(kept)[s].phase = "idle" => stream[s].phase = "idle"
                /\ CancelWhere(kept)[s].phase \in {"reading", "dialing"} =>
                     CancelWhere(kept)[s] = stream[s]
  BY DEF CancelWhere, Streams, Pair

\* A step that cancels some streams keeps the types of the stream tasks.
LEMMA CancelType ==
    ASSUME TypeOK, issued' = issued, NEW kept, stream' = CancelWhere(kept)
    PROVE  /\ stream' \in [StreamIds -> Streams]
           /\ \A s \in StreamIds :
                stream'[s].phase # "idle" => stream'[s].claims \in issued'
  <1>1. stream \in [StreamIds -> Streams]
    BY DEF TypeOK
  <1>2. \A s \in StreamIds :
          /\ CancelWhere(kept)[s].claims = stream[s].claims
          /\ CancelWhere(kept)[s].phase = "idle" <=> stream[s].phase = "idle"
    BY <1>1 DEF CancelWhere, Streams
  <1>3. CancelWhere(kept) \in [StreamIds -> Streams]
    BY <1>1, CancelWhereEffect
  <1> QED
    BY <1>2, <1>3 DEF TypeOK

\* The skipping interval is next due strictly later, by at most one period.
LEMMA NextTickBounds ==
    ASSUME now \in Nat, NEW due \in Nat
    PROVE  /\ NextTick(due) \in Nat
           /\ now < NextTick(due)
           /\ NextTick(due) <= now + Refresh
  <1>1. Refresh \in Nat \ {0}
    BY DaemonAssumption
  <1>2. (now - due) % Refresh \in 0 .. (Refresh - 1)
    BY <1>1
  <1> QED
    BY <1>1, <1>2 DEF NextTick

-----------------------------------------------------------------------------
(* Type correctness.                                                       *)

LEMMA InitType == Init => TypeOK
  <1> SUFFICES ASSUME Init PROVE TypeOK
    OBVIOUS
  <1>1. drift \in Int
    BY DaemonAssumption DEF Init
  <1>2. Idle \in Streams
    BY DEF Idle, Streams
  <1>3. Unasked \in [phase : {"waiting", "asked", "answered"},
                     allowed : SUBSET Pairs, at : Nat]
    BY DEF Unasked
  <1> QED
    BY <1>1, <1>2, <1>3 DEF Init, TypeOK, Idle

\* Every step of every task keeps the types.
LEMMA NextType == TypeOK /\ [Next]_vars => TypeOK'
  <1> SUFFICES ASSUME TypeOK, [Next]_vars PROVE TypeOK'
    OBVIOUS
  <1> USE DEF TypeOK
  <1>i. Idle \in Streams /\ Idle.phase = "idle"
    BY DEF Idle, Streams
  <1>u. Unasked \in [phase : {"waiting", "asked", "answered"},
                     allowed : SUBSET Pairs, at : Nat]
    BY DEF Unasked
  <1>1. ASSUME NEW p \in Pairs, Grant(p) PROVE TypeOK'
    BY <1>1 DEF Grant, configVars, guardVars, syncVars
  <1>2. ASSUME NEW p \in Pairs, Revoke(p) PROVE TypeOK'
    BY <1>2 DEF Revoke, configVars, guardVars, syncVars
  <1>3. ASSUME NEW p \in Pairs, NEW a \in Endpoints, NEW c \in Clients,
               NEW n \in Nonces, IssueCapability(p, a, c, n)
        PROVE  TypeOK'
    <2>1. Issue(p, a, c, now, n) \in Claims
      BY IssueType
    <2> QED
      BY <1>3, <2>1 DEF IssueCapability, configVars, guardVars, syncVars
  <1>4. ASSUME NEW s \in StreamIds, StreamTask(s) PROVE TypeOK'
    <2> USE DEF controlVars, configVars, guardVars, syncVars
    <2>1. ASSUME NEW c \in issued, NEW peer \in Clients, Receive(s, c, peer)
          PROVE  TypeOK'
      <3>1. Clock \in Int
        BY DEF Clock
      <3>2. [phase |-> "reading", claims |-> c, peer |-> peer,
             clock |-> Clock, services |-> targets, since |-> 0] \in Streams
        BY <3>1 DEF Streams
      <3> QED
        BY <2>1, <3>2 DEF Receive
    <2>2. CASE Refuse(s)
      BY <2>2, <1>i DEF Refuse
    <2>3. CASE RefuseReplay(s)
      <3>1. stream[s].claims \in Claims /\ stream[s].clock \in Int
        BY <2>3 DEF RefuseReplay, Streams
      <3>2. Retained(seen, stream[s].clock) \in SUBSET Entries
        BY <3>1, GuardType
      <3> QED
        BY <2>3, <3>2, <1>i DEF RefuseReplay
    <2>4. CASE Admit(s)
      <3>1. stream[s].claims \in issued /\ stream[s].clock \in Int
        BY <2>4 DEF Admit, Streams
      <3>2. Recorded(seen, stream[s].claims, stream[s].clock) \in SUBSET Entries
        BY <3>1, GuardType
      <3>3. [stream[s] EXCEPT !.phase = "dialing", !.clock = 0,
                              !.services = {}] \in Streams
        BY DialType
      <3> QED
        BY <2>4, <3>1, <3>2, <3>3 DEF Admit
    <2>5. CASE DialFails(s)
      BY <2>5, <1>i DEF DialFails
    <2>6. CASE Activate(s)
      <3>1. [stream[s] EXCEPT !.phase = "active", !.since = now] \in Streams
        <4>1. stream[s] \in Streams /\ now \in Nat
          OBVIOUS
        <4> QED
          BY <4>1 DEF Streams
      <3> QED
        BY <2>6, <3>1 DEF Activate
    <2>7. CASE Finish(s)
      BY <2>7, <1>i DEF Finish
    <2> QED
      BY <1>4, <2>1, <2>2, <2>3, <2>4, <2>5, <2>6, <2>7 DEF StreamTask
  <1>5. CASE ConfigTask
    <2> USE DEF controlVars, configVars, guardVars, syncVars
    <2>1. ASSUME NEW services \in SUBSET Services, EditConfig(services)
          PROVE  TypeOK'
      BY <2>1 DEF EditConfig
    <2>2. CASE TearConfig
      BY <2>2 DEF TearConfig
    <2>3. CASE Reload
      BY <2>3, CancelType DEF Reload
    <2> QED
      BY <1>5, <2>1, <2>2, <2>3 DEF ConfigTask
  <1>6. CASE SyncTask
    <2> USE DEF controlVars, configVars, guardVars, syncVars
    <2>1. CASE SyncTick
      BY <2>1, NextTickBounds DEF SyncTick
    <2>2. CASE SyncAnswered
      BY <2>2 DEF SyncAnswered
    <2>3. CASE SyncApplied
      BY <2>3, <1>u, CancelType DEF SyncApplied
    <2>4. CASE SyncFailed
      BY <2>4, <1>u, CancelType DEF SyncFailed
    <2> QED
      BY <1>6, <2>1, <2>2, <2>3, <2>4 DEF SyncTask
  <1>7. CASE Restart
    BY <1>7, <1>i, <1>u DEF Restart, controlVars
  <1>8. CASE Tick
    BY <1>8 DEF Tick, controlVars, configVars, guardVars, syncVars
  <1>9. CASE UNCHANGED vars
    BY <1>9 DEF vars, controlVars, configVars, guardVars, syncVars
  <1> QED
    BY <1>1, <1>2, <1>3, <1>4, <1>5, <1>6, <1>7, <1>8, <1>9
    DEF Next, ControlPlane

\* The daemon's variables, and those it can observe of the control plane,
\* always have their types.
THEOREM TypeCorrect == Spec => []TypeOK
  BY InitType, NextType, PTL DEF Spec

-----------------------------------------------------------------------------
(* The replay guard.                                                       *)

\* The strengthening: the clock a waiting task carries is not ahead of the
\* daemon's, and every admitted capability that still has time left is in
\* the guard.
GuardInv ==
    /\ \A s \in StreamIds :
         stream[s].phase = "reading" => stream[s].clock <= Clock
    /\ \A c \in admitted : c.expires_at > Clock => Entry(c) \in seen

\* The retain of a task whose clock is behind keeps what GuardInv needs.
LEMMA RetainKeepsLive ==
    ASSUME TypeOK, GuardInv, NEW t \in Int, t <= Clock, NEW c \in admitted,
           c.expires_at > Clock
    PROVE  Entry(c) \in Retained(seen, t)
  <1>1. c.expires_at \in Nat /\ Clock \in Int
    BY DEF TypeOK, Claims, Clock
  <1>2. Entry(c).expiry = c.expires_at
    BY DEF Entry
  <1> QED
    BY <1>1, <1>2 DEF GuardInv, Retained

LEMMA InitGuard == Init => GuardInv
  BY DEF Init, GuardInv, Idle

LEMMA NextGuard == TypeOK /\ GuardInv /\ [Next]_vars => GuardInv'
  <1> SUFFICES ASSUME TypeOK, GuardInv, [Next]_vars PROVE GuardInv'
    OBVIOUS
  <1>c. Clock \in Int
    BY DEF TypeOK, Clock
  <1>1. CASE ControlPlane
    BY <1>1 DEF ControlPlane, Grant, Revoke, IssueCapability, GuardInv, Clock,
                configVars, guardVars, syncVars
  <1>2. ASSUME NEW s \in StreamIds, StreamTask(s) PROVE GuardInv'
    <2> stream \in [StreamIds -> Streams]
      BY DEF TypeOK
    <2>1. ASSUME NEW c \in issued, NEW peer \in Clients, Receive(s, c, peer)
          PROVE  GuardInv'
      BY <2>1, <1>c DEF Receive, GuardInv, Clock, guardVars
    <2>2. CASE RefuseReplay(s)
      <3>1. stream[s].clock \in Int /\ stream[s].clock <= Clock
        BY <2>2 DEF RefuseReplay, GuardInv, Streams
      <3>2. \A c \in admitted' : c.expires_at > Clock' => Entry(c) \in seen'
        BY <2>2, <3>1, RetainKeepsLive DEF RefuseReplay, Clock
      <3>3. \A q \in StreamIds :
              stream'[q].phase = "reading" => stream'[q].clock <= Clock'
        BY <2>2 DEF RefuseReplay, GuardInv, Clock, Idle
      <3> QED
        BY <3>2, <3>3 DEF GuardInv
    <2>3. CASE Admit(s)
      <3>1. stream[s].clock \in Int /\ stream[s].clock <= Clock
        BY <2>3 DEF Admit, GuardInv, Streams
      <3>2. ASSUME NEW c \in admitted', c.expires_at > Clock'
            PROVE  Entry(c) \in seen'
        <4>1. CASE c = stream[s].claims
          BY <2>3, <4>1 DEF Admit, Recorded
        <4>2. CASE c \in admitted
          <5>1. c.expires_at > Clock
            BY <2>3, <3>2 DEF Admit, Clock
          <5>2. Entry(c) \in Retained(seen, stream[s].clock)
            BY <5>1, <3>1, <4>2, RetainKeepsLive
          <5> QED
            BY <2>3, <5>2 DEF Admit, Recorded
        <4> QED
          BY <2>3, <3>2, <4>1, <4>2 DEF Admit
      <3>3. \A q \in StreamIds :
              stream'[q].phase = "reading" => stream'[q].clock <= Clock'
        BY <2>3 DEF Admit, GuardInv, Clock
      <3> QED
        BY <3>2, <3>3 DEF GuardInv
    <2>4. CASE Refuse(s) \/ DialFails(s) \/ Activate(s) \/ Finish(s)
      <3>1. \A q \in StreamIds :
              stream'[q].phase = "reading" => stream'[q] = stream[q]
        <4>1. CASE Refuse(s) \/ DialFails(s) \/ Finish(s)
          BY <4>1 DEF Refuse, DialFails, Finish, Idle
        <4>2. CASE Activate(s)
          BY <4>2 DEF Activate, Streams
        <4> QED
          BY <2>4, <4>1, <4>2
      <3>2. UNCHANGED <<now, drift, guardVars>>
        BY <2>4 DEF Refuse, DialFails, Activate, Finish
      <3> QED
        BY <3>1, <3>2 DEF GuardInv, Clock, guardVars
    <2> QED
      BY <1>2, <2>1, <2>2, <2>3, <2>4 DEF StreamTask
  <1>3. ASSUME NEW kept, stream' = CancelWhere(kept),
               UNCHANGED <<now, drift, guardVars>>
        PROVE  GuardInv'
    <2>1. \A q \in StreamIds :
            stream'[q].phase = "reading" => stream'[q] = stream[q]
      BY <1>3, CancelWhereEffect DEF TypeOK
    <2> QED
      BY <1>3, <2>1 DEF GuardInv, Clock, guardVars
  <1>4. ASSUME UNCHANGED <<now, drift, guardVars, stream>> PROVE GuardInv'
    BY <1>4 DEF GuardInv, Clock, guardVars
  <1>5. CASE ConfigTask
    BY <1>5, <1>3, <1>4 DEF ConfigTask, EditConfig, TearConfig, Reload
  <1>6. CASE SyncTask
    BY <1>6, <1>3, <1>4
    DEF SyncTask, SyncTick, SyncAnswered, SyncApplied, SyncFailed
  <1>7. CASE Restart
    BY <1>7 DEF Restart, GuardInv, Idle
  <1>8. CASE Tick
    <2>1. Clock' = Clock + 1 /\ guardVars' = guardVars /\ stream' = stream
      BY <1>8 DEF Tick, Clock, TypeOK
    <2>2. \A q \in StreamIds : stream[q].clock \in Int
      BY DEF TypeOK, Streams
    <2>3. \A c \in admitted : c.expires_at \in Nat
      BY DEF TypeOK, Claims
    <2> QED
      BY <2>1, <2>2, <2>3, <1>c DEF GuardInv, guardVars
  <1>9. CASE UNCHANGED vars
    BY <1>9, <1>4 DEF vars
  <1> QED
    BY <1>1, <1>2, <1>5, <1>6, <1>7, <1>8, <1>9 DEF Next

\* A task only gets from reading to dialing by Admit.
LEMMA OnlyAdmitDials ==
    ASSUME TypeOK, [Next]_vars, NEW s \in StreamIds,
           stream[s].phase = "reading", stream'[s].phase = "dialing"
    PROVE  Admit(s)
  <1> stream \in [StreamIds -> Streams]
    BY DEF TypeOK
  <1>1. ASSUME NEW q \in StreamIds, StreamTask(q) PROVE Admit(s)
    <2>1. CASE Admit(q)
      BY <2>1 DEF Admit
    <2>2. ASSUME NEW c \in issued, NEW peer \in Clients, Receive(q, c, peer)
          PROVE  FALSE
      BY <2>2 DEF Receive
    <2>3. CASE Refuse(q) \/ RefuseReplay(q) \/ DialFails(q) \/ Activate(q)
               \/ Finish(q)
      BY <2>3 DEF Refuse, RefuseReplay, DialFails, Activate, Finish, Idle
    <2> QED
      BY <1>1, <2>1, <2>2, <2>3 DEF StreamTask
  <1>2. ASSUME NEW kept, stream' = CancelWhere(kept) PROVE FALSE
    BY <1>2, CancelWhereEffect
  <1>3. CASE ConfigTask
    BY <1>3, <1>2 DEF ConfigTask, EditConfig, TearConfig, Reload
  <1>4. CASE SyncTask
    BY <1>4, <1>2
    DEF SyncTask, SyncTick, SyncAnswered, SyncApplied, SyncFailed
  <1>5. CASE ControlPlane
    BY <1>5 DEF ControlPlane, Grant, Revoke, IssueCapability
  <1>6. CASE Restart
    BY <1>6 DEF Restart, Idle
  <1>7. CASE Tick \/ UNCHANGED vars
    BY <1>7 DEF Tick, vars
  <1> QED
    BY <1>1, <1>3, <1>4, <1>5, <1>6, <1>7 DEF Next

LEMMA AdmitOnceStep ==
    ASSUME TypeOK, GuardInv, [Next]_vars, NEW s \in StreamIds,
           stream[s].phase = "reading", stream'[s].phase = "dialing",
           stream[s].claims \in admitted
    PROVE  Clock >= stream[s].claims.expires_at
  <1> DEFINE c == stream[s].claims
  <1>1. Admit(s)
    BY OnlyAdmitDials
  <1>2. stream[s].clock \in Int /\ stream[s].clock <= Clock /\ Clock \in Int
    BY DEF TypeOK, GuardInv, Streams, Clock
  <1>3. c.expires_at \in Nat
    BY DEF TypeOK, Claims
  <1>4. SUFFICES ASSUME c.expires_at > Clock PROVE FALSE
    BY <1>2, <1>3
  <1>5. Entry(c) \in Retained(seen, stream[s].clock)
    BY <1>2, <1>4, RetainKeepsLive
  <1>6. Entry(c).nonce = c.nonce
    BY DEF Entry
  <1>7. Replayed(seen, c, stream[s].clock)
    BY <1>5, <1>6 DEF Replayed
  <1> QED
    BY <1>1, <1>7 DEF Admit

\* A daemon process admits a capability again only when it has run out,
\* whatever the interleaving of its stream tasks and whatever its clock drift.
THEOREM ReplayGuardHolds == Spec => AdmitOnce
  <1>1. TypeOK /\ GuardInv /\ [Next]_vars =>
          [\A s \in StreamIds :
             /\ stream[s].phase = "reading"
             /\ stream'[s].phase = "dialing"
             /\ stream[s].claims \in admitted
             => Clock >= stream[s].claims.expires_at]_vars
    BY AdmitOnceStep
  <1> QED
    BY <1>1, InitGuard, NextGuard, TypeCorrect, PTL DEF Spec, AdmitOnce

-----------------------------------------------------------------------------
(* The authorisation lease.                                                *)

\* The moment from which a stream's right to stay active must be renewed.
Deadline(s) == Later(lastSuccess + Lease, stream[s].since)

\* The strengthening of FailClosed: while a stream is active, the next request
\* is due, or was sent, within one refresh period of its deadline.
LeaseInv ==
    /\ nextSync <= now + Refresh
    /\ lastSuccess <= now
    /\ sync.phase # "waiting" =>
         /\ sync.at <= now
         /\ now <= sync.at + AnswerWithin
         /\ nextSync <= sync.at + Refresh
    /\ \A s \in StreamIds : stream[s].phase = "active" =>
         /\ stream[s].since <= now
         /\ sync.phase = "waiting" =>
              /\ nextSync <= Deadline(s) + Refresh
              /\ now <= Deadline(s) + Refresh
         /\ sync.phase # "waiting" => sync.at <= Deadline(s) + Refresh

LEMMA DeadlineType ==
    ASSUME TypeOK, NEW s \in StreamIds
    PROVE  Deadline(s) \in Nat
  BY DaemonAssumption DEF TypeOK, Deadline, Later, Streams

LEMMA InitLease == Init => LeaseInv
  BY DaemonAssumption DEF Init, LeaseInv, Idle, Unasked

\* A step that leaves time and the sync task alone, and activates nothing.
LEMMA QuietKeepsLease ==
    ASSUME TypeOK, LeaseInv, UNCHANGED <<now, sync, nextSync, lastSuccess>>,
           \A s \in StreamIds : stream'[s].phase = "active" =>
               /\ stream[s].phase = "active"
               /\ stream'[s].since = stream[s].since
    PROVE  LeaseInv'
  BY DEF LeaseInv, Deadline

LEMMA NextLease == TypeOK /\ LeaseInv /\ [Next]_vars => LeaseInv'
  <1> SUFFICES ASSUME TypeOK, LeaseInv, [Next]_vars PROVE LeaseInv'
    OBVIOUS
  <1>t. /\ now \in Nat /\ nextSync \in Nat /\ lastSuccess \in Nat
        /\ sync.at \in Nat
        /\ sync.phase \in {"waiting", "asked", "answered"}
        /\ stream \in [StreamIds -> Streams]
        /\ \A s \in StreamIds : stream[s].since \in Nat
        /\ Refresh \in Nat \ {0} /\ Lease \in Nat \ {0} /\ AnswerWithin \in Nat
    BY DaemonAssumption DEF TypeOK, Streams
  <1>1. CASE ControlPlane
    BY <1>1, QuietKeepsLease
    DEF ControlPlane, Grant, Revoke, IssueCapability, syncVars
  <1>2. ASSUME NEW s \in StreamIds, StreamTask(s) PROVE LeaseInv'
    <2>1. ASSUME NEW c \in issued, NEW peer \in Clients, Receive(s, c, peer)
          PROVE  LeaseInv'
      <3>1. \A q \in StreamIds : stream'[q].phase = "active" =>
              stream'[q] = stream[q] /\ stream[q].phase = "active"
        BY <2>1, <1>t DEF Receive
      <3> QED
        BY <2>1, <3>1, QuietKeepsLease DEF Receive, syncVars
    <2>2. CASE Refuse(s) \/ RefuseReplay(s) \/ DialFails(s) \/ Finish(s)
      <3>1. \A q \in StreamIds : stream'[q].phase = "active" =>
              stream'[q] = stream[q] /\ stream[q].phase = "active"
        BY <2>2, <1>t DEF Refuse, RefuseReplay, DialFails, Finish, Idle
      <3> QED
        BY <2>2, <3>1, QuietKeepsLease
        DEF Refuse, RefuseReplay, DialFails, Finish, syncVars
    <2>3. CASE Admit(s)
      <3>1. \A q \in StreamIds : stream'[q].phase = "active" =>
              stream'[q] = stream[q] /\ stream[q].phase = "active"
        <4>1. stream'[s].phase = "dialing"
          BY <2>3, <1>t DEF Admit, Streams
        <4>2. \A q \in StreamIds : q # s => stream'[q] = stream[q]
          BY <2>3, <1>t DEF Admit
        <4> QED
          BY <4>1, <4>2
      <3> QED
        BY <2>3, <3>1, QuietKeepsLease DEF Admit, syncVars
    <2>4. CASE Activate(s)
      <3>1. stream'[s].phase = "active" /\ stream'[s].since = now
        BY <2>4, <1>t DEF Activate, Streams
      <3>2. \A q \in StreamIds : q # s => stream'[q] = stream[q]
        BY <2>4, <1>t DEF Activate
      <3>3. UNCHANGED <<now, sync, nextSync, lastSuccess>>
        BY <2>4 DEF Activate, syncVars
      <3>4. Deadline(s)' \in Nat /\ Deadline(s)' >= now
        BY <3>1, <3>3, <1>t DEF Deadline, Later
      <3>5. \A q \in StreamIds : q # s => Deadline(q)' = Deadline(q)
        BY <3>2, <3>3 DEF Deadline
      <3> QED
        BY <3>1, <3>2, <3>3, <3>4, <3>5, <1>t DEF LeaseInv
    <2> QED
      BY <1>2, <2>1, <2>2, <2>3, <2>4 DEF StreamTask
  <1>3. ASSUME NEW kept, stream' = CancelWhere(kept)
        PROVE  \A s \in StreamIds : stream'[s].phase = "active" =>
                 /\ stream[s].phase = "active"
                 /\ stream'[s].since = stream[s].since
                 /\ Pair(stream[s]) \in kept
    BY <1>3, <1>t, CancelWhereEffect
  <1>4. CASE ConfigTask
    BY <1>4, <1>3, QuietKeepsLease
    DEF ConfigTask, EditConfig, TearConfig, Reload, syncVars
  <1>5. CASE SyncTick
    <2>1. /\ sync'.phase = "asked" /\ sync'.at = now
          /\ now' = now /\ lastSuccess' = lastSuccess /\ stream' = stream
          /\ nextSync' \in Nat /\ nextSync' <= now + Refresh
      BY <1>5, <1>t, NextTickBounds DEF SyncTick
    <2>2. \A s \in StreamIds : Deadline(s)' = Deadline(s) /\ Deadline(s) \in Nat
      BY <2>1, DeadlineType DEF Deadline
    <2>3. sync.phase = "waiting"
      BY <1>5 DEF SyncTick
    <2> QED
      BY <2>1, <2>2, <2>3, <1>t DEF LeaseInv
  <1>6. CASE SyncAnswered
    <2>1. /\ sync.phase = "asked" /\ sync'.phase = "answered" /\ sync'.at = sync.at
          /\ UNCHANGED <<now, nextSync, lastSuccess, stream>>
      BY <1>6 DEF SyncAnswered, TypeOK
    <2>2. \A s \in StreamIds : Deadline(s)' = Deadline(s)
      BY <2>1 DEF Deadline
    <2> QED
      BY <2>1, <2>2 DEF LeaseInv
  <1>7. CASE SyncApplied
    <2>1. /\ sync.phase = "answered" /\ sync'.phase = "waiting"
          /\ lastSuccess' = now /\ UNCHANGED <<now, nextSync>>
      BY <1>7 DEF SyncApplied, Unasked
    <2>2. \A s \in StreamIds : stream'[s].phase = "active" =>
            stream[s].phase = "active" /\ stream'[s].since = stream[s].since
      BY <1>7, <1>3 DEF SyncApplied
    <2>3. \A s \in StreamIds : stream'[s].phase = "active" =>
            Deadline(s)' \in Nat /\ Deadline(s)' >= now
      BY <2>1, <2>2, <1>t DEF Deadline, Later
    <2> QED
      BY <2>1, <2>2, <2>3, <1>t DEF LeaseInv
  <1>8. CASE SyncFailed
    <2>1. /\ sync.phase # "waiting" /\ sync'.phase = "waiting"
          /\ UNCHANGED <<now, nextSync, lastSuccess>>
      BY <1>8 DEF SyncFailed, Unasked
    <2>2. CASE LeaseExpired
      <3>1. \A s \in StreamIds : stream'[s].phase # "active"
        BY <1>8, <1>3, <2>2 DEF SyncFailed
      <3> QED
        BY <2>1, <3>1 DEF LeaseInv
    <2>3. CASE ~LeaseExpired
      <3>1. stream' = stream /\ now < lastSuccess + Lease
        BY <1>8, <2>3, <1>t DEF SyncFailed, LeaseExpired
      <3>2. \A s \in StreamIds : /\ Deadline(s)' = Deadline(s)
                                 /\ Deadline(s) \in Nat
                                 /\ Deadline(s) >= now
        BY <2>1, <3>1, <1>t DEF Deadline, Later
      <3> QED
        BY <2>1, <3>1, <3>2, <1>t DEF LeaseInv
    <2> QED
      BY <2>2, <2>3
  <1>9. CASE Restart
    BY <1>9, <1>t DEF Restart, LeaseInv, Idle, Unasked
  <1>10. CASE Tick
    <2>1. now' = now + 1 /\ UNCHANGED <<sync, nextSync, lastSuccess, stream>>
      BY <1>10 DEF Tick, syncVars
    <2>2. \A s \in StreamIds : Deadline(s)' = Deadline(s) /\ Deadline(s) \in Nat
      BY <2>1, DeadlineType DEF Deadline
    <2>3. /\ sync.phase = "waiting" => now < nextSync
          /\ sync.phase # "waiting" => now < sync.at + AnswerWithin
      BY <1>10 DEF Tick, Punctual
    <2> QED
      BY <2>1, <2>2, <2>3, <1>t DEF LeaseInv
  <1>11. CASE UNCHANGED vars
    BY <1>11, QuietKeepsLease DEF vars, syncVars
  <1> QED
    BY <1>1, <1>2, <1>4, <1>5, <1>6, <1>7, <1>8, <1>9, <1>10, <1>11
    DEF Next, SyncTask

LEMMA LeaseInvBounds == TypeOK /\ LeaseInv => FailClosed
  <1> SUFFICES ASSUME TypeOK, LeaseInv, NEW s \in Active
               PROVE  now - Deadline(s) <= Refresh + AnswerWithin
    BY DEF FailClosed, Deadline
  <1>1. s \in StreamIds /\ stream[s].phase = "active"
    BY DEF Active
  <1>2. Deadline(s) \in Nat
    BY <1>1, DeadlineType
  <1>3. Refresh \in Nat /\ AnswerWithin \in Nat /\ now \in Nat /\ sync.at \in Nat
    BY DaemonAssumption DEF TypeOK
  <1> QED
    BY <1>1, <1>2, <1>3 DEF LeaseInv

\* The daemon fails closed: one refresh period and one round trip after the
\* lease ran out, no stream that was active by then is active any more.
THEOREM FailsClosed == Spec => []FailClosed
  BY InitLease, NextLease, LeaseInvBounds, TypeCorrect, PTL DEF Spec

-----------------------------------------------------------------------------
(* Revocation.                                                             *)

\* When the pair of a stream lost its right to stay open, if it has lost it.
LostAt(s) == Later(revokedAt[Pair(stream[s])], stream[s].since)

\* The strengthening of RevocationBound: a pair that an answer in flight still
\* allows was revoked after the request was sent, so a snapshot that spared a
\* stream of a revoked pair is at most a round trip younger than the loss.
SnapshotInv ==
    /\ \A p \in Pairs :
         /\ sync.phase = "answered"
         /\ p \in sync.allowed
         /\ p \notin policy
         => sync.at <= revokedAt[p]
    /\ \A s \in StreamIds :
         /\ stream[s].phase = "active"
         /\ Pair(stream[s]) \notin policy
         => lastSuccess <= LostAt(s) + AnswerWithin

LEMMA ActivePair ==
    ASSUME TypeOK, NEW s \in StreamIds, stream[s].phase = "active"
    PROVE  Pair(stream[s]) \in Pairs
  <1>1. stream[s].claims \in Claims
    BY DEF TypeOK
  <1> QED
    BY <1>1 DEF Pair, Pairs, Claims

LEMMA InitSnapshot == Init => SnapshotInv
  BY DEF Init, SnapshotInv, Idle, Unasked

\* A step that leaves the policy and the sync task alone, and activates nothing.
LEMMA QuietKeepsSnapshot ==
    ASSUME SnapshotInv, UNCHANGED <<policy, revokedAt, sync, lastSuccess>>,
           \A s \in StreamIds : stream'[s].phase = "active" =>
               /\ stream[s].phase = "active"
               /\ stream'[s].since = stream[s].since
               /\ stream'[s].claims = stream[s].claims
    PROVE  SnapshotInv'
  BY DEF SnapshotInv, LostAt, Pair

LEMMA NextSnapshot ==
    TypeOK /\ LeaseInv /\ SnapshotInv /\ [Next]_vars => SnapshotInv'
  <1> SUFFICES ASSUME TypeOK, LeaseInv, SnapshotInv, [Next]_vars
               PROVE  SnapshotInv'
    OBVIOUS
  <1>t. /\ now \in Nat /\ lastSuccess \in Nat /\ sync.at \in Nat
        /\ sync.allowed \in SUBSET Pairs
        /\ lastSuccess <= now
        /\ sync.phase \in {"waiting", "asked", "answered"}
        /\ stream \in [StreamIds -> Streams]
        /\ \A s \in StreamIds : stream[s].since \in Nat
        /\ revokedAt \in [Pairs -> Nat]
        /\ AnswerWithin \in Nat
    BY DaemonAssumption DEF TypeOK, Streams, LeaseInv
  <1>p. \A s \in StreamIds :
          stream[s].phase = "active" => Pair(stream[s]) \in Pairs
    BY ActivePair
  <1>1. ASSUME NEW p \in Pairs, Grant(p) PROVE SnapshotInv'
    <2>1. /\ policy' = policy \cup {p} /\ UNCHANGED <<stream, sync, lastSuccess>>
          /\ \A q \in Pairs : q # p => revokedAt'[q] = revokedAt[q]
      BY <1>1, <1>t DEF Grant, syncVars
    <2> QED
      BY <2>1, <1>p DEF SnapshotInv, LostAt, Pair
  <1>2. ASSUME NEW p \in Pairs, Revoke(p) PROVE SnapshotInv'
    <2>1. /\ policy' = policy \ {p} /\ UNCHANGED <<stream, sync, lastSuccess>>
          /\ revokedAt'[p] = now
          /\ \A q \in Pairs : q # p => revokedAt'[q] = revokedAt[q]
      BY <1>2, <1>t DEF Revoke, syncVars
    <2>2. sync.phase = "answered" => sync.at <= now
      BY DEF LeaseInv
    <2>3. ASSUME NEW s \in StreamIds, stream[s].phase = "active",
                 Pair(stream[s]) \notin policy'
          PROVE  lastSuccess <= LostAt(s)' + AnswerWithin
      <3>1. CASE Pair(stream[s]) = p
        BY <3>1, <2>1, <1>t DEF LostAt, Later
      <3>2. CASE Pair(stream[s]) # p
        <4>1. LostAt(s)' = LostAt(s)
          BY <3>2, <2>1, <2>3, <1>p DEF LostAt, Pair
        <4> QED
          BY <4>1, <3>2, <2>1, <2>3 DEF SnapshotInv
      <3> QED
        BY <3>1, <3>2
    <2> QED
      BY <2>1, <2>2, <2>3 DEF SnapshotInv, Pair
  <1>3. ASSUME NEW p \in Pairs, NEW a \in Endpoints, NEW c \in Clients,
               NEW n \in Nonces, IssueCapability(p, a, c, n)
        PROVE  SnapshotInv'
    BY <1>3, QuietKeepsSnapshot DEF IssueCapability, syncVars
  <1>4. ASSUME NEW s \in StreamIds, StreamTask(s) PROVE SnapshotInv'
    <2>1. ASSUME NEW c \in issued, NEW peer \in Clients, Receive(s, c, peer)
          PROVE  SnapshotInv'
      <3>1. \A q \in StreamIds : stream'[q].phase = "active" =>
              stream'[q] = stream[q] /\ stream[q].phase = "active"
        BY <2>1, <1>t DEF Receive
      <3> QED
        BY <2>1, <3>1, QuietKeepsSnapshot DEF Receive, syncVars, controlVars
    <2>2. CASE Refuse(s) \/ RefuseReplay(s) \/ DialFails(s) \/ Finish(s)
      <3>1. \A q \in StreamIds : stream'[q].phase = "active" =>
              stream'[q] = stream[q] /\ stream[q].phase = "active"
        BY <2>2, <1>t DEF Refuse, RefuseReplay, DialFails, Finish, Idle
      <3> QED
        BY <2>2, <3>1, QuietKeepsSnapshot
        DEF Refuse, RefuseReplay, DialFails, Finish, syncVars, controlVars
    <2>3. CASE Admit(s)
      <3>1. \A q \in StreamIds : stream'[q].phase = "active" =>
              stream'[q] = stream[q] /\ stream[q].phase = "active"
        <4>1. stream'[s].phase = "dialing"
          BY <2>3, <1>t DEF Admit, Streams
        <4>2. \A q \in StreamIds : q # s => stream'[q] = stream[q]
          BY <2>3, <1>t DEF Admit
        <4> QED
          BY <4>1, <4>2
      <3> QED
        BY <2>3, <3>1, QuietKeepsSnapshot DEF Admit, syncVars, controlVars
    <2>4. CASE Activate(s)
      <3>1. /\ stream'[s].since = now
            /\ stream'[s].claims = stream[s].claims
            /\ \A q \in StreamIds : q # s => stream'[q] = stream[q]
        BY <2>4, <1>t DEF Activate, Streams
      <3>2. UNCHANGED <<policy, revokedAt, sync, lastSuccess>>
        BY <2>4 DEF Activate, syncVars, controlVars
      <3>3. Pair(stream[s]) \in Pairs
        BY <2>4 DEF Activate, TypeOK, Pair, Pairs, Claims
      <3>4. revokedAt[Pair(stream[s])] \in Nat
        BY <3>3, <1>t
      <3>5. LostAt(s)' >= now /\ LostAt(s)' \in Nat
        BY <3>1, <3>2, <3>4, <1>t DEF LostAt, Later, Pair
      <3>6. \A q \in StreamIds : q # s => LostAt(q)' = LostAt(q)
        BY <3>1, <3>2 DEF LostAt, Pair
      <3> QED
        BY <3>1, <3>2, <3>5, <3>6, <1>t DEF SnapshotInv, Pair
    <2> QED
      BY <1>4, <2>1, <2>2, <2>3, <2>4 DEF StreamTask
  <1>5. ASSUME NEW kept, stream' = CancelWhere(kept)
        PROVE  \A s \in StreamIds : stream'[s].phase = "active" =>
                 /\ stream[s].phase = "active"
                 /\ stream'[s].since = stream[s].since
                 /\ stream'[s].claims = stream[s].claims
                 /\ Pair(stream[s]) \in kept
    BY <1>5, <1>t, CancelWhereEffect
  <1>6. CASE ConfigTask
    BY <1>6, <1>5, QuietKeepsSnapshot
    DEF ConfigTask, EditConfig, TearConfig, Reload, syncVars, controlVars
  <1>7. CASE SyncTick
    <2>1. sync'.phase = "asked" /\ UNCHANGED <<policy, revokedAt, stream, lastSuccess>>
      BY <1>7 DEF SyncTick, controlVars
    <2> QED
      BY <2>1 DEF SnapshotInv, LostAt, Pair
  <1>8. CASE SyncAnswered
    <2>1. /\ sync'.phase = "answered" /\ sync'.allowed = policy
          /\ UNCHANGED <<policy, revokedAt, stream, lastSuccess>>
      BY <1>8 DEF SyncAnswered, controlVars, TypeOK
    <2> QED
      BY <2>1 DEF SnapshotInv, LostAt, Pair
  <1>9. CASE SyncApplied
    <2>1. /\ sync.phase = "answered" /\ sync'.phase = "waiting" /\ lastSuccess' = now
          /\ UNCHANGED <<policy, revokedAt>>
      BY <1>9 DEF SyncApplied, Unasked, controlVars
    <2>2. ASSUME NEW s \in StreamIds, stream'[s].phase = "active",
                 Pair(stream'[s]) \notin policy'
          PROVE  lastSuccess' <= LostAt(s)' + AnswerWithin
      <3>1. /\ stream[s].phase = "active" /\ stream'[s].since = stream[s].since
            /\ stream'[s].claims = stream[s].claims
            /\ Pair(stream[s]) \in sync.allowed
        BY <1>9, <1>5, <2>2 DEF SyncApplied
      <3>2. Pair(stream'[s]) = Pair(stream[s]) /\ Pair(stream[s]) \in Pairs
        BY <3>1, <1>p DEF Pair
      <3>3. sync.at <= revokedAt[Pair(stream[s])]
        BY <2>1, <2>2, <3>1, <3>2 DEF SnapshotInv
      <3>4. now <= sync.at + AnswerWithin
        BY <2>1 DEF LeaseInv
      <3>5. revokedAt[Pair(stream[s])] \in Nat
        BY <3>2, <1>t
      <3>6. LostAt(s)' = Later(revokedAt[Pair(stream[s])], stream[s].since)
        BY <2>1, <3>1, <3>2 DEF LostAt
      <3> QED
        BY <2>1, <3>3, <3>4, <3>5, <3>6, <1>t DEF Later
    <2> QED
      BY <2>1, <2>2 DEF SnapshotInv
  <1>10. CASE SyncFailed
    <2>1. sync'.phase = "waiting" /\ UNCHANGED <<policy, revokedAt, lastSuccess>>
      BY <1>10 DEF SyncFailed, Unasked, controlVars
    <2>2. \A s \in StreamIds : stream'[s].phase = "active" =>
            /\ stream[s].phase = "active"
            /\ stream'[s].since = stream[s].since
            /\ stream'[s].claims = stream[s].claims
      BY <1>10, <1>5 DEF SyncFailed
    <2> QED
      BY <2>1, <2>2 DEF SnapshotInv, LostAt, Pair
  <1>11. CASE Restart
    BY <1>11 DEF Restart, SnapshotInv, Idle, Unasked
  <1>12. CASE Tick
    BY <1>12, QuietKeepsSnapshot DEF Tick, syncVars, controlVars
  <1>13. CASE UNCHANGED vars
    BY <1>13, QuietKeepsSnapshot DEF vars, syncVars, controlVars
  <1> QED
    BY <1>1, <1>2, <1>3, <1>4, <1>6, <1>7, <1>8, <1>9, <1>10, <1>11, <1>12, <1>13
    DEF Next, SyncTask, ControlPlane

LEMMA SnapshotBounds ==
    TypeOK /\ FailClosed /\ SnapshotInv => RevocationBound
  <1> SUFFICES ASSUME TypeOK, FailClosed, SnapshotInv, NEW s \in Active,
                      Pair(stream[s]) \notin policy
               PROVE  now - LostAt(s) <= Lease + Refresh + 2 * AnswerWithin
    BY DEF RevocationBound, LostAt
  <1>1. s \in StreamIds /\ stream[s].phase = "active"
    BY DEF Active
  <1>2. revokedAt[Pair(stream[s])] \in Nat /\ stream[s].since \in Nat
    BY <1>1, ActivePair DEF TypeOK, Streams
  <1>3. /\ Refresh \in Nat /\ AnswerWithin \in Nat /\ Lease \in Nat
        /\ now \in Nat /\ lastSuccess \in Nat
    BY DaemonAssumption DEF TypeOK
  <1>4. lastSuccess <= LostAt(s) + AnswerWithin
    BY <1>1 DEF SnapshotInv
  <1>5. now - Later(lastSuccess + Lease, stream[s].since) <= Refresh + AnswerWithin
    BY DEF FailClosed
  <1> QED
    BY <1>2, <1>3, <1>4, <1>5 DEF LostAt, Later

\* A revoked pair's stream is cancelled within a fixed time, whether or not
\* the control plane can be reached again after the revocation.
THEOREM RevocationTakesEffect == Spec => []RevocationBound
  BY InitLease, NextLease, LeaseInvBounds, InitSnapshot, NextSnapshot,
     SnapshotBounds, TypeCorrect, PTL DEF Spec
-----------------------------------------------------------------------------
(* The daemon implements Access.                                           *)

\* What is signed and what is open, as the refinement mapping says it.
Signed == {<<c.viewer, c.resource>> : c \in issued}
Opened == [s \in StreamIds |-> OpenAs(s)]

LEMMA MapInit == Init => Promise!Init
  BY DEF Init, Promise!Init, Promise!Closed, OpenAs, Idle

\* A step that at most ends streams is a Close of Access, or a stutter.
LEMMA EndingIsClose ==
    ASSUME UNCHANGED <<now, policy, revokedAt, issued>>,
           \A s \in StreamIds :
               OpenAs(s)' = OpenAs(s) \/ OpenAs(s)' = Promise!Closed
    PROVE  Promise!Next
  <1> DEFINE ended == {s \in StreamIds : OpenAs(s)' = Promise!Closed}
  <1>1. \A s \in StreamIds :
          OpenAs(s)' = IF s \in ended THEN Promise!Closed ELSE OpenAs(s)
    OBVIOUS
  <1> HIDE DEF ended
  <1>2. Promise!Close(ended)
    BY <1>1 DEF Promise!Close
  <1>3. ended \in SUBSET StreamIds
    BY DEF ended
  <1> QED
    BY <1>2, <1>3 DEF Promise!Next

\* cancel_where at most ends streams.
LEMMA CancelEnds ==
    ASSUME TypeOK, NEW kept, stream' = CancelWhere(kept)
    PROVE  \A s \in StreamIds :
               OpenAs(s)' = OpenAs(s) \/ OpenAs(s)' = Promise!Closed
  <1>1. stream \in [StreamIds -> Streams]
    BY DEF TypeOK
  <1>2. \A s \in StreamIds :
          \/ CancelWhere(kept)[s].phase # "active"
          \/ CancelWhere(kept)[s] = stream[s]
    BY <1>1 DEF CancelWhere, Streams
  <1> QED
    BY <1>2 DEF OpenAs, Pair, Promise!Closed

\* A step of one stream task that does not make it active ends its stream, or
\* changes nothing Access speaks of.
LEMMA TaskEnds ==
    ASSUME TypeOK, NEW t \in StreamIds, NEW r,
           stream' = [stream EXCEPT ![t] = r], r.phase # "active"
    PROVE  \A s \in StreamIds :
               OpenAs(s)' = OpenAs(s) \/ OpenAs(s)' = Promise!Closed
  BY DEF TypeOK, OpenAs, Pair, Promise!Closed

LEMMA ActivateOpens ==
    ASSUME TypeOK, NEW s \in StreamIds, Activate(s)
    PROVE  Promise!Next
  <1>1. /\ stream[s] \in Streams
        /\ stream[s].phase = "dialing"
        /\ stream[s].claims \in issued
    BY DEF TypeOK, Activate
  <1>2. stream[s].claims \in Claims
    BY <1>1 DEF TypeOK
  <1>3. Pair(stream[s]) \in Pairs /\ Pair(stream[s]) \in Signed
    BY <1>1, <1>2 DEF Pair, Pairs, Claims, Signed
  <1>4. stream' = [stream EXCEPT ![s] = [@ EXCEPT !.phase = "active",
                                                  !.since = now]]
    BY DEF Activate, TypeOK
  <1>5. /\ OpenAs(s) = Promise!Closed
        /\ OpenAs(s)' = [pair |-> Pair(stream[s]), since |-> now]
    BY <1>1, <1>4 DEF TypeOK, OpenAs, Pair, Promise!Closed, Streams
  <1>6. \A t \in StreamIds \ {s} : OpenAs(t)' = OpenAs(t)
    BY <1>4 DEF TypeOK, OpenAs, Pair
  <1>7. Opened' = [Opened EXCEPT ![s] = [pair |-> Pair(stream[s]), since |-> now]]
    BY <1>5, <1>6 DEF Opened
  <1>8. UNCHANGED <<now, policy, revokedAt, issued>>
    BY DEF Activate, controlVars
  <1>9. Promise!Open(s, Pair(stream[s]))
    BY <1>3, <1>5, <1>7, <1>8 DEF Promise!Open, Opened, Signed
  <1> QED
    BY <1>3, <1>9 DEF Promise!Next

\* Time goes on in Access because the bound holds after the daemon's Tick.
LEMMA TickIsTick ==
    ASSUME TypeOK, RevocationBound', Tick
    PROVE  Promise!Next
  <1>0. /\ now' = now + 1
        /\ UNCHANGED <<policy, revokedAt, issued, stream>>
    BY DEF Tick, controlVars
  <1>n. /\ now \in Nat
        /\ Lease + Refresh + 2 * AnswerWithin \in Nat
    BY DaemonAssumption DEF TypeOK
  <1> DEFINE grace == Lease + Refresh + 2 * AnswerWithin
  <1>g. grace \in Nat
    BY <1>n
  <1>1. ASSUME NEW s \in StreamIds PROVE Promise!WithinGrace(s)
    <2>1. CASE stream[s].phase # "active"
      BY <2>1 DEF Promise!WithinGrace, Promise!Closed, OpenAs
    <2>2. CASE stream[s].phase = "active" /\ Pair(stream[s]) \in policy
      BY <2>2 DEF Promise!WithinGrace, OpenAs
    <2>3. CASE stream[s].phase = "active" /\ Pair(stream[s]) \notin policy
      <3> DEFINE lost == LostAt(s)
      <3>1. lost \in Nat
        <4>1. Pair(stream[s]) \in Pairs
          BY <2>3, ActivePair
        <4>2. revokedAt[Pair(stream[s])] \in Nat /\ stream[s].since \in Nat
          BY <4>1 DEF TypeOK, Streams
        <4> QED
          BY <4>2 DEF LostAt, Later
      <3>2. now' - lost <= grace
        BY <2>3, <1>0 DEF RevocationBound, Active, LostAt, Pair
      <3> HIDE DEF lost, grace
      <3>3. now - lost < grace
        BY <3>1, <3>2, <1>0, <1>n, <1>g
      <3>4. now - LostAt(s) < Lease + Refresh + 2 * AnswerWithin
        BY <3>3 DEF lost, grace
      <3>5. /\ OpenAs(s).pair = Pair(stream[s])
            /\ OpenAs(s).since = stream[s].since
        BY <2>3 DEF OpenAs
      <3> QED
        BY <3>4, <3>5 DEF Promise!WithinGrace, LostAt, Later, Promise!Later
    <2> QED
      BY <2>1, <2>2, <2>3
  <1>2. \A s \in StreamIds : OpenAs(s)' = OpenAs(s)
    BY <1>0 DEF OpenAs, Pair
  <1>3. Promise!Tick
    BY <1>0, <1>1, <1>2 DEF Promise!Tick
  <1> QED
    BY <1>3 DEF Promise!Next

\* What the control plane does is the same in both specifications.
LEMMA ControlIsControl ==
    ASSUME TypeOK, ControlPlane
    PROVE  [Promise!Next]_Promise!vars
  <1>1. ASSUME UNCHANGED stream PROVE Opened' = Opened
    BY <1>1 DEF Opened, OpenAs, Pair
  <1>2. ASSUME NEW p \in Pairs, Grant(p) PROVE Promise!Next
    <2>1. Opened' = Opened /\ Signed' = Signed
      BY <1>1, <1>2 DEF Grant, Signed
    <2>2. Promise!Grant(p)
      BY <1>2, <2>1 DEF Grant, Promise!Grant, Opened, Signed
    <2> QED
      BY <2>2 DEF Promise!Next
  <1>3. ASSUME NEW p \in Pairs, Revoke(p) PROVE Promise!Next
    <2>1. Opened' = Opened /\ Signed' = Signed
      BY <1>1, <1>3 DEF Revoke, Signed
    <2>2. Promise!Revoke(p)
      BY <1>3, <2>1 DEF Revoke, Promise!Revoke, Opened, Signed
    <2> QED
      BY <2>2 DEF Promise!Next
  <1>4. ASSUME NEW p \in Pairs, NEW a \in Endpoints, NEW c \in Clients,
               NEW n \in Nonces, IssueCapability(p, a, c, n)
        PROVE  Promise!Next
    <2>1. Opened' = Opened
      BY <1>1, <1>4 DEF IssueCapability
    <2>2. <<Issue(p, a, c, now, n).viewer, Issue(p, a, c, now, n).resource>> = p
      BY DEF Issue, Pairs
    <2>3. Signed' = Signed \cup {p}
      BY <1>4, <2>2 DEF IssueCapability, Signed
    <2>4. Promise!Sign(p)
      BY <1>4, <2>1, <2>3 DEF IssueCapability, Promise!Sign, Opened, Signed
    <2> QED
      BY <2>4 DEF Promise!Next
  <1> QED
    BY <1>2, <1>3, <1>4 DEF ControlPlane

\* What a stream task does opens a stream, ends one or is not seen by Access.
LEMMA TaskIsStep ==
    ASSUME TypeOK, NEW s \in StreamIds, StreamTask(s)
    PROVE  Promise!Next
  <1> DEFINE Ends == \A t \in StreamIds :
                 OpenAs(t)' = OpenAs(t) \/ OpenAs(t)' = Promise!Closed
  <1>1. CASE \E c \in issued, peer \in Clients : Receive(s, c, peer)
    <2>1. PICK c \in issued, peer \in Clients : Receive(s, c, peer)
      BY <1>1
    <2>2. Ends
      <3> DEFINE r == [phase |-> "reading", claims |-> c, peer |-> peer,
                       clock |-> Clock, services |-> targets, since |-> 0]
      <3>1. stream' = [stream EXCEPT ![s] = r] /\ r.phase # "active"
        BY <2>1 DEF Receive
      <3> HIDE DEF r
      <3> QED
        BY <3>1, TaskEnds
    <2> QED
      BY <2>1, <2>2, EndingIsClose DEF Receive, controlVars
  <1>2. CASE Refuse(s) \/ RefuseReplay(s) \/ DialFails(s) \/ Finish(s)
    <2>1. stream' = [stream EXCEPT ![s] = Idle]
      BY <1>2 DEF Refuse, RefuseReplay, DialFails, Finish
    <2>2. Ends
      <3>1. Idle.phase # "active"
        BY DEF Idle
      <3> QED
        BY <2>1, <3>1, TaskEnds
    <2> QED
      BY <1>2, <2>2, EndingIsClose
      DEF Refuse, RefuseReplay, DialFails, Finish, controlVars
  <1>3. CASE Admit(s)
    <2>1. stream[s] \in Streams
      BY DEF TypeOK
    <2>2. stream' = [stream EXCEPT ![s] =
                        [@ EXCEPT !.phase = "dialing", !.clock = 0,
                                  !.services = {}]]
      BY <1>3 DEF Admit, TypeOK
    <2>3. [stream[s] EXCEPT !.phase = "dialing", !.clock = 0,
                            !.services = {}].phase # "active"
      BY <2>1 DEF Streams
    <2>4. Ends
      BY <2>2, <2>3, TaskEnds
    <2> QED
      BY <1>3, <2>4, EndingIsClose DEF Admit, controlVars
  <1>4. CASE Activate(s)
    BY <1>4, ActivateOpens
  <1> QED
    BY <1>1, <1>2, <1>3, <1>4 DEF StreamTask

\* Every step of the daemon is a step of Access or is not seen by it.
LEMMA StepIsStep ==
    TypeOK /\ RevocationBound' /\ [Next]_vars => [Promise!Next]_Promise!vars
  <1> SUFFICES ASSUME TypeOK, RevocationBound', [Next]_vars
               PROVE  [Promise!Next]_Promise!vars
    OBVIOUS
  <1> DEFINE Ends == \A t \in StreamIds :
                 OpenAs(t)' = OpenAs(t) \/ OpenAs(t)' = Promise!Closed
  <1>1. CASE ControlPlane
    BY <1>1, ControlIsControl
  <1>2. ASSUME NEW s \in StreamIds, StreamTask(s) PROVE Promise!Next
    BY <1>2, TaskIsStep
  <1>3. ASSUME UNCHANGED <<now, policy, revokedAt, issued, stream>>
        PROVE  Promise!Next
    <2>1. Ends
      BY <1>3 DEF OpenAs, Pair
    <2> QED
      BY <1>3, <2>1, EndingIsClose
  <1>4. CASE ConfigTask
    <2>1. CASE Reload
      <3>1. Ends
        BY <2>1, CancelEnds DEF Reload
      <3> QED
        BY <2>1, <3>1, EndingIsClose DEF Reload, controlVars
    <2>2. CASE ~Reload
      BY <1>4, <2>2, <1>3 DEF ConfigTask, EditConfig, TearConfig, controlVars
    <2> QED
      BY <2>1, <2>2
  <1>5. CASE SyncTask
    <2>1. CASE SyncApplied
      <3>1. Ends
        BY <2>1, CancelEnds DEF SyncApplied
      <3> QED
        BY <2>1, <3>1, EndingIsClose DEF SyncApplied, controlVars
    <2>2. CASE SyncFailed
      <3>1. CASE LeaseExpired
        <4>1. Ends
          BY <2>2, <3>1, CancelEnds DEF SyncFailed
        <4> QED
          BY <2>2, <4>1, EndingIsClose DEF SyncFailed, controlVars
      <3>2. CASE ~LeaseExpired
        BY <2>2, <3>2, <1>3 DEF SyncFailed, controlVars
      <3> QED
        BY <3>1, <3>2
    <2>3. CASE SyncTick \/ SyncAnswered
      BY <2>3, <1>3 DEF SyncTick, SyncAnswered, controlVars
    <2> QED
      BY <1>5, <2>1, <2>2, <2>3 DEF SyncTask
  <1>6. CASE Restart
    <2>1. Ends
      BY <1>6 DEF Restart, OpenAs, Idle, Promise!Closed
    <2> QED
      BY <1>6, <2>1, EndingIsClose DEF Restart, controlVars
  <1>7. CASE Tick
    BY <1>7, TickIsTick
  <1>8. CASE UNCHANGED vars
    BY <1>8, <1>3 DEF vars, controlVars
  <1> QED
    BY <1>1, <1>2, <1>4, <1>5, <1>6, <1>7, <1>8 DEF Next

\* The daemon, its config reloads, its syncs and its crashes implement Access:
\* for any sets and time constants a stream opens only for a pair that was
\* signed, and a stream whose pair lost its right ends within the grace.
THEOREM ImplementsAccess == Spec => KeepsPromise
  <1>1. Spec => [](TypeOK /\ RevocationBound)
    BY TypeCorrect, RevocationTakesEffect, PTL
  <1> QED
    BY <1>1, MapInit, StepIsStep, PTL DEF Spec, KeepsPromise, Promise!Spec
=============================================================================

------------------------------- MODULE Daemon -------------------------------
(***************************************************************************)
(* One daemon of devsite (devsite-daemon/src/lib.rs and the loops that     *)
(* devsite-cli/src/main.rs runs beside it): it admits service streams that *)
(* present a capability, forwards them to a local TCP service, cancels     *)
(* them when the service or the authorisation goes away, and fails closed  *)
(* when the control plane can no longer be asked.                          *)
(*                                                                         *)
(* Concurrency.  Every stream is a task of its own (tokio::spawn); its     *)
(* steps between two awaits are one action here, and it carries the local  *)
(* copies it made (clock, services) across the awaits.  The authorisation  *)
(* sync and the config reload are two more tasks; a control plane request  *)
(* is three steps (asked, answered there, applied here).                   *)
(*                                                                         *)
(* Time is explicit: `now` is the control plane's clock in seconds and the *)
(* daemon's clock is off by a constant `drift`.  Tick is guarded by        *)
(* Punctual: the sync task is polled in the second its timer is due, and   *)
(* an answer or an error reaches the daemon within AnswerWithin seconds.   *)
(***************************************************************************)
EXTENDS Capability

CONSTANTS
    StreamIds,     \* slots for concurrent stream tasks (bound)
    Me,            \* this daemon's endpoint key
    NoClaims,      \* the claims of a slot that holds no request
    Drifts,        \* offsets the daemon's clock may have from `now`
    Refresh,       \* REFRESH of sync_authorizations (2 in the code)
    Lease,         \* STALE_LEASE of sync_authorizations (15 in the code)
    AnswerWithin,  \* assumed bound on a control plane round trip
    MaxNow         \* bound on the clock

ASSUME DaemonAssumption ==
    /\ Me \in Endpoints
    /\ NoClaims \notin Claims
    /\ Drifts \subseteq Int
    /\ Refresh \in Nat \ {0}
    /\ Lease \in Nat \ {0}
    /\ AnswerWithin \in Nat
    /\ MaxNow \in Nat

VARIABLES
    now,          \* seconds on the control plane's clock
    drift,        \* the daemon's clock minus now
    policy,       \* pairs the control plane authorises now
    revokedAt,    \* history: when each pair outside policy left it
    issued,       \* every capability signed so far
    disk,         \* the config file: [readable, services]
    targets,      \* services of the config in memory
    seen,         \* entries of the replay guard
    admitted,     \* history: claims admitted since this daemon process began
    stream,       \* stream tasks by slot
    sync,         \* the authorisation request: [phase, allowed, at]
    nextSync,     \* when the refresh interval is next due
    lastSuccess   \* when an authorisation snapshot was last applied

controlVars == <<policy, revokedAt, issued>>
configVars == <<disk, targets>>
guardVars == <<seen, admitted>>
syncVars == <<sync, nextSync, lastSuccess>>
vars == <<now, drift, controlVars, configVars, guardVars, stream, syncVars>>

Clock == now + drift

Streams ==
    [phase : {"idle", "reading", "dialing", "active", "cancelled"},
     claims : Claims \cup {NoClaims}, peer : Clients \cup {NoClaims},
     clock : Int, services : SUBSET Services, since : Nat]

Idle ==
    [phase |-> "idle", claims |-> NoClaims, peer |-> NoClaims,
     clock |-> 0, services |-> {}, since |-> 0]

Unasked == [phase |-> "waiting", allowed |-> {}, at |-> 0]

Pair(r) == <<r.claims.viewer, r.claims.resource>>

\* The streams listed in Daemon::active.
Active == {s \in StreamIds : stream[s].phase = "active"}

Init ==
    /\ now = 0
    /\ drift \in Drifts
    /\ policy \in SUBSET Pairs
    /\ revokedAt = [p \in Pairs |-> 0]
    /\ issued = {}
    /\ targets \in SUBSET Services
    /\ disk = [readable |-> TRUE, services |-> targets]
    /\ seen = {}
    /\ admitted = {}
    /\ stream = [s \in StreamIds |-> Idle]
    /\ sync = Unasked
    /\ nextSync = 0
    /\ lastSuccess = 0

-----------------------------------------------------------------------------
(* The control plane, as far as a daemon can tell: it changes the pairs it *)
(* authorises and signs capabilities for authorised pairs only.            *)

Grant(p) ==
    /\ p \notin policy
    /\ policy' = policy \cup {p}
    /\ revokedAt' = [revokedAt EXCEPT ![p] = 0]
    /\ UNCHANGED <<now, drift, issued, configVars, guardVars,
                   stream, syncVars>>

Revoke(p) ==
    /\ p \in policy
    /\ policy' = policy \ {p}
    /\ revokedAt' = [revokedAt EXCEPT ![p] = now]
    /\ UNCHANGED <<now, drift, issued, configVars, guardVars, stream,
                   syncVars>>

\* Mutant: the control plane signs without asking its policy.
IssueToAnyone(p, audience, c, n) ==
    /\ \A other \in issued : other.nonce # n
    /\ issued' = issued \cup {Issue(p, audience, c, now, n)}
    /\ UNCHANGED <<now, drift, policy, revokedAt, configVars, guardVars,
                   stream, syncVars>>

\* tunnel_capability for a session of client key c.
IssueCapability(p, audience, c, n) ==
    /\ p \in policy
    /\ \A other \in issued : other.nonce # n
    /\ issued' = issued \cup {Issue(p, audience, c, now, n)}
    /\ UNCHANGED <<now, drift, policy, revokedAt, configVars, guardVars,
                   stream, syncVars>>

-----------------------------------------------------------------------------
(* handle_stream.                                                          *)

\* The request frame is read, then the targets and the clock; the task then
\* waits for the replay lock with these local copies.
Receive(s, c, peer) ==
    /\ stream[s].phase = "idle"
    /\ stream' = [stream EXCEPT ![s] =
           [phase |-> "reading", claims |-> c, peer |-> peer,
            clock |-> Clock, services |-> targets, since |-> 0]]
    /\ UNCHANGED <<now, drift, controlVars, configVars, guardVars, syncVars>>

Verified(r) ==
    /\ VerifyFor(r.claims, Me, r.peer, r.clock)
    /\ r.claims.resource \in r.services

\* Denied::Capability or Denied::UnknownResource: the nonce is not touched.
Refuse(s) ==
    /\ stream[s].phase = "reading"
    /\ ~Verified(stream[s])
    /\ stream' = [stream EXCEPT ![s] = Idle]
    /\ UNCHANGED <<now, drift, controlVars, configVars, guardVars, syncVars>>

\* Denied::Replayed: the guard has pruned its entries all the same.
RefuseReplay(s) ==
    LET r == stream[s] IN
    /\ r.phase = "reading"
    /\ Verified(r)
    /\ Replayed(seen, r.claims, r.clock)
    /\ seen' = Retained(seen, r.clock)
    /\ stream' = [stream EXCEPT ![s] = Idle]
    /\ UNCHANGED <<now, drift, controlVars, configVars, admitted, syncVars>>

Admit(s) ==
    LET r == stream[s] IN
    /\ r.phase = "reading"
    /\ Verified(r)
    /\ ~Replayed(seen, r.claims, r.clock)
    /\ seen' = Recorded(seen, r.claims, r.clock)
    /\ admitted' = admitted \cup {r.claims}
    /\ stream' = [stream EXCEPT ![s].phase = "dialing", ![s].clock = 0,
                                ![s].services = {}]
    /\ UNCHANGED <<now, drift, controlVars, configVars, syncVars>>

\* TcpStream::connect failed, or the peer left before it could be answered.
\* The nonce stays burnt.
DialFails(s) ==
    /\ stream[s].phase = "dialing"
    /\ stream' = [stream EXCEPT ![s] = Idle]
    /\ UNCHANGED <<now, drift, controlVars, configVars, guardVars, syncVars>>

\* Connected is written and the stream enters the active map.
Activate(s) ==
    /\ stream[s].phase = "dialing"
    /\ stream' = [stream EXCEPT ![s].phase = "active", ![s].since = now]
    /\ UNCHANGED <<now, drift, controlVars, configVars, guardVars, syncVars>>

\* Either side closed, or the task noticed that it was cancelled.
Finish(s) ==
    /\ stream[s].phase \in {"active", "cancelled"}
    /\ stream' = [stream EXCEPT ![s] = Idle]
    /\ UNCHANGED <<now, drift, controlVars, configVars, guardVars, syncVars>>

\* Mutant: an empty set of kept pairs is taken for "nothing known".
CancelUnlessEmpty(kept) ==
    [s \in StreamIds |->
        IF kept # {} /\ stream[s].phase = "active" /\ Pair(stream[s]) \notin kept
        THEN [stream[s] EXCEPT !.phase = "cancelled"]
        ELSE stream[s]]

\* Daemon::cancel_where, for the streams whose pair is not kept.
CancelWhere(kept) ==
    [s \in StreamIds |->
        IF stream[s].phase = "active" /\ Pair(stream[s]) \notin kept
        THEN [stream[s] EXCEPT !.phase = "cancelled"]
        ELSE stream[s]]

-----------------------------------------------------------------------------
(* reload_config and replace_resources.                                    *)

\* The owner's CLI rewrites the config file; a reader can meet it half
\* written, because it is truncated in place.
EditConfig(services) ==
    /\ disk' = [readable |-> TRUE, services |-> services]
    /\ UNCHANGED <<now, drift, controlVars, targets, guardVars, stream,
                   syncVars>>

TearConfig ==
    /\ disk' = [disk EXCEPT !.readable = FALSE]
    /\ UNCHANGED <<now, drift, controlVars, targets, guardVars, stream,
                   syncVars>>

\* An unreadable file changes nothing, an equal one cancels nothing.
Reload ==
    /\ disk.readable
    /\ disk.services # targets
    /\ targets' = disk.services
    /\ stream' = CancelWhere(Accounts \X disk.services)
    /\ UNCHANGED <<now, drift, controlVars, disk, guardVars, syncVars>>

-----------------------------------------------------------------------------
(* sync_authorizations.                                                    *)

\* tokio's interval with MissedTickBehavior::Skip: the next multiple of the
\* period after the current time.
NextTick(due) == now + Refresh - ((now - due) % Refresh)

SyncTick ==
    /\ sync.phase = "waiting"
    /\ now >= nextSync
    /\ sync' = [phase |-> "asked", allowed |-> {}, at |-> now]
    /\ nextSync' = NextTick(nextSync)
    /\ UNCHANGED <<now, drift, controlVars, configVars, guardVars, stream,
                   lastSuccess>>

\* daemon_authorizations answers with the pairs it authorises at this moment.
SyncAnswered ==
    /\ sync.phase = "asked"
    /\ sync' = [sync EXCEPT !.phase = "answered", !.allowed = policy]
    /\ UNCHANGED <<now, drift, controlVars, configVars, guardVars, stream,
                   nextSync, lastSuccess>>

\* replace_authorizations.
SyncApplied ==
    /\ sync.phase = "answered"
    /\ stream' = CancelWhere(sync.allowed)
    /\ lastSuccess' = now
    /\ sync' = Unasked
    /\ UNCHANGED <<now, drift, controlVars, configVars, guardVars, nextSync>>

\* Mutant: the lease is measured from the request instead of the last success.
LeaseOfThisRequest == now - sync.at >= Lease

LeaseExpired == now - lastSuccess >= Lease

\* The request fails, whatever the control plane did with it; past the lease
\* every active stream goes (revoke_all_active).
SyncFailed ==
    /\ sync.phase \in {"asked", "answered"}
    /\ stream' = IF LeaseExpired THEN CancelWhere({}) ELSE stream
    /\ sync' = Unasked
    /\ UNCHANGED <<now, drift, controlVars, configVars, guardVars, nextSync,
                   lastSuccess>>

-----------------------------------------------------------------------------
\* The process dies and `devsite daemon run` is started again on a readable
\* config: the replay guard, the streams and the sync state start over.
Restart ==
    /\ disk.readable
    /\ targets' = disk.services
    /\ seen' = {}
    /\ admitted' = {}
    /\ stream' = [s \in StreamIds |-> Idle]
    /\ sync' = Unasked
    /\ nextSync' = now
    /\ lastSuccess' = now
    /\ UNCHANGED <<now, drift, controlVars, disk>>

\* The sync task is polled when due and a request is settled in time.
Punctual ==
    IF sync.phase = "waiting"
    THEN now < nextSync
    ELSE now < sync.at + AnswerWithin

Tick ==
    /\ now < MaxNow
    /\ Punctual
    /\ now' = now + 1
    /\ UNCHANGED <<drift, controlVars, configVars, guardVars, stream, syncVars>>

ControlPlane ==
    \/ \E p \in Pairs : Grant(p) \/ Revoke(p)
    \/ \E p \in Pairs, a \in Endpoints, c \in Clients, n \in Nonces :
           IssueCapability(p, a, c, n)

StreamTask(s) ==
    \/ \E c \in issued, peer \in Clients : Receive(s, c, peer)
    \/ Refuse(s) \/ RefuseReplay(s) \/ Admit(s)
    \/ DialFails(s) \/ Activate(s) \/ Finish(s)

ConfigTask ==
    \/ \E services \in SUBSET Services : EditConfig(services)
    \/ TearConfig
    \/ Reload

SyncTask == SyncTick \/ SyncAnswered \/ SyncApplied \/ SyncFailed

Next ==
    \/ ControlPlane
    \/ \E s \in StreamIds : StreamTask(s)
    \/ ConfigTask
    \/ SyncTask
    \/ Restart
    \/ Tick

Spec == Init /\ [][Next]_vars

-----------------------------------------------------------------------------
(* Properties.                                                             *)

\* Every variable keeps its type.
TypeOK ==
    /\ now \in Nat
    /\ drift \in Int
    /\ policy \in SUBSET Pairs
    /\ revokedAt \in [Pairs -> Nat]
    /\ issued \in SUBSET Claims
    /\ disk \in [readable : BOOLEAN, services : SUBSET Services]
    /\ targets \in SUBSET Services
    /\ seen \in SUBSET Entries
    /\ admitted \in SUBSET Claims
    /\ stream \in [StreamIds -> Streams]
    /\ \A s \in StreamIds : stream[s].phase # "idle" => stream[s].claims \in issued
    /\ sync \in [phase : {"waiting", "asked", "answered"},
                 allowed : SUBSET Pairs, at : Nat]
    /\ nextSync \in Nat
    /\ lastSuccess \in Nat

\* The replay guard of one daemon process admits a capability a second time
\* only once the capability has run out: while time is left on it, no
\* interleaving of tasks that carry stale clocks past the lock, and no pruning
\* by another stream, makes the guard forget it.  A restart does: docs/tickets.md:85
\* "accepts its nonce once" is true of one process.
AdmitOnce ==
    [][\A s \in StreamIds :
         /\ stream[s].phase = "reading"
         /\ stream'[s].phase = "dialing"
         /\ stream[s].claims \in admitted
         => Clock >= stream[s].claims.expires_at]_vars

Later(a, b) == IF a > b THEN a ELSE b

\* Once a pair is revoked, a stream of it that is active is cancelled by the
\* authorisation sync within a bounded time of the revocation (or of the
\* stream entering the active map, when it was still connecting), even if
\* every later request to the control plane fails: the last snapshot can be
\* AnswerWithin old when it is applied, then the lease runs out.
RevocationBound ==
    \A s \in Active :
        \/ Pair(stream[s]) \in policy
        \/ now - Later(revokedAt[Pair(stream[s])], stream[s].since)
             <= Lease + Refresh + 2 * AnswerWithin

\* docs/tickets.md:86 "It closes active streams when its authorisation
\* snapshot is stale": when no snapshot could be applied for the length of the
\* lease, a stream that is active is cancelled by the next failing request.
FailClosed ==
    \A s \in Active :
        now - Later(lastSuccess + Lease, stream[s].since)
            <= Refresh + AnswerWithin

-----------------------------------------------------------------------------
(* The refinement.                                                         *)

\* A stream task is open in the sense of Access while it is in the active map.
OpenAs(s) ==
    IF stream[s].phase = "active"
    THEN [pair |-> Pair(stream[s]), since |-> stream[s].since]
    ELSE [pair |-> NoClaims, since |-> 0]

Promise == INSTANCE Access WITH
    NoPair <- NoClaims,
    Grace <- Lease + Refresh + 2 * AnswerWithin,
    signed <- {<<c.viewer, c.resource>> : c \in issued},
    open <- [s \in StreamIds |-> OpenAs(s)]

\* The daemon keeps the promise of Access: capabilities carried across
\* restarts, snapshots applied late, reloads and failing requests open no
\* stream that was not signed for, and none outlives its grace.
KeepsPromise == Promise!Spec
=============================================================================

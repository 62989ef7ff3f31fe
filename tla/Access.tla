------------------------------- MODULE Access -------------------------------
(***************************************************************************)
(* What the control plane and a daemon promise together, without saying    *)
(* how (docs/tickets.md, "Stream ticket"): a stream is opened only for a   *)
(* pair of viewer and resource that the control plane signed while it      *)
(* authorised it, and once a pair is no longer authorised time cannot go   *)
(* on past Grace seconds while a stream of it is open.                     *)
(*                                                                         *)
(* Daemon implements it with signed capabilities, a poll of the authorised *)
(* pairs every few seconds and a lease on the last answer.                 *)
(***************************************************************************)
EXTENDS Integers

CONSTANTS
    Pairs,      \* what a stream may be opened for
    StreamIds,  \* slots for streams
    NoPair,     \* the pair of a slot that holds no open stream
    Grace       \* how long a stream may outlive the right to it

VARIABLES
    now,        \* seconds
    policy,     \* pairs authorised now
    revokedAt,  \* when each pair outside policy left it
    signed,     \* pairs the control plane has ever signed for
    open        \* what is open in each slot, and since when

vars == <<now, policy, revokedAt, signed, open>>

Closed == [pair |-> NoPair, since |-> 0]

Later(a, b) == IF a > b THEN a ELSE b

Init ==
    /\ now = 0
    /\ policy \in SUBSET Pairs
    /\ revokedAt = [p \in Pairs |-> 0]
    /\ signed = {}
    /\ open = [s \in StreamIds |-> Closed]

Grant(p) ==
    /\ p \notin policy
    /\ policy' = policy \cup {p}
    /\ revokedAt' = [revokedAt EXCEPT ![p] = 0]
    /\ UNCHANGED <<now, signed, open>>

Revoke(p) ==
    /\ p \in policy
    /\ policy' = policy \ {p}
    /\ revokedAt' = [revokedAt EXCEPT ![p] = now]
    /\ UNCHANGED <<now, signed, open>>

Sign(p) ==
    /\ p \in policy
    /\ signed' = signed \cup {p}
    /\ UNCHANGED <<now, policy, revokedAt, open>>

Open(s, p) ==
    /\ open[s] = Closed
    /\ p \in signed
    /\ open' = [open EXCEPT ![s] = [pair |-> p, since |-> now]]
    /\ UNCHANGED <<now, policy, revokedAt, signed>>

\* Any streams may end together, for any reason.
Close(ended) ==
    /\ open' = [s \in StreamIds |-> IF s \in ended THEN Closed ELSE open[s]]
    /\ UNCHANGED <<now, policy, revokedAt, signed>>

\* An open stream whose pair is not authorised is within its grace, which
\* begins with the loss of the right or with the stream if that came later.
WithinGrace(s) ==
    \/ open[s] = Closed
    \/ open[s].pair \in policy
    \/ now - Later(revokedAt[open[s].pair], open[s].since) < Grace

Tick ==
    /\ \A s \in StreamIds : WithinGrace(s)
    /\ now' = now + 1
    /\ UNCHANGED <<policy, revokedAt, signed, open>>

Next ==
    \/ \E p \in Pairs : Grant(p) \/ Revoke(p) \/ Sign(p)
    \/ \E s \in StreamIds, p \in Pairs : Open(s, p)
    \/ \E ended \in SUBSET StreamIds : Close(ended)
    \/ Tick

Spec == Init /\ [][Next]_vars
=============================================================================

------------------------------ MODULE MCTunnels -----------------------------
(* Small instances of Tunnels for TLC: every lifetime of the code is scaled *)
(* down to one or two seconds.                                              *)
EXTENDS Tunnels, TLC

CONSTANTS ann, hermes

\* The services of the instances belong to ann.
MCOwnerOf == [r \in Services |-> ann]

\* Request ids and requester keys are interchangeable; only invariants are
\* checked with it.
MCSymmetry == Permutations(Requests) \cup Permutations(Clients)

\* Views without a history that the run's properties do not speak of.  minted
\* only stops SignCapability, which otherwise leaves the call as EndCall does;
\* uses only stops the creation of tickets, of which the other run has none.
MCTicketView ==
    <<machineVars, now, policyVars, tickets, sessions, signed, plans, call, uses,
      endedAt>>

MCGrantView ==
    <<machineVars, now, policyVars, sessions, signed, plans, call, minted, endedAt>>
=============================================================================

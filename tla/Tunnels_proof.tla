---------------------------- MODULE Tunnels_proof ----------------------------
(***************************************************************************)
(* Proofs about Tunnels, for any accounts, services, credentials, tickets, *)
(* requests and concurrent calls, any lifetimes and any limits.            *)
(***************************************************************************)
EXTENDS Tunnels, Machines_proof

-----------------------------------------------------------------------------
(* Composition with Machines.                                              *)

\* Every action but MachineStep and Tick.  None of them touches the machines
\* or the clock.
Request ==
    \/ \E p \in Pairs : AcceptShare(p) \/ DropShare(p)
    \/ \E r \in Services : SetVisibility(r) \/ DeleteService(r)
    \/ \E t \in Tickets, p \in Pairs : CreateConnectionTicket(t, p)
    \/ \E row \in tickets, client \in Clients : RedeemConnectionTicket(row, client)
    \/ \E s \in sessions : DeleteTunnelSession(s)
    \/ \E id \in Requests, client \in Clients, expires \in Expiries :
           SignRequest(id, client, expires)
    \/ \E h \in Callers :
           \/ \E c \in Credentials : BrokerAuthenticated(h, c)
           \/ \E q \in signed, r \in Services, expires \in Expiries :
                  \/ PlanServiceGrant(h, q, r, expires)
                  \/ IssueServiceGrant(h, q, r, expires)
           \/ \E s \in sessions : StartCapability(h, s)
           \/ CheckSession(h)
           \/ SignCapability(h)
           \/ EndCall(h)

LEMMA NextParts == Next <=> MachineStep \/ Request \/ Tick
  BY DEF Next, Request

LEMMA RequestSparesMachines ==
    Request => UNCHANGED <<machineVars, now>>
  <1> SUFFICES ASSUME Request PROVE UNCHANGED <<machineVars, now>>
    OBVIOUS
  <1>1. CASE \E p \in Pairs : AcceptShare(p) \/ DropShare(p)
    BY <1>1 DEF AcceptShare, DropShare
  <1>2. CASE \E r \in Services : SetVisibility(r) \/ DeleteService(r)
    BY <1>2 DEF SetVisibility, DeleteService
  <1>3. CASE \E t \in Tickets, p \in Pairs : CreateConnectionTicket(t, p)
    BY <1>3 DEF CreateConnectionTicket
  <1>4. CASE \E row \in tickets, client \in Clients : RedeemConnectionTicket(row, client)
    BY <1>4 DEF RedeemConnectionTicket
  <1>5. CASE \E s \in sessions : DeleteTunnelSession(s)
    BY <1>5 DEF DeleteTunnelSession
  <1>6. CASE \E id \in Requests, client \in Clients, expires \in Expiries :
               SignRequest(id, client, expires)
    BY <1>6 DEF SignRequest
  <1>7. ASSUME NEW h \in Callers, NEW q \in signed, NEW r \in Services,
               NEW expires \in Expiries,
               PlanServiceGrant(h, q, r, expires) \/ IssueServiceGrant(h, q, r, expires)
        PROVE  UNCHANGED <<machineVars, now>>
    BY <1>7 DEF PlanServiceGrant, IssueServiceGrant
  <1>8. ASSUME NEW h \in Callers,
               \/ \E c \in Credentials : BrokerAuthenticated(h, c)
               \/ \E s \in sessions : StartCapability(h, s)
               \/ CheckSession(h)
               \/ SignCapability(h)
               \/ EndCall(h)
        PROVE  UNCHANGED <<machineVars, now>>
    BY <1>8
    DEF BrokerAuthenticated, StartCapability, CheckSession, SignCapability, EndCall
  <1> QED
    BY <1>1, <1>2, <1>3, <1>4, <1>5, <1>6, <1>7, <1>8 DEF Request

LEMMA MachinesStep == [Next]_vars => [MachineNext]_machineVars
  BY NextParts, RequestSparesMachines DEF MachineStep, Tick, vars, machineVars

\* The tables of Machines behave beside the tunnels as they do alone: what is
\* proved of Machines holds here.
THEOREM RunsMachines == Spec => MachineSpec
  <1>1. Init => MachineInit
    BY DEF Init
  <1> QED
    BY <1>1, MachinesStep, PTL DEF Spec, MachineSpec

-----------------------------------------------------------------------------
(* Type correctness.                                                       *)

LEMMA InitType == Init => TypeOK
  <1> SUFFICES ASSUME Init PROVE TypeOK
    OBVIOUS
  <1>1. MachineTypeOK
    BY InitMachineType DEF Init
  <1> QED
    BY <1>1, TunnelsAssumption DEF Init, TypeOK

LEMMA MachineTypeKept == TypeOK /\ [Next]_vars => MachineTypeOK'
  BY MachinesStep, NextMachineType DEF TypeOK

\* What is recorded when access ends is a moment of the clock.
LEMMA EndedType ==
    TypeOK => Ended \in [Pairs \cup Credentials -> Nat]
  BY DEF TypeOK, Ended

LEMMA RequestType == TypeOK /\ Request => TypeOK'
  <1> SUFFICES ASSUME TypeOK, Request PROVE TypeOK'
    OBVIOUS
  <1>m. MachineTypeOK' /\ UNCHANGED now
    BY RequestSparesMachines, NextParts, MachineTypeKept
  <1>1. ASSUME NEW p \in Pairs, AcceptShare(p) PROVE TypeOK'
    BY <1>1, <1>m DEF AcceptShare, TypeOK, Pairs
  <1>2. ASSUME NEW p \in Pairs, DropShare(p) PROVE TypeOK'
    BY <1>2, <1>m, EndedType DEF DropShare, TypeOK
  <1>3. ASSUME NEW r \in Services, SetVisibility(r) PROVE TypeOK'
    BY <1>3, <1>m, EndedType DEF SetVisibility, TypeOK
  <1>4. ASSUME NEW r \in Services, DeleteService(r) PROVE TypeOK'
    BY <1>4, <1>m, EndedType DEF DeleteService, TypeOK, OthersThan
  <1>5. ASSUME NEW t \in Tickets, NEW p \in Pairs, CreateConnectionTicket(t, p)
        PROVE  TypeOK'
    <2>1. now + TicketLife \in Nat /\ p[1] \in Accounts /\ p[2] \in alive
      BY <1>5, TunnelsAssumption DEF CreateConnectionTicket, Gate, Pairs, TypeOK
    <2>2. [token |-> t, viewer |-> p[1], resource |-> p[2],
           expires_at |-> now + TicketLife] \in TicketRows
      BY <2>1 DEF TicketRows, TypeOK
    <2> QED
      BY <1>5, <1>m, <2>1, <2>2 DEF CreateConnectionTicket, TypeOK, Unexpired,
         policyVars
  <1>6. ASSUME NEW row \in tickets, NEW client \in Clients,
               RedeemConnectionTicket(row, client)
        PROVE  TypeOK'
    <2> DEFINE s == [viewer |-> row.viewer, resource |-> row.resource,
                     client |-> client, expires_at |-> now + SessionLife,
                     issuer |-> NoIssuer, origin |-> row.token]
    <2>1. row \in TicketRows /\ row.resource \in alive
      BY DEF TypeOK
    <2>2. s \in SessionRows /\ s.resource \in alive
      BY <2>1, TunnelsAssumption DEF TicketRows, SessionRows, TypeOK
    <2>3. /\ tickets' \subseteq tickets
          /\ sessions' \in SUBSET {other \in SessionRows : other.resource \in alive}
      BY <1>6, <2>2
      DEF RedeemConnectionTicket, TypeOK, Unexpired, RemainingTickets
    <2>4. row.token \in Tickets
      BY <2>1 DEF TicketRows
    <2>5. uses' \in [Tickets -> 0 .. 2]
      BY <1>6, <2>4 DEF RedeemConnectionTicket, TypeOK, Used
    <2> QED
      BY <1>6, <1>m, <2>3, <2>5 DEF RedeemConnectionTicket, TypeOK, policyVars
  <1>7. ASSUME NEW s \in sessions, DeleteTunnelSession(s) PROVE TypeOK'
    BY <1>7, <1>m DEF DeleteTunnelSession, TypeOK, policyVars
  <1>8. ASSUME NEW id \in Requests, NEW client \in Clients,
               NEW expires \in Expiries, SignRequest(id, client, expires)
        PROVE  TypeOK'
    <2>1. [id |-> id, client |-> client, expires_at |-> expires] \in SignedRequests
      BY TunnelsAssumption DEF SignedRequests, Expiries
    <2> QED
      BY <1>8, <1>m, <2>1 DEF SignRequest, TypeOK, policyVars
  <1>9. ASSUME NEW h \in Callers, NEW c \in Credentials, BrokerAuthenticated(h, c)
        PROVE  TypeOK'
    <2>1. credential[c].account \in Accounts
      BY <1>9 DEF BrokerAuthenticated, TypeOK, MachineTypeOK
    <2>2. [op |-> "broker", credential |-> c,
           account |-> credential[c].account, at |-> now] \in BrokerCalls
      BY <2>1 DEF BrokerCalls, TypeOK
    <2> QED
      BY <1>9, <1>m, <2>2 DEF BrokerAuthenticated, TypeOK, policyVars
  <1>10. ASSUME NEW h \in Callers, NEW q \in signed, NEW r \in Services,
                NEW expires \in Expiries, PlanServiceGrant(h, q, r, expires)
         PROVE  TypeOK'
    <2>1. call[h] \in BrokerCalls
      BY <1>10 DEF PlanServiceGrant, TypeOK, BrokerCalls, CapabilityCalls, Free
    <2>2. Plan(call[h].credential, q, r, expires) \in PlanClaims
      BY <2>1, TunnelsAssumption
      DEF Plan, PlanClaims, BrokerCalls, TypeOK, Expiries
    <2> QED
      BY <1>10, <1>m, <2>2 DEF PlanServiceGrant, TypeOK, policyVars
  <1>11. ASSUME NEW h \in Callers, NEW q \in signed, NEW r \in Services,
                NEW expires \in Expiries, IssueServiceGrant(h, q, r, expires)
         PROVE  TypeOK'
    <2> DEFINE s == [viewer |-> call[h].account, resource |-> r,
                     client |-> q.client, expires_at |-> expires,
                     issuer |-> call[h].credential, origin |-> q.id]
    <2>1. call[h] \in BrokerCalls
      BY <1>11 DEF IssueServiceGrant, TypeOK, BrokerCalls, CapabilityCalls, Free
    <2>2. q \in SignedRequests
      BY DEF TypeOK
    <2>3. s \in SessionRows
      BY <2>1, <2>2, TunnelsAssumption
      DEF SessionRows, BrokerCalls, SignedRequests, Expiries
    <2>4. r \in alive
      BY <1>11 DEF IssueServiceGrant, ValidGrant, Accessible
    <2>5. /\ \A other \in sessions' : other \in sessions \/ other = s
          /\ call' = [call EXCEPT ![h] = Free]
          /\ UNCHANGED <<policyVars, tickets, signed, plans, minted, uses, endedAt>>
      BY <1>11 DEF IssueServiceGrant, Unexpired
    <2> HIDE DEF s
    <2>6. s.resource = r
      BY DEF s
    <2> QED
      BY <1>m, <2>3, <2>4, <2>5, <2>6 DEF TypeOK, policyVars
  <1>12. ASSUME NEW h \in Callers, NEW s \in sessions, StartCapability(h, s)
         PROVE  TypeOK'
    <2>1. [op |-> "capability", session |-> s, audience |-> NoKey, at |-> now]
            \in CapabilityCalls
      BY DEF CapabilityCalls, TypeOK
    <2> QED
      BY <1>12, <1>m, <2>1 DEF StartCapability, TypeOK, policyVars
  <1>13. ASSUME NEW h \in Callers, CheckSession(h) PROVE TypeOK'
    <2> DEFINE k == daemons[OwnerOf[call[h].session.resource]]
    <2>1. call[h] \in CapabilityCalls
      BY <1>13 DEF CheckSession, TypeOK, BrokerCalls, CapabilityCalls, Free
    <2>2. k \in Endpoints \cup {NoKey}
      BY <2>1, TunnelsAssumption
      DEF CapabilityCalls, SessionRows, TypeOK, MachineTypeOK
    <2>3. [call[h] EXCEPT !.audience = k] \in CapabilityCalls
      BY <2>1, <2>2 DEF CapabilityCalls
    <2>4. call' = [call EXCEPT ![h] = [call[h] EXCEPT !.audience = k]]
      BY <1>13 DEF CheckSession
    <2> QED
      BY <1>13, <1>m, <2>3, <2>4 DEF CheckSession, TypeOK, policyVars
  <1>14. ASSUME NEW h \in Callers, SignCapability(h) PROVE TypeOK'
    <2>1. call[h] \in CapabilityCalls /\ call[h].audience # NoKey
      BY <1>14 DEF SignCapability, TypeOK, BrokerCalls, CapabilityCalls, Free
    <2>2. [session |-> call[h].session, audience |-> call[h].audience,
           issued_at |-> IssueTime(call[h])] \in Capabilities
      BY <2>1 DEF Capabilities, CapabilityCalls, IssueTime
    <2> QED
      BY <1>14, <1>m, <2>2 DEF SignCapability, TypeOK, policyVars
  <1>15. ASSUME NEW h \in Callers, EndCall(h) PROVE TypeOK'
    BY <1>15, <1>m DEF EndCall, TypeOK, policyVars
  <1> QED
    BY <1>1, <1>2, <1>3, <1>4, <1>5, <1>6, <1>7, <1>8, <1>9, <1>10, <1>11,
       <1>12, <1>13, <1>14, <1>15 DEF Request

LEMMA NextType == TypeOK /\ [Next]_vars => TypeOK'
  <1> SUFFICES ASSUME TypeOK, [Next]_vars PROVE TypeOK'
    OBVIOUS
  <1>m. MachineTypeOK'
    BY MachineTypeKept
  <1>1. CASE MachineStep
    BY <1>1, <1>m DEF MachineStep, TypeOK, policyVars, SessionsIssuedBy
  <1>2. CASE Tick
    BY <1>2, <1>m DEF Tick, TypeOK, policyVars
  <1>3. CASE UNCHANGED vars
    BY <1>3, <1>m DEF vars, tunnelVars, policyVars, TypeOK
  <1> QED
    BY <1>1, <1>2, <1>3, RequestType, NextParts

\* Every variable keeps its type, and no row outlives the service it is for.
THEOREM TypeCorrect == Spec => []TypeOK
  BY InitType, NextType, PTL DEF Spec

-----------------------------------------------------------------------------
(* Which steps make a session, a ticket or use one up.                     *)

Redeems ==
    \E row \in tickets, client \in Clients : RedeemConnectionTicket(row, client)

Issues ==
    \E h \in Callers, q \in signed, r \in Services, expires \in Expiries :
        IssueServiceGrant(h, q, r, expires)

\* Sessions only begin by redeeming a ticket or issuing a grant.
LEMMA SessionsMove ==
    [Next]_vars => sessions' \subseteq sessions \/ Redeems \/ Issues
  <1> SUFFICES ASSUME [Next]_vars, ~Redeems, ~Issues
               PROVE  sessions' \subseteq sessions
    OBVIOUS
  <1>1. CASE MachineStep
    BY <1>1 DEF MachineStep, SessionsIssuedBy
  <1>2. CASE Tick
    BY <1>2 DEF Tick
  <1>3. CASE UNCHANGED vars
    BY <1>3 DEF vars, tunnelVars
  <1>4. CASE Request
    <2>1. CASE \E p \in Pairs : AcceptShare(p) \/ DropShare(p)
      BY <2>1 DEF AcceptShare, DropShare
    <2>2. CASE \E r \in Services : SetVisibility(r) \/ DeleteService(r)
      BY <2>2 DEF SetVisibility, DeleteService, OthersThan
    <2>3. CASE \/ \E t \in Tickets, p \in Pairs : CreateConnectionTicket(t, p)
               \/ \E id \in Requests, client \in Clients, expires \in Expiries :
                      SignRequest(id, client, expires)
      BY <2>3 DEF CreateConnectionTicket, SignRequest
    <2>4. CASE \E s \in sessions : DeleteTunnelSession(s)
      BY <2>4 DEF DeleteTunnelSession
    <2>5. ASSUME NEW h \in Callers, NEW q \in signed, NEW r \in Services,
                 NEW expires \in Expiries, PlanServiceGrant(h, q, r, expires)
          PROVE  sessions' \subseteq sessions
      BY <2>5 DEF PlanServiceGrant
    <2>6. ASSUME NEW h \in Callers,
                 \/ \E c \in Credentials : BrokerAuthenticated(h, c)
                 \/ \E s \in sessions : StartCapability(h, s)
                 \/ CheckSession(h)
                 \/ SignCapability(h)
                 \/ EndCall(h)
          PROVE  sessions' \subseteq sessions
      BY <2>6
      DEF BrokerAuthenticated, StartCapability, CheckSession, SignCapability, EndCall
    <2> QED
      BY <1>4, <2>1, <2>2, <2>3, <2>4, <2>5, <2>6 DEF Request, Redeems, Issues
  <1> QED
    BY <1>1, <1>2, <1>3, <1>4, NextParts

\* Tickets only begin in CreateConnectionTicket and are only used by redeeming.
LEMMA TicketsMove ==
    [Next]_vars =>
        \/ tickets' \subseteq tickets /\ UNCHANGED uses
        \/ Redeems
        \/ /\ \E t \in Tickets, p \in Pairs : CreateConnectionTicket(t, p)
           /\ UNCHANGED <<sessions, uses>>
  <1> DEFINE Quiet == tickets' \subseteq tickets /\ UNCHANGED uses
  <1> SUFFICES ASSUME [Next]_vars, ~Redeems,
                      ~\E t \in Tickets, p \in Pairs : CreateConnectionTicket(t, p)
               PROVE  Quiet
    BY DEF CreateConnectionTicket
  <1>1. CASE MachineStep
    BY <1>1 DEF MachineStep
  <1>2. CASE Tick
    BY <1>2 DEF Tick
  <1>3. CASE UNCHANGED vars
    BY <1>3 DEF vars, tunnelVars
  <1>4. CASE Request
    <2>1. CASE \E p \in Pairs : AcceptShare(p) \/ DropShare(p)
      BY <2>1 DEF AcceptShare, DropShare
    <2>2. CASE \E r \in Services : SetVisibility(r) \/ DeleteService(r)
      BY <2>2 DEF SetVisibility, DeleteService, OthersThan
    <2>3. CASE \E id \in Requests, client \in Clients, expires \in Expiries :
                   SignRequest(id, client, expires)
      BY <2>3 DEF SignRequest
    <2>4. CASE \E s \in sessions : DeleteTunnelSession(s)
      BY <2>4 DEF DeleteTunnelSession
    <2>5. ASSUME NEW h \in Callers, NEW q \in signed, NEW r \in Services,
                 NEW expires \in Expiries,
                 PlanServiceGrant(h, q, r, expires) \/ IssueServiceGrant(h, q, r, expires)
          PROVE  Quiet
      BY <2>5 DEF PlanServiceGrant, IssueServiceGrant
    <2>6. ASSUME NEW h \in Callers,
                 \/ \E c \in Credentials : BrokerAuthenticated(h, c)
                 \/ \E s \in sessions : StartCapability(h, s)
                 \/ CheckSession(h)
                 \/ SignCapability(h)
                 \/ EndCall(h)
          PROVE  Quiet
      BY <2>6
      DEF BrokerAuthenticated, StartCapability, CheckSession, SignCapability, EndCall
    <2> QED
      BY <1>4, <2>1, <2>2, <2>3, <2>4, <2>5, <2>6 DEF Request, Redeems
  <1> QED
    BY <1>1, <1>2, <1>3, <1>4, NextParts

\* The session an issued grant would insert.
Granted(h, q, r, expires) ==
    [viewer |-> call[h].account, resource |-> r, client |-> q.client,
     expires_at |-> expires, issuer |-> call[h].credential, origin |-> q.id]

\* What is known of the calls that issue: of the broker, of the plan, and of
\* the sessions that are there already.
LEMMA IssueEffect ==
    ASSUME TypeOK, NEW h \in Callers, NEW q \in signed, NEW r \in Services,
           NEW expires \in Expiries, IssueServiceGrant(h, q, r, expires)
    PROVE  LET s == Granted(h, q, r, expires) IN
           /\ call[h] \in BrokerCalls
           /\ UNCHANGED <<machineVars, now, policyVars, tickets, signed, plans,
                          minted, uses, endedAt>>
           /\ call' = [call EXCEPT ![h] = Free]
           /\ s \in SessionRows
           /\ s.issuer \in Credentials
           /\ s.origin \in Requests
           /\ Plan(s.issuer, q, s.resource, s.expires_at) \in plans
           /\ s.expires_at < q.expires_at + GrantLife
           /\ \/ sessions' \subseteq sessions
              \/ /\ sessions' \subseteq sessions \cup {s}
                 /\ credential[s.issuer].status # "revoked"
                 /\ \A other \in sessions' :
                        other # s => other.origin # s.origin
  <1> DEFINE s == Granted(h, q, r, expires)
  <1>1. call[h] \in BrokerCalls
    BY DEF IssueServiceGrant, TypeOK, BrokerCalls, CapabilityCalls, Free
  <1>2. q \in SignedRequests
    BY DEF TypeOK
  <1>3. s \in SessionRows /\ s.issuer \in Credentials /\ s.origin \in Requests
    BY <1>1, <1>2, TunnelsAssumption
    DEF SessionRows, BrokerCalls, SignedRequests, Expiries, Granted
  <1>4. Plan(s.issuer, q, s.resource, s.expires_at) \in plans
    BY DEF IssueServiceGrant, Approved, Granted
  <1>5. PICK at \in ClockRead(h) :
          /\ ValidGrant(call[h].account, q, r, expires, at)
          /\ sessions' = Unexpired(sessions, at) \cup
                             (IF Insertable(s, at) THEN {s} ELSE {})
    BY DEF IssueServiceGrant, Granted
  <1>6. at \in Int
    BY <1>1 DEF ClockRead, BrokerCalls, TypeOK
  <1>7. s.expires_at < q.expires_at + GrantLife
    BY <1>2, <1>5, <1>6, TunnelsAssumption
    DEF ValidGrant, Granted, SignedRequests, Expiries
  <1>8. \/ sessions' \subseteq sessions
        \/ /\ sessions' \subseteq sessions \cup {s}
           /\ credential[s.issuer].status # "revoked"
           /\ \A other \in sessions' : other # s => other.origin # s.origin
    <2>1. CASE Insertable(s, at)
      BY <1>5, <2>1 DEF Insertable, Unexpired
    <2>2. CASE ~Insertable(s, at)
      BY <1>5, <2>2 DEF Unexpired
    <2> QED
      BY <2>1, <2>2
  <1>9. /\ UNCHANGED <<machineVars, now, policyVars, tickets, signed, plans,
                       minted, uses, endedAt>>
        /\ call' = [call EXCEPT ![h] = Free]
    BY DEF IssueServiceGrant
  <1> QED
    BY <1>1, <1>3, <1>4, <1>7, <1>8, <1>9

\* The session a redeemed ticket buys.
Bought(row, client) ==
    [viewer |-> row.viewer, resource |-> row.resource, client |-> client,
     expires_at |-> now + SessionLife, issuer |-> NoIssuer, origin |-> row.token]

LEMMA RedeemEffect ==
    ASSUME TypeOK, NEW row \in tickets, NEW client \in Clients,
           RedeemConnectionTicket(row, client)
    PROVE  /\ row.token \in Tickets
           /\ tickets' = tickets \ {row}
           /\ \/ sessions' = sessions /\ uses' = uses
              \/ /\ sessions' \subseteq sessions \cup {Bought(row, client)}
                 /\ uses' = Used(row.token)
           /\ Bought(row, client).origin = row.token
           /\ Bought(row, client).issuer = NoIssuer
           /\ UNCHANGED <<machineVars, now, policyVars, signed, plans, call,
                          minted, endedAt>>
  BY DEF RedeemConnectionTicket, RemainingTickets, Unexpired, TypeOK, TicketRows,
         Bought

-----------------------------------------------------------------------------
(* One session for a ticket, one at a time for a request.                  *)

\* The strengthening of TicketBuysOneSession: a ticket that is still in the
\* table, once, has bought nothing, and a session that stems from a ticket has
\* been counted.
TicketInv ==
    /\ \A t \in Tickets : uses[t] <= 1
    /\ \A row \in tickets : uses[row.token] = 0
    /\ \A row, other \in tickets : row.token = other.token => row = other
    /\ \A s \in sessions : s.origin \in Tickets => uses[s.origin] = 1

LEMMA InitTicket == Init => TicketInv /\ OneSessionPerOrigin
  BY DEF Init, TicketInv, OneSessionPerOrigin

LEMMA NextTicket == TypeOK /\ TicketInv /\ [Next]_vars => TicketInv'
  <1> SUFFICES ASSUME TypeOK, TicketInv, [Next]_vars PROVE TicketInv'
    OBVIOUS
  <1>1. ASSUME NEW row \in tickets, NEW client \in Clients,
               RedeemConnectionTicket(row, client)
        PROVE  TicketInv'
    <2>1. row.token \in Tickets /\ uses[row.token] = 0 /\ tickets' = tickets \ {row}
      BY <1>1, RedeemEffect DEF TicketInv
    <2>2. CASE sessions' = sessions /\ uses' = uses
      BY <2>1, <2>2 DEF TicketInv
    <2>3. CASE /\ sessions' \subseteq sessions \cup {Bought(row, client)}
               /\ uses' = Used(row.token)
      <3>1. uses' = [uses EXCEPT ![row.token] = 1]
        BY <2>1, <2>3 DEF Used, TypeOK
      <3>2. \A t \in Tickets : t # row.token => uses'[t] = uses[t]
        BY <2>1, <3>1 DEF TypeOK
      <3>3. uses'[row.token] = 1
        BY <2>1, <3>1 DEF TypeOK
      <3>4. \A other \in tickets' : other.token \in Tickets /\ other.token # row.token
        BY <2>1 DEF TicketInv, TypeOK, TicketRows
      <3>5. \A s \in sessions' : s.origin \in Tickets => uses'[s.origin] = 1
        BY <1>1, <2>3, <3>2, <3>3, RedeemEffect DEF TicketInv
      <3> QED
        BY <2>1, <3>2, <3>3, <3>4, <3>5 DEF TicketInv
    <2> QED
      BY <1>1, <2>2, <2>3, RedeemEffect
  <1>2. ASSUME NEW t \in Tickets, NEW p \in Pairs, CreateConnectionTicket(t, p),
               UNCHANGED <<sessions, uses>>
        PROVE  TicketInv'
    BY <1>2 DEF CreateConnectionTicket, Unexpired, TicketInv
  <1>3. CASE tickets' \subseteq tickets /\ UNCHANGED uses /\ ~Redeems
    <2>1. \A s \in sessions' : s \in sessions \/ s.origin \in Requests
      BY <1>3, SessionsMove, IssueEffect DEF Issues
    <2> QED
      BY <1>3, <2>1, TunnelsAssumption DEF TicketInv
  <1> QED
    BY <1>1, <1>2, <1>3, TicketsMove DEF Redeems

\* However often a ticket is presented, it buys one session.
THEOREM TicketsAreSpent == Spec => []TicketBuysOneSession
  <1>1. TicketInv => TicketBuysOneSession
    BY DEF TicketInv, TicketBuysOneSession
  <1> QED
    BY <1>1, InitTicket, NextTicket, TypeCorrect, PTL DEF Spec

LEMMA NextOrigin ==
    TypeOK /\ TicketInv /\ OneSessionPerOrigin /\ [Next]_vars => OneSessionPerOrigin'
  <1> SUFFICES ASSUME TypeOK, TicketInv, OneSessionPerOrigin, [Next]_vars
               PROVE  OneSessionPerOrigin'
    OBVIOUS
  <1>1. CASE sessions' \subseteq sessions
    BY <1>1 DEF OneSessionPerOrigin
  <1>2. ASSUME NEW row \in tickets, NEW client \in Clients,
               RedeemConnectionTicket(row, client)
        PROVE  OneSessionPerOrigin'
    <2>1. \A s \in sessions : s.origin # row.token
      BY <1>2, RedeemEffect DEF TicketInv
    <2> QED
      BY <1>2, <2>1, RedeemEffect DEF OneSessionPerOrigin
  <1>3. ASSUME NEW h \in Callers, NEW q \in signed, NEW r \in Services,
               NEW expires \in Expiries, IssueServiceGrant(h, q, r, expires)
        PROVE  OneSessionPerOrigin'
    BY <1>3, IssueEffect DEF OneSessionPerOrigin
  <1> QED
    BY <1>1, <1>2, <1>3, SessionsMove DEF Redeems, Issues

\* At no time do two sessions stem from one ticket or one request id.
THEOREM OriginsAreUnique == Spec => []OneSessionPerOrigin
  BY InitTicket, NextTicket, NextOrigin, TypeCorrect, PTL DEF Spec

-----------------------------------------------------------------------------
(* Revoked brokers and approved plans.                                     *)

\* A credential that was enrolled stays so until it is revoked, which is final.
LEMMA StatusMoves ==
    ASSUME TypeOK, [Next]_vars, NEW c \in Credentials
    PROVE  /\ credential[c].status = "enrolled"
                  => credential'[c].status \in {"enrolled", "revoked"}
           /\ credential[c].status = "revoked" => credential'[c].status = "revoked"
  <1>1. RowsMove
    BY MachinesStep, NextMovesOneRow DEF TypeOK
  <1> QED
    BY <1>1 DEF RowsMove, Created, Enrolled, Enrollable, Revoked

\* A call of a broker was authenticated with a credential that was enrolled.
BrokerInv ==
    \A h \in Callers :
        call[h].op = "broker" =>
            credential[call[h].credential].status \in {"enrolled", "revoked"}

LEMMA FreeHasNoOp == Free.op = "none"
  BY DEF Free

LEMMA InitBroker == Init => BrokerInv /\ RevokedIssuerHasNoSessions /\ GrantAsApproved
  BY FreeHasNoOp DEF Init, BrokerInv, RevokedIssuerHasNoSessions, GrantAsApproved

\* How a call moves: it begins at the time of now, passes the check of its
\* session, or ends.
Begun(h) ==
    \/ \E c \in Credentials : BrokerAuthenticated(h, c)
    \/ \E s \in sessions : StartCapability(h, s)

LEMMA CallsMove ==
    [Next]_vars =>
        \/ UNCHANGED call
        \/ \E h \in Callers : call' = [call EXCEPT ![h] = Free]
        \/ \E h \in Callers : Begun(h) \/ CheckSession(h)
  <1> DEFINE Goal == \/ UNCHANGED call
                     \/ \E h \in Callers : call' = [call EXCEPT ![h] = Free]
                     \/ \E h \in Callers : Begun(h) \/ CheckSession(h)
  <1> SUFFICES ASSUME [Next]_vars PROVE Goal
    OBVIOUS
  <1>1. CASE MachineStep
    BY <1>1 DEF MachineStep
  <1>2. CASE Tick
    BY <1>2 DEF Tick
  <1>3. CASE UNCHANGED vars
    BY <1>3 DEF vars, tunnelVars
  <1>4. CASE Request
    <2>1. CASE \E p \in Pairs : AcceptShare(p) \/ DropShare(p)
      BY <2>1 DEF AcceptShare, DropShare
    <2>2. CASE \E r \in Services : SetVisibility(r) \/ DeleteService(r)
      BY <2>2 DEF SetVisibility, DeleteService
    <2>3. CASE \/ \E t \in Tickets, p \in Pairs : CreateConnectionTicket(t, p)
               \/ \E row \in tickets, client \in Clients :
                      RedeemConnectionTicket(row, client)
               \/ \E id \in Requests, client \in Clients, expires \in Expiries :
                      SignRequest(id, client, expires)
      BY <2>3 DEF CreateConnectionTicket, RedeemConnectionTicket, SignRequest
    <2>4. CASE \E s \in sessions : DeleteTunnelSession(s)
      BY <2>4 DEF DeleteTunnelSession
    <2>5. ASSUME NEW h \in Callers, NEW q \in signed, NEW r \in Services,
                 NEW expires \in Expiries,
                 PlanServiceGrant(h, q, r, expires) \/ IssueServiceGrant(h, q, r, expires)
          PROVE  Goal
      BY <2>5 DEF PlanServiceGrant, IssueServiceGrant
    <2>6. ASSUME NEW h \in Callers, SignCapability(h) \/ EndCall(h)
          PROVE  Goal
      BY <2>6 DEF SignCapability, EndCall
    <2>7. ASSUME NEW h \in Callers, Begun(h) \/ CheckSession(h)
          PROVE  Goal
      BY <2>7
    <2> HIDE DEF Goal
    <2> QED
      BY <1>4, <2>1, <2>2, <2>3, <2>4, <2>5, <2>6, <2>7 DEF Request, Begun
  <1> QED
    BY <1>1, <1>2, <1>3, <1>4, NextParts

\* What a step makes of the call in slot h.
LEMMA CallEffect ==
    ASSUME TypeOK, [Next]_vars, NEW h \in Callers
    PROVE  \/ call'[h] = call[h]
           \/ call'[h] = Free
           \/ /\ call'[h].op = "broker"
              /\ call'[h].at = now
              /\ credential[call'[h].credential].status = "enrolled"
           \/ /\ call'[h].op = "capability"
              /\ call'[h].at = now
              /\ call'[h].audience = NoKey
           \/ /\ CheckSession(h)
              /\ call'[h].op = "capability"
              /\ call'[h].session = call[h].session
              /\ call'[h].at = call[h].at
  <1>1. ASSUME NEW g \in Callers, NEW c \in Credentials, BrokerAuthenticated(g, c)
        PROVE  \/ call'[h] = call[h]
               \/ /\ call'[h].op = "broker"
                  /\ call'[h].at = now
                  /\ credential[call'[h].credential].status = "enrolled"
    BY <1>1 DEF BrokerAuthenticated, TypeOK
  <1>2. ASSUME NEW g \in Callers, NEW s \in sessions, StartCapability(g, s)
        PROVE  \/ call'[h] = call[h]
               \/ /\ call'[h].op = "capability"
                  /\ call'[h].at = now
                  /\ call'[h].audience = NoKey
    BY <1>2 DEF StartCapability, TypeOK
  <1>3. ASSUME NEW g \in Callers, CheckSession(g)
        PROVE  \/ call'[h] = call[h]
               \/ /\ CheckSession(h)
                  /\ call'[h].op = "capability"
                  /\ call'[h].session = call[h].session
                  /\ call'[h].at = call[h].at
    <2> DEFINE k == daemons[OwnerOf[call[g].session.resource]]
    <2>1. call' = [call EXCEPT ![g] = [call[g] EXCEPT !.audience = k]]
      BY <1>3 DEF CheckSession
    <2>2. call[g] \in CapabilityCalls
      BY <1>3 DEF CheckSession, TypeOK, BrokerCalls, CapabilityCalls, Free
    <2>3. CASE g = h
      BY <1>3, <2>1, <2>2, <2>3 DEF TypeOK, CapabilityCalls
    <2>4. CASE g # h
      BY <2>1, <2>4 DEF TypeOK
    <2> QED
      BY <2>3, <2>4
  <1>4. ASSUME NEW g \in Callers, call' = [call EXCEPT ![g] = Free]
        PROVE  call'[h] = call[h] \/ call'[h] = Free
    BY <1>4 DEF TypeOK
  <1> QED
    BY <1>1, <1>2, <1>3, <1>4, CallsMove DEF Begun

LEMMA NextBroker == TypeOK /\ BrokerInv /\ [Next]_vars => BrokerInv'
  <1> SUFFICES ASSUME TypeOK, BrokerInv, [Next]_vars,
                      NEW h \in Callers, call'[h].op = "broker"
               PROVE  credential'[call'[h].credential].status \in {"enrolled", "revoked"}
    BY DEF BrokerInv
  <1>1. call'[h] \in BrokerCalls
    BY NextType DEF TypeOK, BrokerCalls, CapabilityCalls, Free
  <1>2. credential[call'[h].credential].status \in {"enrolled", "revoked"}
    BY CallEffect, FreeHasNoOp DEF BrokerInv
  <1> QED
    BY <1>1, <1>2, StatusMoves DEF BrokerCalls

LEMMA NextRevoked ==
    TypeOK /\ BrokerInv /\ RevokedIssuerHasNoSessions /\ [Next]_vars
        => RevokedIssuerHasNoSessions'
  <1> SUFFICES ASSUME TypeOK, BrokerInv, RevokedIssuerHasNoSessions, [Next]_vars
               PROVE  RevokedIssuerHasNoSessions'
    OBVIOUS
  <1>1. CASE MachineStep
    <2>1. ASSUME NEW s \in sessions', s.issuer # NoIssuer
          PROVE  credential'[s.issuer].status = "enrolled"
      <3>1. /\ s \in sessions
            /\ s.issuer \in Credentials
            /\ credential'[s.issuer].status # "revoked"
        BY <1>1, <2>1 DEF MachineStep, SessionsIssuedBy
      <3> QED
        BY <2>1, <3>1, StatusMoves DEF RevokedIssuerHasNoSessions
    <2> QED
      BY <2>1 DEF RevokedIssuerHasNoSessions
  <1>2. CASE UNCHANGED credential /\ sessions' \subseteq sessions
    BY <1>2 DEF RevokedIssuerHasNoSessions
  <1>3. CASE Redeems
    BY <1>3, RedeemEffect DEF Redeems, RevokedIssuerHasNoSessions, machineVars
  <1>4. ASSUME NEW h \in Callers, NEW q \in signed, NEW r \in Services,
               NEW expires \in Expiries, IssueServiceGrant(h, q, r, expires)
        PROVE  RevokedIssuerHasNoSessions'
    <2> DEFINE s == Granted(h, q, r, expires)
    <2>1. /\ s.issuer = call[h].credential
          /\ call[h].op = "broker"
          /\ UNCHANGED credential
      BY <1>4, IssueEffect DEF Granted, IssueServiceGrant, machineVars
    <2>2. \/ sessions' \subseteq sessions
          \/ /\ sessions' \subseteq sessions \cup {s}
             /\ credential[s.issuer].status # "revoked"
      BY <1>4, IssueEffect
    <2>3. credential[s.issuer].status \in {"enrolled", "revoked"}
      BY <2>1 DEF BrokerInv
    <2> HIDE DEF s
    <2> QED
      BY <2>1, <2>2, <2>3 DEF RevokedIssuerHasNoSessions
  <1> QED
    BY <1>1, <1>2, <1>3, <1>4, SessionsMove, NextParts, RequestSparesMachines
    DEF Issues, machineVars, vars, Tick

\* A revoked broker has no session, whichever of its calls were under way.
THEOREM RevocationEndsSessions == Spec => []RevokedIssuerHasNoSessions
  BY InitBroker, NextBroker, NextRevoked, TypeCorrect, PTL DEF Spec

\* Requests that were signed and plans that were approved stay so.
LEMMA ApprovalsStay == [Next]_vars => signed \subseteq signed' /\ plans \subseteq plans'
  <1> DEFINE Goal == signed \subseteq signed' /\ plans \subseteq plans'
  <1> SUFFICES ASSUME [Next]_vars PROVE Goal
    OBVIOUS
  <1>1. CASE MachineStep
    BY <1>1 DEF MachineStep
  <1>2. CASE Tick
    BY <1>2 DEF Tick
  <1>3. CASE UNCHANGED vars
    BY <1>3 DEF vars, tunnelVars
  <1>4. CASE Request
    <2>1. CASE \E p \in Pairs : AcceptShare(p) \/ DropShare(p)
      BY <2>1 DEF AcceptShare, DropShare
    <2>2. CASE \E r \in Services : SetVisibility(r) \/ DeleteService(r)
      BY <2>2 DEF SetVisibility, DeleteService
    <2>3. CASE \/ \E t \in Tickets, p \in Pairs : CreateConnectionTicket(t, p)
               \/ \E row \in tickets, client \in Clients :
                      RedeemConnectionTicket(row, client)
               \/ \E s \in sessions : DeleteTunnelSession(s)
      BY <2>3 DEF CreateConnectionTicket, RedeemConnectionTicket, DeleteTunnelSession
    <2>4. CASE \E id \in Requests, client \in Clients, expires \in Expiries :
                   SignRequest(id, client, expires)
      BY <2>4 DEF SignRequest
    <2>5. ASSUME NEW h \in Callers, NEW q \in signed, NEW r \in Services,
                 NEW expires \in Expiries,
                 PlanServiceGrant(h, q, r, expires) \/ IssueServiceGrant(h, q, r, expires)
          PROVE  Goal
      BY <2>5 DEF PlanServiceGrant, IssueServiceGrant
    <2>6. ASSUME NEW h \in Callers,
                 \/ \E c \in Credentials : BrokerAuthenticated(h, c)
                 \/ \E s \in sessions : StartCapability(h, s)
                 \/ CheckSession(h)
                 \/ SignCapability(h)
                 \/ EndCall(h)
          PROVE  Goal
      BY <2>6
      DEF BrokerAuthenticated, StartCapability, CheckSession, SignCapability, EndCall
    <2> HIDE DEF Goal
    <2> QED
      BY <1>4, <2>1, <2>2, <2>3, <2>4, <2>5, <2>6 DEF Request
  <1> QED
    BY <1>1, <1>2, <1>3, <1>4, NextParts

\* What GrantAsApproved asks of one session.
AsApproved(s) ==
    s.origin \in Requests =>
        \E q \in signed :
            /\ q.id = s.origin
            /\ q.client = s.client
            /\ s.expires_at < q.expires_at + GrantLife
            /\ Plan(s.issuer, q, s.resource, s.expires_at) \in plans

LEMMA NextApproved ==
    TypeOK /\ GrantAsApproved /\ [Next]_vars => GrantAsApproved'
  <1> SUFFICES ASSUME TypeOK, GrantAsApproved, [Next]_vars, NEW s \in sessions'
               PROVE  AsApproved(s)'
    BY DEF GrantAsApproved, AsApproved
  <1>1. CASE s \in sessions
    <2>1. AsApproved(s)
      BY <1>1 DEF GrantAsApproved, AsApproved
    <2> QED
      BY <2>1, ApprovalsStay DEF AsApproved, Plan
  <1>2. CASE s \notin sessions /\ Redeems
    BY <1>2, RedeemEffect, TunnelsAssumption DEF Redeems, AsApproved
  <1>3. ASSUME NEW h \in Callers, NEW q \in signed, NEW r \in Services,
               NEW expires \in Expiries, IssueServiceGrant(h, q, r, expires),
               s \notin sessions
        PROVE  AsApproved(s)'
    <2>1. s = Granted(h, q, r, expires)
      BY <1>3, IssueEffect
    <2>2. /\ UNCHANGED <<signed, plans>>
          /\ Plan(s.issuer, q, s.resource, s.expires_at) \in plans
          /\ s.expires_at < q.expires_at + GrantLife
      BY <1>3, <2>1, IssueEffect
    <2>3. q.id = s.origin /\ q.client = s.client
      BY <2>1 DEF Granted
    <2> QED
      BY <2>2, <2>3 DEF AsApproved, Plan
  <1> QED
    BY <1>1, <1>2, <1>3, SessionsMove DEF Issues

\* A brokered session is one that was approved, in each of its parts.
THEOREM GrantsAreApproved == Spec => []GrantAsApproved
  BY InitBroker, NextApproved, TypeCorrect, PTL DEF Spec

-----------------------------------------------------------------------------
(* When a capability was issued.                                           *)

\* Nothing is dated later than the clock.
ClockInv ==
    /\ \A h \in Callers : call[h] # Free => call[h].at <= now
    /\ \A m \in minted : m.issued_at <= now
    /\ \A x \in Pairs \cup Credentials : endedAt[x] <= now

\* What CapabilityWindow asks of a session at time `at`.
Dated(s, at) ==
    /\ at < s.expires_at
    /\ Gate(<<s.viewer, s.resource>>) \/ at <= endedAt[<<s.viewer, s.resource>>]
    /\ \/ s.issuer = NoIssuer
       \/ credential[s.issuer].status = "enrolled"
       \/ at <= endedAt[s.issuer]

\* The strengthening of CapabilityWindow: it holds already of the calls whose
\* session was checked, at the time they read before the lock.
WindowInv ==
    /\ \A m \in minted : Dated(m.session, m.issued_at)
    /\ \A h \in Callers, s \in SessionRows, at \in Nat :
           /\ call[h].op = "capability"
           /\ call[h].audience # NoKey
           /\ call[h].session = s
           /\ call[h].at = at
           => Dated(s, at)

LEMMA InitWindow == Init => ClockInv /\ WindowInv
  BY FreeHasNoOp DEF Init, ClockInv, WindowInv

\* The clock, and what is recorded of it, only go forward; when a pair or a
\* credential loses its access, that moment is recorded.
Recorded ==
    /\ now' \in Nat /\ now <= now'
    /\ \A x \in Pairs \cup Credentials :
           endedAt'[x] = endedAt[x] \/ endedAt'[x] = now
    /\ \A p \in Pairs : Gate(p) => Gate(p)' \/ endedAt'[p] = now
    /\ \A c \in Credentials :
           credential[c].status = "enrolled" =>
               credential'[c].status = "enrolled" \/ endedAt'[c] = now

LEMMA EndedEffect == TypeOK /\ [Next]_vars => Recorded
  <1> SUFFICES ASSUME TypeOK, [Next]_vars PROVE Recorded
    OBVIOUS
  <1>1. CASE MachineStep
    <2>1. \A p \in Pairs : Gate(p)' <=> Gate(p)
      BY <1>1 DEF MachineStep, policyVars, Gate
    <2>2. \A x \in Pairs \cup Credentials :
              endedAt'[x] = IF /\ x \in Credentials
                               /\ credential[x].status = "enrolled"
                               /\ credential'[x].status = "revoked"
                            THEN now ELSE endedAt[x]
      BY <1>1 DEF MachineStep
    <2>3. now' = now /\ now \in Nat
      BY <1>1 DEF MachineStep, TypeOK
    <2> QED
      BY <2>1, <2>2, <2>3, StatusMoves DEF Recorded
  <1>2. CASE UNCHANGED <<machineVars, now>> /\ endedAt' = Ended
    <2>1. \A x \in Pairs \cup Credentials :
              endedAt'[x] = IF x \in Pairs /\ Gate(x) /\ ~Gate(x)'
                            THEN now ELSE endedAt[x]
      BY <1>2 DEF Ended
    <2> QED
      BY <1>2, <2>1 DEF machineVars, TypeOK, Recorded
  <1>3. CASE /\ UNCHANGED <<machineVars, endedAt>>
             /\ now' \in Nat /\ now <= now'
             /\ alive' = alive /\ shared' = shared /\ shares \subseteq shares'
    BY <1>3 DEF machineVars, Gate, TypeOK, Recorded
  <1>q. CASE UNCHANGED <<machineVars, now, policyVars, endedAt>>
    BY <1>q, <1>3 DEF policyVars, TypeOK
  <1>4. CASE UNCHANGED vars
    BY <1>q, <1>4 DEF vars, tunnelVars
  <1>5. CASE Tick
    BY <1>3, <1>5 DEF Tick, policyVars, TypeOK
  <1>6. CASE Request
    <2>1. UNCHANGED <<machineVars, now>>
      BY <1>6, RequestSparesMachines
    <2>2. CASE \E p \in Pairs : DropShare(p)
      BY <1>2, <2>1, <2>2 DEF DropShare
    <2>3. CASE \E r \in Services : SetVisibility(r) \/ DeleteService(r)
      BY <1>2, <2>1, <2>3 DEF SetVisibility, DeleteService
    <2>4. CASE \E p \in Pairs : AcceptShare(p)
      BY <1>3, <2>1, <2>4 DEF AcceptShare, TypeOK
    <2>5. CASE \/ \E t \in Tickets, p \in Pairs : CreateConnectionTicket(t, p)
               \/ \E row \in tickets, client \in Clients :
                      RedeemConnectionTicket(row, client)
               \/ \E s \in sessions : DeleteTunnelSession(s)
               \/ \E id \in Requests, client \in Clients, expires \in Expiries :
                      SignRequest(id, client, expires)
      BY <1>q, <2>1, <2>5
      DEF CreateConnectionTicket, RedeemConnectionTicket, DeleteTunnelSession,
          SignRequest
    <2>6. ASSUME NEW h \in Callers, NEW q \in signed, NEW r \in Services,
                 NEW expires \in Expiries,
                 PlanServiceGrant(h, q, r, expires) \/ IssueServiceGrant(h, q, r, expires)
          PROVE  Recorded
      BY <1>q, <2>1, <2>6 DEF PlanServiceGrant, IssueServiceGrant
    <2>7. ASSUME NEW h \in Callers,
                 \/ \E c \in Credentials : BrokerAuthenticated(h, c)
                 \/ \E s \in sessions : StartCapability(h, s)
                 \/ CheckSession(h)
                 \/ SignCapability(h)
                 \/ EndCall(h)
          PROVE  Recorded
      BY <1>q, <2>1, <2>7
      DEF BrokerAuthenticated, StartCapability, CheckSession, SignCapability, EndCall
    <2> QED
      BY <1>6, <2>2, <2>3, <2>4, <2>5, <2>6, <2>7 DEF Request
  <1> QED
    BY <1>1, <1>4, <1>5, <1>6, NextParts

\* Only SignCapability adds a capability, with the session and the time of its
\* call.
LEMMA MintedMove ==
    [Next]_vars =>
        \A m \in minted' :
            \/ m \in minted
            \/ \E h \in Callers :
                   /\ call[h].op = "capability"
                   /\ call[h].audience # NoKey
                   /\ m.session = call[h].session
                   /\ m.issued_at = call[h].at
  <1> DEFINE Quiet == minted' = minted
  <1> SUFFICES ASSUME [Next]_vars, NEW m \in minted', ~Quiet
               PROVE  \E h \in Callers :
                          /\ call[h].op = "capability"
                          /\ call[h].audience # NoKey
                          /\ (m \in minted \/ /\ m.session = call[h].session
                                              /\ m.issued_at = call[h].at)
    OBVIOUS
  <1>1. ASSUME NEW h \in Callers, SignCapability(h)
        PROVE  /\ call[h].op = "capability"
               /\ call[h].audience # NoKey
               /\ (m \in minted \/ /\ m.session = call[h].session
                                   /\ m.issued_at = call[h].at)
    BY <1>1 DEF SignCapability, IssueTime
  <1>2. CASE MachineStep
    BY <1>2 DEF MachineStep
  <1>3. CASE Tick
    BY <1>3 DEF Tick
  <1>4. CASE UNCHANGED vars
    BY <1>4 DEF vars, tunnelVars
  <1>5. CASE Request
    <2>1. CASE \E p \in Pairs : AcceptShare(p) \/ DropShare(p)
      BY <2>1 DEF AcceptShare, DropShare
    <2>2. CASE \E r \in Services : SetVisibility(r) \/ DeleteService(r)
      BY <2>2 DEF SetVisibility, DeleteService
    <2>3. CASE \/ \E t \in Tickets, p \in Pairs : CreateConnectionTicket(t, p)
               \/ \E row \in tickets, client \in Clients :
                      RedeemConnectionTicket(row, client)
               \/ \E s \in sessions : DeleteTunnelSession(s)
               \/ \E id \in Requests, client \in Clients, expires \in Expiries :
                      SignRequest(id, client, expires)
      BY <2>3
      DEF CreateConnectionTicket, RedeemConnectionTicket, DeleteTunnelSession, SignRequest
    <2>4. ASSUME NEW h \in Callers, NEW q \in signed, NEW r \in Services,
                 NEW expires \in Expiries,
                 PlanServiceGrant(h, q, r, expires) \/ IssueServiceGrant(h, q, r, expires)
          PROVE  Quiet
      BY <2>4 DEF PlanServiceGrant, IssueServiceGrant
    <2>5. ASSUME NEW h \in Callers,
                 \/ \E c \in Credentials : BrokerAuthenticated(h, c)
                 \/ \E s \in sessions : StartCapability(h, s)
                 \/ CheckSession(h)
                 \/ EndCall(h)
          PROVE  Quiet
      BY <2>5 DEF BrokerAuthenticated, StartCapability, CheckSession, EndCall
    <2> QED
      BY <1>1, <1>5, <2>1, <2>2, <2>3, <2>4, <2>5 DEF Request
  <1> QED
    BY <1>2, <1>3, <1>4, <1>5, NextParts

LEMMA NextClock == TypeOK /\ ClockInv /\ [Next]_vars => ClockInv'
  <1> SUFFICES ASSUME TypeOK, ClockInv, [Next]_vars PROVE ClockInv'
    OBVIOUS
  <1>1. now \in Nat /\ now' \in Nat /\ now <= now'
    BY EndedEffect DEF Recorded, TypeOK
  <1>2. \A h \in Callers : call[h] # Free => call[h] \in BrokerCalls \cup CapabilityCalls
    BY DEF TypeOK
  <1>3. \A h \in Callers : call[h] # Free => call[h].at \in Nat /\ call[h].at <= now
    BY <1>2 DEF ClockInv, BrokerCalls, CapabilityCalls
  <1>4. ASSUME NEW h \in Callers, call'[h] # Free PROVE call'[h].at <= now'
    <2>1. \/ call'[h] = call[h]
          \/ call'[h].at = now
          \/ CheckSession(h) /\ call'[h].at = call[h].at
      BY <1>4, CallEffect
    <2>2. CheckSession(h) => call[h] # Free
      BY FreeHasNoOp DEF CheckSession
    <2> QED
      BY <1>1, <1>3, <1>4, <2>1, <2>2
  <1>5. ASSUME NEW m \in minted' PROVE m.issued_at <= now'
    <2>1. m \in minted => m.issued_at \in Nat /\ m.issued_at <= now
      BY DEF ClockInv, TypeOK, Capabilities
    <2> QED
      BY <1>1, <1>3, <2>1, MintedMove, FreeHasNoOp
  <1>6. ASSUME NEW x \in Pairs \cup Credentials PROVE endedAt'[x] <= now'
    <2>1. endedAt[x] \in Nat /\ endedAt[x] <= now
      BY DEF ClockInv, TypeOK
    <2> QED
      BY <1>1, <2>1, EndedEffect DEF Recorded
  <1> QED
    BY <1>4, <1>5, <1>6 DEF ClockInv

LEMMA DatedKept ==
    ASSUME TypeOK, ClockInv, [Next]_vars,
           NEW s \in SessionRows, NEW at \in Nat, at <= now, Dated(s, at)
    PROVE  Dated(s, at)'
  <1> DEFINE p == <<s.viewer, s.resource>>
  <1>1. p \in Pairs
    BY DEF SessionRows, Pairs
  <1>2. s.issuer \in Credentials \cup {NoIssuer}
    BY DEF SessionRows
  <1>3. \A x \in Pairs \cup Credentials :
            at <= endedAt[x] => at <= endedAt'[x]
    BY EndedEffect DEF Recorded, ClockInv, TypeOK
  <1>4. Gate(p)' \/ at <= endedAt'[p]
    BY <1>1, <1>3, EndedEffect DEF Recorded, Dated
  <1>5. \/ s.issuer = NoIssuer
        \/ credential'[s.issuer].status = "enrolled"
        \/ at <= endedAt'[s.issuer]
    BY <1>2, <1>3, EndedEffect DEF Recorded, Dated
  <1> QED
    BY <1>4, <1>5 DEF Dated

\* CheckSession sees all three under one lock.
LEMMA CheckDates ==
    ASSUME TypeOK, RevokedIssuerHasNoSessions, NEW h \in Callers, CheckSession(h),
           NEW s, s = call[h].session, NEW at, at = call[h].at
    PROVE  s \in SessionRows /\ at \in Nat /\ Dated(s, at)
  <1>1. call[h] \in CapabilityCalls
    BY DEF CheckSession, TypeOK, BrokerCalls, CapabilityCalls, Free
  <1>2. /\ s \in sessions
        /\ s.expires_at > at
        /\ Gate(<<s.viewer, s.resource>>)
    BY DEF CheckSession, Unexpired
  <1>3. s \in SessionRows /\ at \in Nat
    BY <1>1 DEF CapabilityCalls
  <1>4. s.issuer = NoIssuer \/ credential[s.issuer].status = "enrolled"
    BY <1>2 DEF RevokedIssuerHasNoSessions
  <1>5. at < s.expires_at
    BY <1>2, <1>3 DEF SessionRows
  <1> QED
    BY <1>2, <1>3, <1>4, <1>5 DEF Dated

LEMMA NextWindow ==
    TypeOK /\ RevokedIssuerHasNoSessions /\ ClockInv /\ WindowInv /\ [Next]_vars
        => WindowInv'
  <1> SUFFICES ASSUME TypeOK, RevokedIssuerHasNoSessions, ClockInv, WindowInv,
                      [Next]_vars
               PROVE  WindowInv'
    OBVIOUS
  <1>1. ASSUME NEW h \in Callers, NEW s \in SessionRows, NEW at \in Nat,
               call[h].op = "capability", call[h].audience # NoKey,
               call[h].session = s, call[h].at = at
        PROVE  Dated(s, at)'
    <2>1. at <= now
      BY <1>1, FreeHasNoOp DEF ClockInv
    <2> QED
      BY <1>1, <2>1, DatedKept DEF WindowInv
  <1>2. ASSUME NEW m \in minted' PROVE Dated(m.session, m.issued_at)'
    <2>1. CASE m \in minted
      <3>1. /\ m.session \in SessionRows
            /\ m.issued_at \in Nat
            /\ m.issued_at <= now
            /\ Dated(m.session, m.issued_at)
        BY <2>1 DEF ClockInv, WindowInv, TypeOK, Capabilities
      <3> QED
        BY <3>1, DatedKept
    <2>2. ASSUME NEW h \in Callers,
                 call[h].op = "capability", call[h].audience # NoKey,
                 m.session = call[h].session, m.issued_at = call[h].at
          PROVE  Dated(m.session, m.issued_at)'
      <3>1. call[h] \in CapabilityCalls
        BY <2>2 DEF TypeOK, BrokerCalls, CapabilityCalls, Free
      <3>2. m.session \in SessionRows /\ m.issued_at \in Nat
        BY <2>2, <3>1 DEF CapabilityCalls
      <3> QED
        BY <1>1, <2>2, <3>2
    <2> QED
      BY <2>1, <2>2, MintedMove
  <1>3. ASSUME NEW h \in Callers, NEW s \in SessionRows, NEW at \in Nat,
               call'[h].op = "capability", call'[h].audience # NoKey,
               call'[h].session = s, call'[h].at = at
        PROVE  Dated(s, at)'
    <2>1. CASE call'[h] = call[h]
      BY <1>1, <1>3, <2>1
    <2>2. CASE /\ CheckSession(h)
               /\ call'[h].session = call[h].session
               /\ call'[h].at = call[h].at
      <3>1. Dated(s, at)
        BY <1>3, <2>2, CheckDates
      <3>2. at <= now
        BY <1>3, <2>2, FreeHasNoOp DEF ClockInv, CheckSession
      <3> QED
        BY <3>1, <3>2, DatedKept
    <2> QED
      BY <1>3, <2>1, <2>2, CallEffect, FreeHasNoOp
  <1> QED
    BY <1>2, <1>3 DEF WindowInv

\* A capability dates from a moment of access, however late it is signed.
THEOREM CapabilitiesAreDated == Spec => []CapabilityWindow
  <1>1. WindowInv => CapabilityWindow
    BY DEF WindowInv, CapabilityWindow, Dated
  <1> QED
    BY <1>1, InitWindow, NextClock, NextWindow, RevocationEndsSessions, TypeCorrect,
       PTL DEF Spec
=============================================================================

------------------------------ MODULE Tunnels -------------------------------
(***************************************************************************)
(* How access becomes a capability: connection tickets (dst_), tunnel      *)
(* sessions (dss_), brokered service grants with their approved plans      *)
(* (dsp_), and the capability a session is exchanged for.  The tables      *)
(* connection_tickets and tunnel_sessions (devsite-server/src/db.rs) and   *)
(* the handlers at the end of devsite-server/src/api.rs, composed with the *)
(* machine credentials of Machines, whose revocation cascades into the     *)
(* sessions.                                                               *)
(*                                                                         *)
(* Concurrency.  A handler holds the database lock while it reads and      *)
(* writes.  Two work in steps: a broker is authenticated under one lock    *)
(* and plans or issues under another, with a clock read between the two; a *)
(* capability call reads the clock, then checks its session under the lock *)
(* and signs after it.  `call` holds the calls between their steps.  The   *)
(* calls about connection tickets read the clock just before their only    *)
(* lock: here under it.                                                    *)
(*                                                                         *)
(* Who may see a service is the result of Sharing: here the owner, the     *)
(* viewers with a share row, and the services whose visibility is shared.  *)
(* A service that is deleted and created again has a new id: it does not   *)
(* come back.  The links of a profile play no part here.                   *)
(***************************************************************************)
EXTENDS Machines

CONSTANTS
    Services,     \* ids of resources of kind service
    OwnerOf,      \* the account that owns each service
    Clients,      \* endpoint keys of connectors and requesters
    Tickets,      \* connection tickets (bound on how many are created)
    Requests,     \* agr_ ids; a requester chooses the id of its request
    Callers,      \* slots for calls between their two steps (bound)
    NoIssuer,     \* the issuer of a session that no broker issued
    TicketLife,   \* CONNECTION_TICKET_LIFETIME_SECS (120)
    SessionLife,  \* TUNNEL_SESSION_LIFETIME_SECS (28800)
    RequestLife,  \* SERVICE_GRANT_REQUEST_LIFETIME_SECS (600)
    GrantLife,    \* SERVICE_GRANT_MAX_LIFETIME_SECS (900)
    MaxGrants,    \* MAX_ACTIVE_BROKER_GRANTS (32)
    MaxSigned,    \* bound on how many requests are signed
    MaxMinted,    \* bound on how many capabilities are kept in `minted`
    MaxNow        \* bound on the clock

ASSUME TunnelsAssumption ==
    /\ OwnerOf \in [Services -> Accounts]
    /\ NoIssuer \notin Credentials
    /\ Tickets \cap Requests = {}
    /\ {TicketLife, SessionLife, RequestLife, GrantLife} \subseteq Nat \ {0}
    /\ MaxGrants \in Nat
    /\ MaxMinted \in Nat
    /\ MaxNow \in Nat

Pairs == Accounts \X Services

TicketRows ==
    [token : Tickets, viewer : Accounts, resource : Services, expires_at : Nat]

\* `origin` is the ticket that was redeemed, or the column grant_request_id.
SessionRows ==
    [viewer : Accounts, resource : Services, client : Clients, expires_at : Nat,
     issuer : Credentials \cup {NoIssuer}, origin : Tickets \cup Requests]

\* ServiceGrantRequestEnvelope, without the words that narrow down the target.
SignedRequests == [id : Requests, client : Clients, expires_at : Nat]

\* ServiceGrantPlanClaims.
PlanClaims ==
    [issuer : Credentials, request : SignedRequests, resource : Services,
     grant_expires_at : Nat]

\* What a broker's call and a capability call carry between their two steps.
BrokerCalls ==
    [op : {"broker"}, credential : Credentials, account : Accounts, at : Nat]

CapabilityCalls ==
    [op : {"capability"}, session : SessionRows,
     audience : Endpoints \cup {NoKey}, at : Nat]

VARIABLES
    now,
    alive,       \* services that exist
    shared,      \* services whose visibility is shared
    shares,      \* share rows, as pairs of a viewer and a service
    tickets,     \* table connection_tickets
    sessions,    \* table tunnel_sessions
    signed,      \* service grant requests signed with the key they name
    plans,       \* approved plans the control plane has signed
    call,        \* calls between their two steps
    minted,      \* history: capabilities signed, with the session behind each
    uses,        \* history: sessions bought with a ticket; 2 for several
    endedAt      \* history: when a pair or a credential last lost its access

policyVars == <<alive, shared, shares>>
tunnelVars == <<now, policyVars, tickets, sessions, signed, plans, call,
                minted, uses, endedAt>>
vars == <<machineVars, tunnelVars>>

Capabilities ==
    [session : SessionRows, audience : Endpoints, issued_at : Nat]

\* can_view, for a service.
Gate(p) ==
    /\ p[2] \in alive
    /\ \/ OwnerOf[p[2]] = p[1]
       \/ p[2] \in shared /\ p \in shares

\* accessible_services joins the share rows whatever the visibility.
Accessible(p) ==
    /\ p[2] \in alive
    /\ OwnerOf[p[2]] = p[1] \/ p \in shares

Init ==
    /\ MachineInit
    /\ now = 0
    /\ alive = Services
    /\ shared = {}
    /\ shares = {}
    /\ tickets = {}
    /\ sessions = {}
    /\ signed = {}
    /\ plans = {}
    /\ call = [h \in Callers |-> Free]
    /\ minted = {}
    /\ uses = [t \in Tickets |-> 0]
    /\ endedAt = [x \in Pairs \cup Credentials |-> 0]

-----------------------------------------------------------------------------
(* What happens to access, as far as tunnels can tell.                     *)

Ended ==
    [x \in Pairs \cup Credentials |->
        IF x \in Pairs /\ Gate(x) /\ ~Gate(x)' THEN now ELSE endedAt[x]]

AcceptShare(p) ==
    /\ p[2] \in alive
    /\ OwnerOf[p[2]] # p[1]
    /\ shares' = shares \cup {p}
    /\ UNCHANGED <<machineVars, now, alive, shared, tickets, sessions, signed,
                   plans, call, minted, uses, endedAt>>

\* A share is declined by its viewer or taken back by its owner.  No session
\* and no ticket goes with it.
DropShare(p) ==
    /\ p \in shares
    /\ shares' = shares \ {p}
    /\ UNCHANGED <<alive, shared>>
    /\ endedAt' = Ended
    /\ UNCHANGED <<machineVars, now, tickets, sessions, signed, plans, call,
                   minted, uses>>

\* The first transaction of create_resource.
SetVisibility(r) ==
    /\ r \in alive
    /\ shared' = IF r \in shared THEN shared \ {r} ELSE shared \cup {r}
    /\ UNCHANGED <<alive, shares>>
    /\ endedAt' = Ended
    /\ UNCHANGED <<machineVars, now, tickets, sessions, signed, plans, call,
                   minted, uses>>

\* Mutant: the tickets of a deleted service stay.
OthersThanButTickets(r, rows) ==
    {row \in rows : row.resource # r \/ row \in tickets}

OthersThan(r, rows) == {row \in rows : row.resource # r}

\* ON DELETE CASCADE from resources to shares, tickets and sessions.
DeleteService(r) ==
    /\ r \in alive
    /\ alive' = alive \ {r}
    /\ shares' = {p \in shares : p[2] # r}
    /\ UNCHANGED shared
    /\ tickets' = OthersThan(r, tickets)
    /\ sessions' = OthersThan(r, sessions)
    /\ endedAt' = Ended
    /\ UNCHANGED <<machineVars, now, signed, plans, call, minted, uses>>

-----------------------------------------------------------------------------
(* Machine credentials: deleting one deletes the sessions it issued.       *)

\* Mutant: no ON DELETE CASCADE on issuer_credential_id.
SessionsKeptOnRevoke(live) == sessions

\* ON DELETE CASCADE from machine_credentials to tunnel_sessions.
SessionsIssuedBy(live) ==
    {s \in sessions : s.issuer = NoIssuer \/ s.issuer \in live}

MachineStep ==
    /\ MachineNext
    /\ sessions' = SessionsIssuedBy({c \in Credentials :
                        credential'[c].status # "revoked"})
    /\ endedAt' = [x \in Pairs \cup Credentials |->
           IF /\ x \in Credentials
              /\ credential[x].status = "enrolled"
              /\ credential'[x].status = "revoked"
           THEN now
           ELSE endedAt[x]]
    /\ UNCHANGED <<now, policyVars, tickets, signed, plans, call, minted, uses>>

-----------------------------------------------------------------------------
(* Connection tickets.                                                     *)

Unexpired(rows, at) == {row \in rows : row.expires_at > at}

CreateConnectionTicket(t, p) ==
    /\ uses[t] = 0
    /\ \A row \in tickets : row.token # t
    /\ Gate(p)
    /\ tickets' = Unexpired(tickets, now) \cup
           {[token |-> t, viewer |-> p[1], resource |-> p[2],
             expires_at |-> now + TicketLife]}
    /\ UNCHANGED <<machineVars, now, policyVars, sessions, signed, plans, call,
                   minted, uses, endedAt>>

Used(t) ==
    [uses EXCEPT ![t] = IF @ = 0 THEN 1 ELSE 2]

\* Mutant: the ticket is read and not deleted.
RemainingTicketsAll(row) == tickets

\* DELETE ... RETURNING.
RemainingTickets(row) == tickets \ {row}

\* redeem_connection_ticket.  The ticket is gone even when its viewer has lost
\* access since it was created.
RedeemConnectionTicket(row, client) ==
    /\ row.expires_at > now
    /\ tickets' = RemainingTickets(row)
    /\ IF Gate(<<row.viewer, row.resource>>)
       THEN /\ sessions' = Unexpired(sessions, now) \cup
                   {[viewer |-> row.viewer, resource |-> row.resource,
                     client |-> client, expires_at |-> now + SessionLife,
                     issuer |-> NoIssuer, origin |-> row.token]}
            /\ uses' = Used(row.token)
       ELSE UNCHANGED <<sessions, uses>>
    /\ UNCHANGED <<machineVars, now, policyVars, signed, plans, call, minted,
                   endedAt>>

DeleteTunnelSession(s) ==
    /\ sessions' = sessions \ {s}
    /\ UNCHANGED <<machineVars, now, policyVars, tickets, signed, plans, call,
                   minted, uses, endedAt>>

-----------------------------------------------------------------------------
(* Brokered grants.                                                        *)

\* A requester signs a request, with the id and the expiry of its choice.
SignRequest(id, client, expires) ==
    /\ Cardinality(signed) < MaxSigned
    /\ signed' = signed \cup
           {[id |-> id, client |-> client, expires_at |-> expires]}
    /\ UNCHANGED <<machineVars, now, policyVars, tickets, sessions, plans, call,
                   minted, uses, endedAt>>

\* require_machine and require_service_grant_scope.
BrokerAuthenticated(h, c) ==
    /\ call[h] = Free
    /\ credential[c].status = "enrolled"
    /\ credential[c].broker
    /\ call' = [call EXCEPT ![h] =
           [op |-> "broker", credential |-> c,
            account |-> credential[c].account, at |-> now]]
    /\ UNCHANGED <<machineVars, now, policyVars, tickets, sessions, signed,
                   plans, minted, uses, endedAt>>

\* The clock is read after the first lock and before the second.
ClockRead(h) == call[h].at .. now

\* validate_service_grant, at the time that was read.
ValidGrant(account, q, r, expires, at) ==
    /\ q.expires_at > at
    /\ q.expires_at <= at + RequestLife
    /\ expires > at
    /\ expires <= at + GrantLife
    /\ Accessible(<<account, r>>)

Plan(c, q, r, expires) ==
    [issuer |-> c, request |-> q, resource |-> r, grant_expires_at |-> expires]

\* plan_service_grant signs a plan and stores nothing.
PlanServiceGrant(h, q, r, expires) ==
    /\ call[h].op = "broker"
    /\ \E at \in ClockRead(h) : ValidGrant(call[h].account, q, r, expires, at)
    /\ plans' = plans \cup {Plan(call[h].credential, q, r, expires)}
    /\ call' = [call EXCEPT ![h] = Free]
    /\ UNCHANGED <<machineVars, now, policyVars, tickets, sessions, signed,
                   minted, uses, endedAt>>

ActiveGrants(c, at) == {s \in Unexpired(sessions, at) : s.issuer = c}

\* The limit is counted under the lock of the insertion.
BelowGrantLimit(c, at) == Cardinality(ActiveGrants(c, at)) < MaxGrants

\* Mutant: the plan has to be for a request of the same id.
ApprovedRequest(plan) == \E p \in plans : p.request.id = plan.request.id

\* The plan token handed in is signed by the control plane for this very grant.
Approved(plan) == plan \in plans

\* Mutant: the table has no unique index on grant_request_id.
InsertableAnyRequest(s, at) == credential[s.issuer].status # "revoked"

\* INSERT OR IGNORE after the purge: the request id must not be in the table,
\* and the foreign key still needs the issuing credential.
Insertable(s, at) ==
    /\ credential[s.issuer].status # "revoked"
    /\ \A other \in Unexpired(sessions, at) : other.origin # s.origin

\* issue_service_grant, under its second lock.  When the row cannot be inserted
\* the purge of expired sessions has happened all the same.
IssueServiceGrant(h, q, r, expires) ==
    LET c == call[h].credential
        s == [viewer |-> call[h].account, resource |-> r,
              client |-> q.client, expires_at |-> expires,
              issuer |-> c, origin |-> q.id]
    IN  /\ call[h].op = "broker"
        /\ Approved(Plan(c, q, r, expires))
        /\ \E at \in ClockRead(h) :
             /\ ValidGrant(call[h].account, q, r, expires, at)
             /\ BelowGrantLimit(c, at)
             /\ sessions' = Unexpired(sessions, at) \cup
                               (IF Insertable(s, at) THEN {s} ELSE {})
        /\ call' = [call EXCEPT ![h] = Free]
        /\ UNCHANGED <<machineVars, now, policyVars, tickets, signed, plans,
                       minted, uses, endedAt>>

-----------------------------------------------------------------------------
(* Capabilities.                                                           *)

\* tunnel_capability, up to its lock: the clock is read.
StartCapability(h, s) ==
    /\ call[h] = Free
    /\ call' = [call EXCEPT ![h] =
           [op |-> "capability", session |-> s, audience |-> NoKey, at |-> now]]
    /\ UNCHANGED <<machineVars, now, policyVars, tickets, sessions, signed,
                   plans, minted, uses, endedAt>>

\* Under its lock: session, gate and audience are read.
CheckSession(h) ==
    LET s == call[h].session IN
    /\ call[h].op = "capability"
    /\ call[h].audience = NoKey
    /\ s \in Unexpired(sessions, call[h].at)
    /\ Gate(<<s.viewer, s.resource>>)
    /\ daemons[OwnerOf[s.resource]] # NoKey
    /\ call' = [call EXCEPT ![h].audience = daemons[OwnerOf[s.resource]]]
    /\ UNCHANGED <<machineVars, now, policyVars, tickets, sessions, signed,
                   plans, minted, uses, endedAt>>

\* Mutant: the capability is dated when it is signed.
IssueTimeLate(pending) == now

\* The clock that was read before the lock.
IssueTime(pending) == pending.at

\* Issuer::issue, after the lock.
SignCapability(h) ==
    /\ call[h].op = "capability"
    /\ call[h].audience # NoKey
    /\ Cardinality(minted) < MaxMinted
    /\ minted' = minted \cup
           {[session |-> call[h].session, audience |-> call[h].audience,
             issued_at |-> IssueTime(call[h])]}
    /\ call' = [call EXCEPT ![h] = Free]
    /\ UNCHANGED <<machineVars, now, policyVars, tickets, sessions, signed,
                   plans, uses, endedAt>>

\* The call is refused (over its rate, or a check above failed) or cut short.
EndCall(h) ==
    /\ call[h] # Free
    /\ call' = [call EXCEPT ![h] = Free]
    /\ UNCHANGED <<machineVars, now, policyVars, tickets, sessions, signed,
                   plans, minted, uses, endedAt>>

Tick ==
    /\ now < MaxNow
    /\ now' = now + 1
    /\ UNCHANGED <<machineVars, policyVars, tickets, sessions, signed, plans,
                   call, minted, uses, endedAt>>

\* Bound: no request or grant is asked for beyond the end of the clock.
Expiries == 1 .. MaxNow

Next ==
    \/ \E p \in Pairs : AcceptShare(p) \/ DropShare(p)
    \/ \E r \in Services : SetVisibility(r) \/ DeleteService(r)
    \/ MachineStep
    \/ \E t \in Tickets, p \in Pairs : CreateConnectionTicket(t, p)
    \/ \E row \in tickets, client \in Clients : RedeemConnectionTicket(row, client)
    \/ \E s \in sessions : DeleteTunnelSession(s)
    \/ \E id \in Requests, client \in Clients, expires \in Expiries :
           SignRequest(id, client, expires)
    \/ \E h \in Callers :
           \/ \E c \in Credentials : BrokerAuthenticated(h, c)
           \/ \E q \in signed, r \in Services, expires \in Expiries :
                  \/ PlanServiceGrant(h, q, r, expires)
                  \/ IssueServiceGrant(h, q, r, expires)
           \/ \E s \in sessions : StartCapability(h, s)
           \/ CheckSession(h)
           \/ SignCapability(h)
           \/ EndCall(h)
    \/ Tick

Spec == Init /\ [][Next]_vars

-----------------------------------------------------------------------------
(* Properties.                                                             *)

\* Every variable keeps its type, and a row refers to a service that exists.
TypeOK ==
    /\ MachineTypeOK
    /\ now \in Nat
    /\ alive \in SUBSET Services
    /\ shared \in SUBSET Services
    /\ shares \in SUBSET (Accounts \X alive)
    /\ tickets \in SUBSET {row \in TicketRows : row.resource \in alive}
    /\ sessions \in SUBSET {row \in SessionRows : row.resource \in alive}
    /\ signed \in SUBSET SignedRequests
    /\ plans \in SUBSET PlanClaims
    /\ call \in [Callers -> BrokerCalls \cup CapabilityCalls \cup {Free}]
    /\ minted \in SUBSET Capabilities
    /\ uses \in [Tickets -> 0 .. 2]
    /\ endedAt \in [Pairs \cup Credentials -> Nat]

\* A connection ticket buys one session, whoever redeems it and whenever.
TicketBuysOneSession ==
    \A t \in Tickets : uses[t] <= 1

\* A revoked credential has no sessions, those included that a call which was
\* authenticated before the revocation tries to issue after it.
RevokedIssuerHasNoSessions ==
    \A s \in sessions :
        s.issuer # NoIssuer => credential[s.issuer].status = "enrolled"

\* docs/access-broker.md:84 "A one-use transport capability already minted
\* immediately before revocation remains limited by its own short expiry": a
\* capability dates from a moment when its viewer had access and the broker
\* behind its session was not revoked, however late it is signed.
CapabilityWindow ==
    \A m \in minted :
        LET s == m.session
            p == <<s.viewer, s.resource>>
        IN  /\ m.issued_at < s.expires_at
            /\ Gate(p) \/ m.issued_at <= endedAt[p]
            /\ \/ s.issuer = NoIssuer
               \/ credential[s.issuer].status = "enrolled"
               \/ m.issued_at <= endedAt[s.issuer]

\* A brokered session is for the service, the key, the expiry and the broker of
\* a plan the control plane signed: nothing of the request, nor the target, can
\* be swapped after the approval.  It ends within the longest grant of the
\* moment the request expires.
GrantAsApproved ==
    \A s \in sessions :
        s.origin \in Requests =>
            \E q \in signed :
                /\ q.id = s.origin
                /\ q.client = s.client
                /\ s.expires_at < q.expires_at + GrantLife
                /\ Plan(s.issuer, q, s.resource, s.expires_at) \in plans

\* docs/tickets.md:73 "Applying it creates at most one dss_ ticket for its
\* request id": at no time do two sessions stem from one request or one ticket,
\* even when several signed requests carry the same id.  One after the other
\* they may: the id is free again when its session is deleted or has expired.
OneSessionPerOrigin ==
    \A s, t \in sessions : s.origin = t.origin => s = t
=============================================================================

---------------------------- MODULE Sharing_proof ---------------------------
(***************************************************************************)
(* Proofs about Sharing, for any sets of resources, viewers and            *)
(* destinations.                                                           *)
(***************************************************************************)
EXTENDS Sharing, TLAPS

\* A name and a viewer make a recipient, and a recipient is such a pair.
LEMMA RecipientParts ==
    ASSUME NEW p \in Recipients
    PROVE  p[1] \in Names /\ p[2] \in Viewers /\ p = <<p[1], p[2]>>
  BY DEF Recipients

LEMMA PlanType ==
    ASSUME NEW n, NEW url, NEW viewers \in SUBSET Viewers
    PROVE  Plan(n, url, viewers) \in Plans
  BY DEF Plan, Plans

LEMMA StatusType ==
    ASSUME TypeOK, NEW p \in Recipients
    PROVE  Status(p) \in Statuses
  BY DEF TypeOK, Status, Statuses

-----------------------------------------------------------------------------
(* Type correctness.                                                       *)

\* The handler between its two transactions holds the lock, so the resource
\* its first transaction wrote is still there for the second one.
RequestExists == request # NoRequest => Exists(request.name)

LEMMA InitType == Init => TypeOK /\ RequestExists
  BY SharingNulls DEF Init, TypeOK, Status, Exists, RequestExists

LEMMA NextRequest == TypeOK /\ RequestExists /\ [Next]_vars => RequestExists'
  <1> SUFFICES ASSUME TypeOK, RequestExists, [Next]_vars PROVE RequestExists'
    OBVIOUS
  <1>1. ASSUME NEW n \in Names, NEW visibility \in Visibilities,
               NEW url \in Urls \cup {NoUrl}, NEW viewers \in SUBSET Viewers,
               CreateResource(n, visibility, url, viewers)
        PROVE  RequestExists'
    <2>1. [visibility |-> visibility, url |-> url] # Absent
      BY SharingNulls DEF Resources
    <2>2. request'.name = n /\ resource'[n] # Absent
      BY <1>1, <2>1 DEF CreateResource, Upsert, TypeOK
    <2> QED
      BY <2>2 DEF RequestExists, Exists
  <1>2. CASE FinishCreate \/ InterruptCreate
    BY <1>2 DEF FinishCreate, InterruptCreate, RequestExists
  <1>3. ASSUME request = NoRequest, UNCHANGED request PROVE RequestExists'
    BY <1>3 DEF RequestExists
  <1>4. ASSUME NEW n \in Names, NEW viewers \in SUBSET Viewers,
               SetResourceShares(n, viewers)
        PROVE  RequestExists'
    BY <1>4, <1>3 DEF SetResourceShares
  <1>5. ASSUME NEW n \in Names, DeleteResource(n) PROVE RequestExists'
    BY <1>5, <1>3 DEF DeleteResource
  <1>6. ASSUME NEW v \in Viewers, ListInvitations(v) PROVE RequestExists'
    BY <1>6, <1>3 DEF ListInvitations
  <1>7. ASSUME NEW p \in Recipients, AcceptShare(p) \/ DeclineShare(p)
        PROVE  RequestExists'
    BY <1>7, <1>3 DEF AcceptShare, DeclineShare
  <1>8. CASE UNCHANGED vars
    BY <1>8 DEF vars, RequestExists, Exists
  <1> QED
    BY <1>1, <1>2, <1>4, <1>5, <1>6, <1>7, <1>8 DEF Next

LEMMA NextType == TypeOK /\ RequestExists /\ [Next]_vars => TypeOK'
  <1> SUFFICES ASSUME TypeOK, RequestExists, [Next]_vars PROVE TypeOK'
    OBVIOUS
  <1>1. ASSUME NEW n \in Names, NEW visibility \in Visibilities,
               NEW url \in Urls \cup {NoUrl}, NEW viewers \in SUBSET Viewers,
               CreateResource(n, visibility, url, viewers)
        PROVE  TypeOK'
    <2> DEFINE r == [visibility |-> visibility, url |-> url]
    <2>1. r \in Resources /\ r # Absent
      BY SharingNulls DEF Resources
    <2>2. /\ resource' = [resource EXCEPT ![n] = r]
          /\ resource' \in [Names -> Resources \cup {Absent}]
      BY <1>1, <2>1 DEF CreateResource, Upsert, TypeOK
    <2>3. request' \in Requests
      <3>1. [v \in Viewers |-> Status(<<n, v>>)] \in [Viewers -> Statuses]
        BY StatusType DEF Recipients
      <3> QED
        BY <1>1, <3>1, PlanType DEF CreateResource, Requests
    <2>4. shares' \in SUBSET Recipients /\ shares' \subseteq shares
      BY <1>1 DEF CreateResource, Upsert, TypeOK
    <2>5. /\ invitation' \in [Recipients -> {"none", "pending", "declined"}]
          /\ \A p \in Recipients : invitation[p] = "none" /\ invitation'[p] # "none"
               => p[1] = n
      BY <1>1 DEF CreateResource, Upsert, TypeOK
    <2>6. ASSUME NEW m \in Names, Exists(m)'
          PROVE  IF m \in LinkNames
                 THEN resource'[m].url \in Urls
                 ELSE resource'[m].url = NoUrl /\ resource'[m].visibility # "public"
      <3>1. CASE m = n
        BY <1>1, <2>2, <3>1 DEF CreateResource, Acceptable, AllowedVisibility,
                                  TypeOK
      <3>2. CASE m # n
        BY <2>2, <2>6, <3>2 DEF TypeOK, Exists
      <3> QED
        BY <3>1, <3>2
    <2>7. \A p \in Recipients : Status(p)' # "none" => Exists(p[1])'
      BY <2>1, <2>2, <2>4, <2>5, RecipientParts DEF TypeOK, Status, Exists
    <2> QED
      BY <1>1, <2>2, <2>3, <2>4, <2>5, <2>6, <2>7 DEF CreateResource, TypeOK
  <1>2. ASSUME NEW n \in Names, NEW viewers \in SUBSET Viewers, Exists(n),
               SetShares(n, viewers), UNCHANGED resource
        PROVE  /\ shares' \in SUBSET Recipients
               /\ invitation' \in [Recipients -> {"none", "pending", "declined"}]
               /\ \A p \in Recipients : Status(p)' # "none" => Exists(p[1])'
    <2>1. /\ shares' \subseteq shares
          /\ invitation' \in [Recipients -> {"none", "pending", "declined"}]
          /\ \A p \in Recipients :
               invitation[p] = "none" /\ invitation'[p] # "none" => p[1] = n
      BY <1>2 DEF SetShares, TypeOK
    <2>2. ASSUME NEW p \in Recipients, Status(p)' # "none"
          PROVE  Exists(p[1])'
      <3>1. CASE Status(p) # "none"
        BY <1>2, <3>1 DEF TypeOK, Exists
      <3>2. CASE Status(p) = "none"
        <4>1. p \notin shares /\ invitation[p] = "none"
          BY <3>2 DEF Status
        <4>2. p[1] = n
          BY <2>1, <2>2, <4>1 DEF Status
        <4> QED
          BY <1>2, <4>2 DEF Exists
      <3> QED
        BY <3>1, <3>2
    <2> QED
      BY <2>1, <2>2 DEF TypeOK
  <1>3. CASE FinishCreate
    <2>1. /\ request \in Requests
          /\ request.name \in Names /\ request.viewers \in SUBSET Viewers
      BY <1>3 DEF FinishCreate, TypeOK, Requests
    <2>2. Exists(request.name)
      BY <1>3 DEF FinishCreate, RequestExists
    <2> QED
      BY <1>3, <1>2, <2>1, <2>2 DEF FinishCreate, TypeOK, Exists
  <1>4. CASE InterruptCreate
    <2>1. request.name \in Names
      BY <1>4 DEF InterruptCreate, TypeOK, Requests
    <2> QED
      BY <1>4, <2>1 DEF InterruptCreate, TypeOK, Exists, Status
  <1>5. ASSUME NEW n \in Names, NEW viewers \in SUBSET Viewers,
               SetResourceShares(n, viewers)
        PROVE  TypeOK'
    BY <1>5, <1>2 DEF SetResourceShares, TypeOK, Exists
  <1>6. ASSUME NEW n \in Names, DeleteResource(n) PROVE TypeOK'
    BY <1>6 DEF DeleteResource, TypeOK, Exists, Status
  <1>7. ASSUME NEW v \in Viewers, ListInvitations(v) PROVE TypeOK'
    <2>1. \A p \in Recipients : Exists(p[1]) => resource[p[1]].url \in Urls \cup {NoUrl}
      BY RecipientParts DEF TypeOK
    <2> QED
      BY <1>7, <2>1 DEF ListInvitations, TypeOK, Exists, Status
  <1>8. ASSUME NEW p \in Recipients, AcceptShare(p) PROVE TypeOK'
    <2>1. Exists(p[1]) /\ p[1] \in Names
      BY <1>8, RecipientParts DEF AcceptShare, TypeOK, Status
    <2>2. resource[p[1]].url \in Urls \cup {NoUrl}
      BY <2>1 DEF TypeOK
    <2>3. InvitationsAfterAccept(p) \in [Recipients -> {"none", "pending", "declined"}]
      BY DEF InvitationsAfterAccept, TypeOK
    <2> QED
      BY <1>8, <2>1, <2>2, <2>3
      DEF AcceptShare, TypeOK, Exists, Status, InvitationsAfterAccept
  <1>9. ASSUME NEW p \in Recipients, DeclineShare(p) PROVE TypeOK'
    <2>1. Exists(p[1])
      BY <1>9 DEF DeclineShare, TypeOK, Status
    <2> QED
      BY <1>9, <2>1 DEF DeclineShare, TypeOK, Exists, Status
  <1>10. CASE UNCHANGED vars
    BY <1>10 DEF vars, TypeOK, Exists, Status
  <1> QED
    BY <1>1, <1>3, <1>4, <1>5, <1>6, <1>7, <1>8, <1>9, <1>10 DEF Next

\* The tables always hold what the schema and the handlers' checks promise.
THEOREM TypeCorrect == Spec => []TypeOK
  BY InitType, NextType, NextRequest, PTL DEF Spec

\* The same, with the strengthening the later proofs need.
THEOREM TypedRequests == Spec => [](TypeOK /\ RequestExists)
  BY InitType, NextType, NextRequest, PTL DEF Spec

-----------------------------------------------------------------------------
(* One standing per recipient.                                             *)

LEMMA NextDecision == TypeOK /\ OneDecision /\ [Next]_vars => OneDecision'
  <1> SUFFICES ASSUME TypeOK, OneDecision, [Next]_vars PROVE OneDecision'
    OBVIOUS
  <1>1. ASSUME NEW n \in Names, NEW visibility \in Visibilities,
               NEW url \in Urls \cup {NoUrl}, NEW viewers \in SUBSET Viewers,
               CreateResource(n, visibility, url, viewers)
        PROVE  OneDecision'
    BY <1>1 DEF CreateResource, Upsert, OneDecision, TypeOK
  <1>2. ASSUME NEW n \in Names, NEW viewers \in SUBSET Viewers,
               SetShares(n, viewers)
        PROVE  OneDecision'
    BY <1>2 DEF SetShares, OneDecision, TypeOK
  <1>3. CASE FinishCreate
    <2>1. request.name \in Names /\ request.viewers \in SUBSET Viewers
      BY <1>3 DEF FinishCreate, TypeOK, Requests
    <2> QED
      BY <1>2, <1>3, <2>1 DEF FinishCreate
  <1>4. ASSUME UNCHANGED <<shares, invitation>> PROVE OneDecision'
    BY <1>4 DEF OneDecision
  <1>5. ASSUME NEW n \in Names, NEW viewers \in SUBSET Viewers,
               SetResourceShares(n, viewers)
        PROVE  OneDecision'
    BY <1>2, <1>5 DEF SetResourceShares
  <1>6. ASSUME NEW n \in Names, DeleteResource(n) PROVE OneDecision'
    BY <1>6 DEF DeleteResource, OneDecision, TypeOK
  <1>7. ASSUME NEW p \in Recipients, AcceptShare(p) \/ DeclineShare(p)
        PROVE  OneDecision'
    BY <1>7 DEF AcceptShare, DeclineShare, InvitationsAfterAccept, OneDecision, TypeOK
  <1>8. CASE InterruptCreate \/ (\E v \in Viewers : ListInvitations(v)) \/ UNCHANGED vars
    BY <1>8, <1>4 DEF InterruptCreate, ListInvitations, vars
  <1> QED
    BY <1>1, <1>3, <1>5, <1>6, <1>7, <1>8 DEF Next

\* No recipient ever holds a grant and an invitation to the same resource.
THEOREM OneStanding == Spec => []OneDecision
  <1>1. Init => OneDecision
    BY DEF Init, OneDecision
  <1> QED
    BY <1>1, NextDecision, TypeCorrect, PTL DEF Spec

-----------------------------------------------------------------------------
(* A grant was accepted for the destination the resource has now.          *)

LEMMA NextApproval ==
    TypeOK /\ ApprovalIsCurrent /\ [Next]_vars => ApprovalIsCurrent'
  <1> SUFFICES ASSUME TypeOK, ApprovalIsCurrent, [Next]_vars
               PROVE  ApprovalIsCurrent'
    OBVIOUS
  <1>1. ASSUME NEW n \in Names, NEW visibility \in Visibilities,
               NEW url \in Urls \cup {NoUrl}, NEW viewers \in SUBSET Viewers,
               CreateResource(n, visibility, url, viewers)
        PROVE  ApprovalIsCurrent'
    <2> DEFINE r == [visibility |-> visibility, url |-> url]
    <2>1. r # Absent /\ r.url = url
      BY SharingNulls DEF Resources
    <2>2. /\ resource' = [resource EXCEPT ![n] = r]
          /\ shares' \subseteq shares
          /\ \A p \in shares' : p[1] = n => ~Moved(n, url)
          /\ approved' = approved
      BY <1>1 DEF CreateResource, Upsert
    <2>3. ASSUME NEW p \in shares'
          PROVE  Exists(p[1])' /\ approved'[p] = resource'[p[1]].url
      <3>1. p \in shares /\ p[1] \in Names
        BY <2>2, <2>3, RecipientParts DEF TypeOK
      <3>2. CASE p[1] = n
        <4>1. resource[n].url = url
          BY <2>2, <2>3, <3>1, <3>2 DEF Moved, ApprovalIsCurrent
        <4> QED
          BY <2>1, <2>2, <3>1, <3>2, <4>1 DEF ApprovalIsCurrent, Exists, TypeOK
      <3>3. CASE p[1] # n
        BY <2>2, <3>1, <3>3 DEF ApprovalIsCurrent, Exists, TypeOK
      <3> QED
        BY <3>2, <3>3
    <2> QED
      BY <2>3 DEF ApprovalIsCurrent
  <1>2. ASSUME shares' \subseteq shares, UNCHANGED <<resource, approved>>
        PROVE  ApprovalIsCurrent'
    BY <1>2 DEF ApprovalIsCurrent, Exists
  <1>3. CASE FinishCreate \/ InterruptCreate
    BY <1>2, <1>3 DEF FinishCreate, InterruptCreate, SetShares
  <1>4. ASSUME NEW n \in Names, NEW viewers \in SUBSET Viewers,
               SetResourceShares(n, viewers)
        PROVE  ApprovalIsCurrent'
    BY <1>2, <1>4 DEF SetResourceShares, SetShares
  <1>5. ASSUME NEW n \in Names, DeleteResource(n) PROVE ApprovalIsCurrent'
    BY <1>5 DEF DeleteResource, ApprovalIsCurrent, Exists, TypeOK
  <1>6. ASSUME NEW p \in Recipients, AcceptShare(p) PROVE ApprovalIsCurrent'
    <2>1. Exists(p[1])
      BY <1>6 DEF AcceptShare, TypeOK, Status
    <2> QED
      BY <1>6, <2>1 DEF AcceptShare, ApprovalIsCurrent, Exists, TypeOK
  <1>7. ASSUME NEW p \in Recipients, DeclineShare(p) PROVE ApprovalIsCurrent'
    BY <1>2, <1>7 DEF DeclineShare
  <1>8. CASE (\E v \in Viewers : ListInvitations(v)) \/ UNCHANGED vars
    BY <1>2, <1>8 DEF ListInvitations, vars
  <1> QED
    BY <1>1, <1>3, <1>4, <1>5, <1>6, <1>7, <1>8 DEF Next

\* An owner cannot swap the destination of a link underneath a grant.
THEOREM ApprovalHolds == Spec => []ApprovalIsCurrent
  <1>1. Init => ApprovalIsCurrent
    BY DEF Init, ApprovalIsCurrent
  <1> QED
    BY <1>1, NextApproval, TypeCorrect, PTL DEF Spec

-----------------------------------------------------------------------------
(* The daemon's snapshot and the capability gate agree: both follow from   *)
(* the typed tables alone, because a service is never public.              *)

LEMMA SnapshotFollows == TypeOK => SnapshotMatchesGate
  <1> SUFFICES ASSUME TypeOK PROVE SnapshotMatchesGate
    OBVIOUS
  <1>1. \A n \in Services : n \in Names /\ resource[n].visibility # "public"
    BY DEF TypeOK, Services
  <1>2. \A n \in Services, v \in Viewers :
          CanView(v, n) <=> <<n, v>> \in shares /\ resource[n].visibility = "shared"
    BY <1>1, SharingAssumption DEF CanView
  <1>3. \A n \in Services : CanView(Owner, n)
    BY DEF CanView
  <1>4. ASSUME NEW a \in ServiceAuthorizations
        PROVE  a \in (Viewers \cup {Owner}) \X Services /\ CanView(a[1], a[2])
    BY <1>2, <1>3 DEF ServiceAuthorizations
  <1>5. ASSUME NEW v \in Viewers \cup {Owner}, NEW n \in Services, CanView(v, n)
        PROVE  <<v, n>> \in ServiceAuthorizations
    BY <1>2, <1>5 DEF ServiceAuthorizations
  <1> QED
    BY <1>4, <1>5 DEF SnapshotMatchesGate

\* The daemon cancels exactly the streams whose viewer the gate would refuse.
THEOREM SnapshotAgrees == Spec => []SnapshotMatchesGate
  BY SnapshotFollows, TypeCorrect, PTL

-----------------------------------------------------------------------------
(* A resource that is not shared has no rows.  The property speaks of the  *)
(* moments between handlers; in the middle of create_resource the rows of  *)
(* the resource it works on are exempt, and it holds recipients for the    *)
(* second transaction only if the first one made the resource shared.      *)

Settled(n) == n \notin interrupted /\ (request # NoRequest => n # request.name)

RowsInv ==
    \A p \in Recipients :
        Status(p) # "none" /\ Settled(p[1]) => resource[p[1]].visibility = "shared"

ViewersInv ==
    request # NoRequest /\ request.viewers # {} =>
        resource[request.name].visibility = "shared"

LEMMA NextRows ==
    ASSUME TypeOK, RequestExists, RowsInv, ViewersInv, [Next]_vars
    PROVE  RowsInv' /\ ViewersInv'
  <1>1. ASSUME NEW n \in Names, NEW visibility \in Visibilities,
               NEW url \in Urls \cup {NoUrl}, NEW viewers \in SUBSET Viewers,
               CreateResource(n, visibility, url, viewers)
        PROVE  RowsInv' /\ ViewersInv'
    <2> DEFINE r == [visibility |-> visibility, url |-> url]
    <2>1. /\ request = NoRequest /\ request' # NoRequest
          /\ request'.name = n /\ request'.viewers = viewers
          /\ viewers # {} => visibility = "shared"
          /\ UNCHANGED interrupted
      <3>1. [v \in Viewers |-> Status(<<n, v>>)] \in [Viewers -> Statuses]
        BY StatusType DEF Recipients
      <3>2. request' \in Requests
        BY <1>1, <3>1, PlanType DEF CreateResource, Requests
      <3> QED
        BY <1>1, <3>2, SharingNulls DEF CreateResource, Acceptable
    <2>2. resource' = [resource EXCEPT ![n] = r] /\ r.visibility = visibility
      BY <1>1 DEF CreateResource, Upsert
    <2>3. ViewersInv'
      BY <2>1, <2>2 DEF ViewersInv, TypeOK
    <2>4. ASSUME NEW p \in Recipients, Status(p)' # "none", Settled(p[1])'
          PROVE  resource'[p[1]].visibility = "shared"
      <3>1. p[1] # n /\ p[1] \in Names
        BY <2>1, <2>4, RecipientParts DEF Settled
      <3>2. Settled(p[1])
        BY <2>1, <2>4 DEF Settled
      <3>3. Status(p) # "none"
        BY <1>1, <2>4, <3>1 DEF CreateResource, Upsert, Status, TypeOK
      <3> QED
        BY <2>2, <3>1, <3>2, <3>3 DEF RowsInv, TypeOK
    <2> QED
      BY <2>3, <2>4 DEF RowsInv
  <1>2. ASSUME NEW n \in Names, NEW viewers \in SUBSET Viewers,
               SetShares(n, viewers), UNCHANGED resource, request' = NoRequest,
               interrupted' = interrupted \ {n},
               request # NoRequest => request.name = n,
               viewers # {} => resource[n].visibility = "shared"
        PROVE  RowsInv' /\ ViewersInv'
    <2>1. ASSUME NEW p \in Recipients, Status(p)' # "none", Settled(p[1])'
          PROVE  resource'[p[1]].visibility = "shared"
      <3>1. CASE p[1] = n
        <4>1. p[2] \in viewers
          BY <1>2, <2>1, <3>1 DEF SetShares, Status, TypeOK
        <4> QED
          BY <1>2, <3>1, <4>1
      <3>2. CASE p[1] # n
        <4>1. Settled(p[1])
          BY <1>2, <2>1, <3>2 DEF Settled
        <4>2. Status(p) # "none"
          BY <1>2, <2>1, <3>2 DEF SetShares, Status, TypeOK
        <4> QED
          BY <1>2, <4>1, <4>2 DEF RowsInv
      <3> QED
        BY <3>1, <3>2
    <2> QED
      BY <1>2, <2>1 DEF RowsInv, ViewersInv
  <1>3. CASE FinishCreate
    <2>1. /\ request.name \in Names /\ request.viewers \in SUBSET Viewers
          /\ request # NoRequest
      BY <1>3 DEF FinishCreate, TypeOK, Requests
    <2> QED
      BY <1>2, <1>3, <2>1 DEF FinishCreate, ViewersInv
  <1>4. CASE InterruptCreate
    <2>1. \A n \in Names : Settled(n)' => Settled(n)
      BY <1>4 DEF InterruptCreate, Settled
    <2>2. \A p \in Recipients : Status(p)' = Status(p)
      BY <1>4 DEF InterruptCreate, Status
    <2> QED
      BY <1>4, <2>1, <2>2, RecipientParts DEF InterruptCreate, RowsInv, ViewersInv
  <1>5. ASSUME NEW n \in Names, NEW viewers \in SUBSET Viewers,
               SetResourceShares(n, viewers)
        PROVE  RowsInv' /\ ViewersInv'
    BY <1>2, <1>5 DEF SetResourceShares
  <1>6. ASSUME NEW n \in Names, DeleteResource(n) PROVE RowsInv' /\ ViewersInv'
    <2>1. ASSUME NEW p \in Recipients, Status(p)' # "none", Settled(p[1])'
          PROVE  resource'[p[1]].visibility = "shared"
      <3>1. p[1] # n /\ p[1] \in Names
        BY <1>6, <2>1, RecipientParts DEF DeleteResource, Status, TypeOK
      <3>2. Settled(p[1])
        BY <1>6, <2>1, <3>1 DEF DeleteResource, Settled
      <3>3. Status(p) # "none"
        BY <1>6, <2>1, <3>1 DEF DeleteResource, Status, TypeOK
      <3> QED
        BY <1>6, <3>1, <3>2, <3>3 DEF DeleteResource, RowsInv, TypeOK
    <2> QED
      BY <1>6, <2>1 DEF DeleteResource, RowsInv, ViewersInv
  <1>7. ASSUME NEW p \in Recipients, AcceptShare(p) \/ DeclineShare(p)
        PROVE  RowsInv' /\ ViewersInv'
    <2>1. /\ request = NoRequest
          /\ UNCHANGED <<resource, request, interrupted>>
      BY <1>7 DEF AcceptShare, DeclineShare
    <2>2. \A q \in Recipients : Status(q)' # "none" => Status(q) # "none"
      BY <1>7 DEF AcceptShare, DeclineShare, InvitationsAfterAccept, Status, TypeOK
    <2> QED
      BY <2>1, <2>2 DEF RowsInv, ViewersInv, Settled
  <1>8. CASE (\E v \in Viewers : ListInvitations(v)) \/ UNCHANGED vars
    <2>1. UNCHANGED <<resource, shares, invitation, request, interrupted>>
      BY <1>8 DEF ListInvitations, vars
    <2> QED
      BY <2>1 DEF RowsInv, ViewersInv, Settled, Status
  <1> QED
    BY <1>1, <1>3, <1>4, <1>5, <1>6, <1>7, <1>8 DEF Next

\* Demoting a resource revokes everyone, unless its create_resource was cut
\* short between the two transactions.
THEOREM DemotionRevokes == Spec => []RowsOnlyWhileShared
  <1>1. Init => RowsInv /\ ViewersInv
    BY DEF Init, RowsInv, ViewersInv, Status
  <1>2. TypeOK /\ RowsInv => RowsOnlyWhileShared
    BY DEF TypeOK, RowsInv, RowsOnlyWhileShared, Settled
  <1> QED
    BY <1>1, <1>2, NextRows, TypedRequests, PTL DEF Spec

-----------------------------------------------------------------------------
(* A decline is final.  Every step but the second transaction, the removal *)
(* of the resource and the answer of the viewer leaves the row of someone  *)
(* who declined, and nobody who declined holds a grant.                    *)

LEMMA DeclinesStay ==
    ASSUME TypeOK, OneDecision, [Next]_vars, NEW p \in Recipients,
           invitation[p] = "declined"
    PROVE  Status(p)' = "declined" \/ Status(p)' = "none"
  <1> DEFINE Kept == Status(p)' = "declined" \/ Status(p)' = "none"
  <1>1. p \notin shares
    BY DEF OneDecision
  <1>2. ASSUME shares' \subseteq shares, invitation'[p] \in {"declined", "none"}
        PROVE  Kept
    BY <1>1, <1>2 DEF Status
  <1>3. ASSUME NEW n \in Names, NEW visibility \in Visibilities,
               NEW url \in Urls \cup {NoUrl}, NEW viewers \in SUBSET Viewers,
               CreateResource(n, visibility, url, viewers)
        PROVE  Kept
    BY <1>2, <1>3 DEF CreateResource, Upsert
  <1>4. ASSUME NEW n, NEW viewers, SetShares(n, viewers) PROVE Kept
    BY <1>2, <1>4 DEF SetShares
  <1>5. CASE FinishCreate
    BY <1>4, <1>5 DEF FinishCreate
  <1>6. ASSUME NEW n \in Names, NEW viewers \in SUBSET Viewers,
               SetResourceShares(n, viewers)
        PROVE  Kept
    BY <1>4, <1>6 DEF SetResourceShares
  <1>7. ASSUME NEW n \in Names, DeleteResource(n) PROVE Kept
    BY <1>2, <1>7 DEF DeleteResource
  <1>8. ASSUME NEW q \in Recipients, AcceptShare(q) PROVE Kept
    <2>1. q # p
      BY <1>8 DEF AcceptShare
    <2> QED
      BY <1>1, <1>8, <2>1 DEF AcceptShare, InvitationsAfterAccept, Status, TypeOK
  <1>9. ASSUME NEW q \in Recipients, DeclineShare(q) PROVE Kept
    BY <1>2, <1>9 DEF DeclineShare, TypeOK
  <1>10. CASE InterruptCreate \/ (\E v \in Viewers : ListInvitations(v)) \/ UNCHANGED vars
    BY <1>2, <1>10 DEF InterruptCreate, ListInvitations, vars
  <1> QED
    BY <1>3, <1>5, <1>6, <1>7, <1>8, <1>9, <1>10 DEF Next

\* Nothing the owner does to the resource turns a decline into an invitation.
THEOREM DeclinesAreFinal == Spec => DeclineSticks
  <1>1. TypeOK /\ OneDecision /\ [Next]_vars
          => [\A p \in Recipients :
                invitation[p] = "declined" =>
                    \/ Status(p)' = "declined"
                    \/ Status(p)' = "none"]_vars
    BY DeclinesStay
  <1> QED
    BY <1>1, TypeCorrect, OneStanding, PTL DEF Spec, DeclineSticks

-----------------------------------------------------------------------------
(* The announced plan is what happens.  Between the transactions the plan  *)
(* still says what it was computed from, and the first transaction did to  *)
(* the standing of the viewers what the plan took it to do.                *)

Before(status) == {v \in Viewers : request.before[v] = status}

PlanMade(moved) ==
    /\ request.plan.revoked = Before("accepted") \ request.viewers
    /\ request.plan.withdrawn = Before("pending") \ request.viewers
    /\ request.plan.invited = Before("none") \cap request.viewers
    /\ request.plan.reapproval =
         IF moved THEN Before("accepted") \cap request.viewers ELSE {}
    /\ \A v \in Viewers :
         Status(<<request.name, v>>) =
             IF moved /\ request.before[v] = "accepted"
             THEN "pending"
             ELSE request.before[v]

PlanInv == request # NoRequest => PlanMade(TRUE) \/ PlanMade(FALSE)

\* What the first transaction does to one viewer of the resource.
LEMMA UpsertMoves ==
    ASSUME TypeOK, OneDecision, NEW n \in Names, NEW v \in Viewers,
           NEW visibility, NEW url, Upsert(n, visibility, url)
    PROVE  Status(<<n, v>>)' =
             IF Moved(n, url) /\ Status(<<n, v>>) = "accepted"
             THEN "pending"
             ELSE Status(<<n, v>>)
  <1> DEFINE p == <<n, v>>
  <1>1. p \in Recipients /\ p[1] = n
    BY DEF Recipients
  <1>2. invitation[p] \in {"none", "pending", "declined"}
    BY <1>1 DEF TypeOK
  <1>3. CASE p \in shares
    BY <1>1, <1>2, <1>3 DEF OneDecision, Upsert, Status
  <1>4. CASE p \notin shares
    BY <1>1, <1>2, <1>4 DEF Upsert, Status
  <1> QED
    BY <1>3, <1>4

LEMMA CreateMakesPlan ==
    ASSUME TypeOK, OneDecision,
           NEW n \in Names, NEW visibility \in Visibilities,
           NEW url \in Urls \cup {NoUrl}, NEW viewers \in SUBSET Viewers,
           CreateResource(n, visibility, url, viewers)
    PROVE  PlanInv'
  <1>1. /\ request'.name = n /\ request'.viewers = viewers
        /\ request'.plan = Plan(n, url, viewers)
        /\ \A v \in Viewers : request'.before[v] = Status(<<n, v>>)
    BY DEF CreateResource
  <1>2. Moved(n, url) => n \in LinkNames
    BY DEF CreateResource, Acceptable, Moved, Exists, TypeOK
  <1>3. \A v \in Viewers :
          Status(<<n, v>>)' = IF Moved(n, url) /\ Status(<<n, v>>) = "accepted"
                              THEN "pending"
                              ELSE Status(<<n, v>>)
    BY UpsertMoves DEF CreateResource
  <1>4. \A status : Before(status)' = {v \in Viewers : Status(<<n, v>>) = status}
    BY <1>1 DEF Before
  <1>5. CASE Moved(n, url)
    <2>1. PlanMade(TRUE)'
      BY <1>1, <1>2, <1>3, <1>4, <1>5 DEF PlanMade, Plan
    <2> QED
      BY <2>1 DEF PlanInv
  <1>6. CASE ~Moved(n, url)
    <2>1. PlanMade(FALSE)'
      BY <1>1, <1>3, <1>4, <1>6 DEF PlanMade, Plan
    <2> QED
      BY <2>1 DEF PlanInv
  <1> QED
    BY <1>5, <1>6

LEMMA NextPlan ==
    ASSUME TypeOK, OneDecision, PlanInv, [Next]_vars
    PROVE  PlanInv'
  <1>1. CASE FinishCreate \/ InterruptCreate
    BY <1>1 DEF FinishCreate, InterruptCreate, PlanInv
  <1>2. ASSUME request = NoRequest, UNCHANGED request PROVE PlanInv'
    BY <1>2 DEF PlanInv
  <1>3. ASSUME NEW n \in Names, NEW viewers \in SUBSET Viewers,
               SetResourceShares(n, viewers)
        PROVE  PlanInv'
    BY <1>2, <1>3 DEF SetResourceShares
  <1>4. ASSUME NEW n \in Names, DeleteResource(n) PROVE PlanInv'
    BY <1>2, <1>4 DEF DeleteResource
  <1>5. ASSUME NEW v \in Viewers, ListInvitations(v) PROVE PlanInv'
    BY <1>2, <1>5 DEF ListInvitations
  <1>6. ASSUME NEW p \in Recipients, AcceptShare(p) \/ DeclineShare(p)
        PROVE  PlanInv'
    BY <1>2, <1>6 DEF AcceptShare, DeclineShare
  <1>7. CASE UNCHANGED vars
    BY <1>7 DEF vars, PlanInv, PlanMade, Before, Status
  <1> QED
    BY <1>1, <1>3, <1>4, <1>5, <1>6, <1>7, CreateMakesPlan DEF Next

\* What the second transaction does to one viewer of the resource.
LEMMA SetSharesMoves ==
    ASSUME TypeOK, NEW n \in Names, NEW v \in Viewers,
           NEW viewers \in SUBSET Viewers, SetShares(n, viewers)
    PROVE  Status(<<n, v>>)' =
             IF v \notin viewers THEN "none"
             ELSE IF Status(<<n, v>>) = "none" THEN "pending"
             ELSE Status(<<n, v>>)
  <1> DEFINE p == <<n, v>>
  <1>1. p \in Recipients /\ p[1] = n /\ p[2] = v
    BY DEF Recipients
  <1>2. invitation[p] \in {"none", "pending", "declined"}
    BY <1>1 DEF TypeOK
  <1> QED
    BY <1>1, <1>2 DEF SetShares, Status

LEMMA FinishKeepsPlan ==
    ASSUME TypeOK, PlanInv, FinishCreate
    PROVE  \A n \in Names : n = request.name =>
             LET Changed(from, to) ==
                     {v \in Viewers : /\ request.before[v] = from
                                      /\ Status(<<n, v>>)' = to}
             IN  /\ request.plan.revoked = Changed("accepted", "none")
                 /\ request.plan.reapproval = Changed("accepted", "pending")
                 /\ request.plan.withdrawn = Changed("pending", "none")
                 /\ request.plan.invited = Changed("none", "pending")
  <1> SUFFICES ASSUME NEW n \in Names, n = request.name
               PROVE  LET Changed(from, to) ==
                              {v \in Viewers : /\ request.before[v] = from
                                               /\ Status(<<n, v>>)' = to}
                      IN  /\ request.plan.revoked = Changed("accepted", "none")
                          /\ request.plan.reapproval = Changed("accepted", "pending")
                          /\ request.plan.withdrawn = Changed("pending", "none")
                          /\ request.plan.invited = Changed("none", "pending")
    OBVIOUS
  <1>1. request.viewers \in SUBSET Viewers /\ SetShares(n, request.viewers)
    BY DEF FinishCreate, TypeOK, Requests
  <1>2. \A v \in Viewers :
          Status(<<n, v>>)' = IF v \notin request.viewers THEN "none"
                              ELSE IF Status(<<n, v>>) = "none" THEN "pending"
                              ELSE Status(<<n, v>>)
    BY <1>1, SetSharesMoves
  <1>3. CASE PlanMade(TRUE)
    <2>1. \A v \in Viewers :
            Status(<<n, v>>)' =
              IF v \notin request.viewers THEN "none"
              ELSE IF request.before[v] \in {"none", "accepted"} THEN "pending"
              ELSE request.before[v]
      BY <1>2, <1>3 DEF PlanMade
    <2> QED
      BY <1>3, <2>1 DEF PlanMade, Before
  <1>4. CASE PlanMade(FALSE)
    <2>1. \A v \in Viewers :
            Status(<<n, v>>)' = IF v \notin request.viewers THEN "none"
                                ELSE IF request.before[v] = "none" THEN "pending"
                                ELSE request.before[v]
      BY <1>2, <1>4 DEF PlanMade
    <2> QED
      BY <1>4, <2>1 DEF PlanMade, Before
  <1> QED
    BY <1>3, <1>4 DEF PlanInv, FinishCreate

\* A host command does to the recipients what the plan it returned says.
THEOREM PlansAreKept == Spec => PlanIsWhatHappened
  <1>1. Init => PlanInv
    BY DEF Init, PlanInv
  <1>2. TypeOK /\ PlanInv /\ [Next]_vars
          => [FinishCreate =>
                \A n \in Names : n = request.name =>
                  LET Changed(from, to) ==
                          {v \in Viewers : /\ request.before[v] = from
                                           /\ Status(<<n, v>>)' = to}
                  IN  /\ request.plan.revoked = Changed("accepted", "none")
                      /\ request.plan.reapproval = Changed("accepted", "pending")
                      /\ request.plan.withdrawn = Changed("pending", "none")
                      /\ request.plan.invited = Changed("none", "pending")]_vars
    BY FinishKeepsPlan
  <1> QED
    BY <1>1, <1>2, NextPlan, TypeCorrect, OneStanding, PTL
    DEF Spec, PlanIsWhatHappened
=============================================================================

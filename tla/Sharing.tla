------------------------------ MODULE Sharing -------------------------------
(***************************************************************************)
(* The control plane's resources and who may use them: the tables          *)
(* resources, shares and share_invitations (devsite-server/src/db.rs), the *)
(* handlers that change them (devsite-server/src/api.rs) and the single    *)
(* authorisation rule can_view (devsite-server/src/policy.rs).             *)
(*                                                                         *)
(* Concurrency.  Every handler holds the process-wide database mutex while *)
(* it reads and writes, so a handler is one action, except create_resource:*)
(* it commits two transactions under one lock, and the second may never    *)
(* happen (an SQL error, a killed process).  `request` holds the handler   *)
(* that is between its two transactions; nothing else runs meanwhile.      *)
(*                                                                         *)
(* One owner is modelled: every statement is scoped to a resource, and no  *)
(* statement touches the resources of two owners.  A resource is known by  *)
(* its (owner, name, kind), the key create_resource upserts on; Kind gives *)
(* the kind of each name.  A deleted resource that is created again has a  *)
(* new id in the code: here it starts with no rows and unseen.             *)
(* A viewer answers an invitation only after listing it: resource ids are  *)
(* random, and the list of invitations is where a viewer learns them.      *)
(***************************************************************************)
EXTENDS Integers, FiniteSets

CONSTANTS
    Names,         \* resources the owner may create
    LinkNames,     \* those of kind link; the others are services
    Viewers,       \* accounts that are not the owner
    Owner,         \* the owner's account
    Urls,          \* destinations a link may have
    NoUrl,         \* a service has none
    Absent,        \* value of `resource` for a name that does not exist
    NoRequest,     \* no handler is between its two transactions
    MaxResources,  \* MAX_RESOURCES (100 in the code)
    MaxShares      \* MAX_SHARES (25 in the code)

ASSUME SharingAssumption ==
    /\ LinkNames \subseteq Names
    /\ Owner \notin Viewers
    /\ NoUrl \notin Urls
    /\ MaxResources \in Nat
    /\ MaxShares \in Nat

Recipients == Names \X Viewers

Visibilities == {"public", "private", "shared"}

Resources == [visibility : Visibilities, url : Urls \cup {NoUrl}]

Statuses == {"none", "pending", "accepted", "declined"}

Plans ==
    [revoked : SUBSET Viewers, withdrawn : SUBSET Viewers,
     reapproval : SUBSET Viewers, invited : SUBSET Viewers]

Requests ==
    [name : Names, viewers : SUBSET Viewers, plan : Plans,
     before : [Viewers -> Statuses]]

VARIABLES
    resource,     \* table resources
    shares,       \* table shares: accepted grants
    invitation,   \* table share_invitations: status, "none" for no row
    request,      \* create_resource between its two transactions
    interrupted,  \* history: names whose last create_resource was cut short
    approved,     \* history: destination at the moment a viewer accepted
    inspected     \* destination each viewer was shown last, if any

ASSUME SharingNulls ==
    /\ Absent \notin Resources
    /\ NoRequest \notin Requests

vars == <<resource, shares, invitation, request, interrupted, approved,
          inspected>>

Exists(n) == resource[n] # Absent

Status(p) == IF p \in shares THEN "accepted" ELSE invitation[p]

Init ==
    /\ resource = [n \in Names |-> Absent]
    /\ shares = {}
    /\ invitation = [p \in Recipients |-> "none"]
    /\ request = NoRequest
    /\ interrupted = {}
    /\ approved = [p \in Recipients |-> NoUrl]
    /\ inspected = [p \in Recipients |-> Absent]

-----------------------------------------------------------------------------
(* Who may see or use a resource.                                          *)

\* can_view, for a resource that exists.
CanView(viewer, n) ==
    LET r == resource[n] IN
    \/ r.visibility = "public"
    \/ viewer = Owner
    \/ r.visibility = "shared" /\ <<n, viewer>> \in shares

Services == {n \in Names \ LinkNames : Exists(n)}

\* Mutant: the snapshot forgets to look at the visibility.
AuthorizationsOfAnyVisibility ==
    {<<Owner, n>> : n \in Services}
    \cup {a \in Viewers \X Services : <<a[2], a[1]>> \in shares}

\* service_authorizations: what a daemon may keep open.
ServiceAuthorizations ==
    {<<Owner, n>> : n \in Services}
    \cup {a \in Viewers \X Services :
            /\ <<a[2], a[1]>> \in shares
            /\ resource[a[2]].visibility = "shared"}

\* accessible_services: what a broker may plan a grant for.  The query joins
\* the share rows and does not look at the visibility.
AccessibleServices(viewer) ==
    {n \in Services : viewer = Owner \/ <<n, viewer>> \in shares}

-----------------------------------------------------------------------------
(* Creating and updating a resource.                                       *)

\* Mutant: the kind of the resource does not restrict its visibility.
AnyVisibility(n, visibility) == TRUE

\* validate_resource_visibility: only a link may be public.
AllowedVisibility(n, visibility) == n \in LinkNames \/ visibility # "public"

\* resolve_share_accounts: how many accounts one request may name.  That they
\* exist and are not the owner is in the choice of Viewers.
ResolvableShares(viewers) == Cardinality(viewers) <= MaxShares

\* prepare_resource: what a request must satisfy before anything is written.
Acceptable(n, visibility, url, viewers) ==
    /\ AllowedVisibility(n, visibility)
    /\ visibility # "shared" => viewers = {}
    /\ IF n \in LinkNames THEN url \in Urls ELSE url = NoUrl
    /\ ~Exists(n) => Cardinality({m \in Names : Exists(m)}) < MaxResources
    /\ ResolvableShares(viewers)

\* The destination of an existing resource changes (previous_url != url).
Moved(n, url) == Exists(n) /\ resource[n].url # url

\* build_resource_plan: the effects on recipients announced by a plan.
Plan(n, url, viewers) ==
    LET With(status) == {v \in Viewers : Status(<<n, v>>) = status}
        moved == n \in LinkNames /\ Moved(n, url)
    IN  [revoked    |-> With("accepted") \ viewers,
         withdrawn  |-> With("pending") \ viewers,
         reapproval |-> IF moved THEN With("accepted") \cap viewers ELSE {},
         invited    |-> With("none") \cap viewers]

\* Mutant: a new destination leaves the accepted rows alone.
UpsertKeepingShares(n, visibility, url) ==
    /\ resource' = [resource EXCEPT ![n] = [visibility |-> visibility, url |-> url]]
    /\ UNCHANGED <<shares, invitation>>

\* Db::create_resource, one transaction.  A changed destination turns every
\* accepted share into a pending invitation.
Upsert(n, visibility, url) ==
    /\ resource' = [resource EXCEPT ![n] = [visibility |-> visibility, url |-> url]]
    /\ shares' = IF Moved(n, url) THEN {p \in shares : p[1] # n} ELSE shares
    /\ invitation' = [p \in Recipients |->
           IF p[1] = n /\ Moved(n, url) /\ p \in shares /\ invitation[p] = "none"
           THEN "pending"
           ELSE invitation[p]]

CreateResource(n, visibility, url, viewers) ==
    /\ request = NoRequest
    /\ Acceptable(n, visibility, url, viewers)
    /\ Upsert(n, visibility, url)
    /\ request' = [name |-> n, viewers |-> viewers,
                   plan |-> Plan(n, url, viewers),
                   before |-> [v \in Viewers |-> Status(<<n, v>>)]]
    /\ UNCHANGED <<interrupted, approved, inspected>>

\* Mutant: recipients are added to those already there.
SetSharesAdding(n, viewers) ==
    /\ UNCHANGED shares
    /\ invitation' = [p \in Recipients |->
           IF p[1] = n /\ p[2] \in viewers /\ p \notin shares /\ invitation[p] = "none"
           THEN "pending"
           ELSE invitation[p]]

\* Mutant: the row of a recipient who declined is replaced.
SetSharesReinviting(n, viewers) ==
    /\ shares' = {p \in shares : p[1] = n => p[2] \in viewers}
    /\ invitation' = [p \in Recipients |->
           IF p[1] # n THEN invitation[p]
           ELSE IF p[2] \in viewers /\ p \notin shares THEN "pending"
           ELSE "none"]

\* Db::set_shares, one transaction: exactly these recipients, who keep the
\* decision they made.
SetShares(n, viewers) ==
    /\ shares' = {p \in shares : p[1] = n => p[2] \in viewers}
    /\ invitation' = [p \in Recipients |->
           IF p[1] # n THEN invitation[p]
           ELSE IF p[2] \notin viewers THEN "none"
           ELSE IF p \notin shares /\ invitation[p] = "none" THEN "pending"
           ELSE invitation[p]]

\* The second transaction of create_resource.
FinishCreate ==
    /\ request # NoRequest
    /\ SetShares(request.name, request.viewers)
    /\ request' = NoRequest
    /\ interrupted' = interrupted \ {request.name}
    /\ UNCHANGED <<resource, approved, inspected>>

\* It fails, or the process dies: the first transaction stays.
InterruptCreate ==
    /\ request # NoRequest
    /\ request' = NoRequest
    /\ interrupted' = interrupted \cup {request.name}
    /\ UNCHANGED <<resource, shares, invitation, approved, inspected>>

-----------------------------------------------------------------------------
(* The other handlers.                                                     *)

SetResourceShares(n, viewers) ==
    /\ request = NoRequest
    /\ Exists(n)
    /\ resource[n].visibility # "shared" => viewers = {}
    /\ ResolvableShares(viewers)
    /\ SetShares(n, viewers)
    /\ interrupted' = interrupted \ {n}
    /\ UNCHANGED <<resource, request, approved, inspected>>

\* delete_resource; the rows of the resource go with it (ON DELETE CASCADE).
DeleteResource(n) ==
    /\ request = NoRequest
    /\ Exists(n)
    /\ resource' = [resource EXCEPT ![n] = Absent]
    /\ shares' = {p \in shares : p[1] # n}
    /\ invitation' = [p \in Recipients |->
           IF p[1] = n THEN "none" ELSE invitation[p]]
    /\ interrupted' = interrupted \ {n}
    /\ inspected' = [p \in Recipients |->
           IF p[1] = n THEN Absent ELSE inspected[p]]
    /\ UNCHANGED <<request, approved>>

\* incoming_shares: the viewer is shown what was offered and not declined.
ListInvitations(v) ==
    /\ request = NoRequest
    /\ inspected' = [p \in Recipients |->
           IF /\ p[2] = v
              /\ Exists(p[1])
              /\ resource[p[1]].visibility = "shared"
              /\ Status(p) \in {"pending", "accepted"}
           THEN resource[p[1]].url
           ELSE inspected[p]]
    /\ UNCHANGED <<resource, shares, invitation, request, interrupted, approved>>

InvitationsAfterAccept(p) == [invitation EXCEPT ![p] = "none"]

\* accept_share.  The request names the resource, not the destination the
\* viewer was shown.
AcceptShare(p) ==
    /\ request = NoRequest
    /\ inspected[p] # Absent
    /\ invitation[p] = "pending"
    /\ invitation' = InvitationsAfterAccept(p)
    /\ shares' = shares \cup {p}
    /\ approved' = [approved EXCEPT ![p] = resource[p[1]].url]
    /\ UNCHANGED <<resource, request, interrupted, inspected>>

\* decline_share: of an invitation, or of a grant accepted before.
DeclineShare(p) ==
    /\ request = NoRequest
    /\ inspected[p] # Absent
    /\ p \in shares \/ invitation[p] = "pending"
    /\ shares' = shares \ {p}
    /\ invitation' = [invitation EXCEPT ![p] = "declined"]
    /\ UNCHANGED <<resource, request, interrupted, approved, inspected>>

Next ==
    \/ \E n \in Names, visibility \in Visibilities, url \in Urls \cup {NoUrl},
          viewers \in SUBSET Viewers : CreateResource(n, visibility, url, viewers)
    \/ FinishCreate
    \/ InterruptCreate
    \/ \E n \in Names, viewers \in SUBSET Viewers : SetResourceShares(n, viewers)
    \/ \E n \in Names : DeleteResource(n)
    \/ \E v \in Viewers : ListInvitations(v)
    \/ \E p \in Recipients : AcceptShare(p) \/ DeclineShare(p)

Spec == Init /\ [][Next]_vars

-----------------------------------------------------------------------------
(* Properties.                                                             *)

\* Every variable keeps its type; a service has no destination and is never
\* public, and a name that does not exist has no rows.
TypeOK ==
    /\ resource \in [Names -> Resources \cup {Absent}]
    /\ shares \in SUBSET Recipients
    /\ invitation \in [Recipients -> {"none", "pending", "declined"}]
    /\ request \in Requests \cup {NoRequest}
    /\ interrupted \in SUBSET Names
    /\ approved \in [Recipients -> Urls \cup {NoUrl}]
    /\ inspected \in [Recipients -> Urls \cup {NoUrl, Absent}]
    /\ \A n \in Names : Exists(n) =>
         IF n \in LinkNames
         THEN resource[n].url \in Urls
         ELSE resource[n].url = NoUrl /\ resource[n].visibility # "public"
    /\ \A p \in Recipients : Status(p) # "none" => Exists(p[1])

\* A viewer has one standing with a resource: never a grant and an invitation
\* at once, which the queries that UNION both tables would report twice.
OneDecision ==
    \A p \in shares : invitation[p] = "none"

\* db.rs:719 "Approval applies to the link the recipient inspected. An owner
\* cannot swap its destination underneath an accepted row": a grant was
\* accepted while the resource had the destination it has now.
ApprovalIsCurrent ==
    \A p \in shares : Exists(p[1]) /\ approved[p] = resource[p[1]].url

\* While a create_resource was not cut short between its two transactions, a
\* resource that is not shared has neither grants nor invitations: demoting it
\* revokes everyone, and sharing it again starts from the new list alone.
RowsOnlyWhileShared ==
    request = NoRequest =>
        \A p \in Recipients :
            /\ Status(p) # "none"
            /\ p[1] \notin interrupted
            => Exists(p[1]) /\ resource[p[1]].visibility = "shared"

\* The daemon's snapshot and the capability gate agree in every state, between
\* the two transactions and after an interruption too: a stream the gate would
\* admit is never cancelled by an up to date snapshot, and one it would refuse
\* is never kept.
SnapshotMatchesGate ==
    ServiceAuthorizations =
        {a \in (Viewers \cup {Owner}) \X Services : CanView(a[1], a[2])}

\* A decline is final until the owner takes the viewer off the list or deletes
\* the resource: no host command, share sync or change of destination turns it
\* back into an invitation or a grant in one step.
DeclineSticks ==
    [][\A p \in Recipients :
         invitation[p] = "declined" =>
             \/ Status(p)' = "declined"
             \/ Status(p)' = "none"]_vars

\* The plan returned by create_resource, computed before anything is written,
\* names exactly the recipients whose standing its two transactions change.
PlanIsWhatHappened ==
    [][FinishCreate =>
         \A n \in Names : n = request.name =>
             LET Changed(from, to) ==
                     {v \in Viewers : /\ request.before[v] = from
                                      /\ Status(<<n, v>>)' = to}
             IN  /\ request.plan.revoked = Changed("accepted", "none")
                 /\ request.plan.reapproval = Changed("accepted", "pending")
                 /\ request.plan.withdrawn = Changed("pending", "none")
                 /\ request.plan.invited = Changed("none", "pending")]_vars

\* db.rs:719 "the link the recipient inspected": what accept_share does not
\* check, because the request carries no destination.
AcceptedWhatWasInspected ==
    [][\A p \in shares' \ shares : inspected[p] = resource[p[1]].url]_vars
=============================================================================

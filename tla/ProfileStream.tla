---------------------------- MODULE ProfileStream ----------------------------
(***************************************************************************)
(* Live profile pages: profile_snapshot, profile_stream and notify_profiles*)
(* of devsite-server/src/api.rs, with the handlers that change what a page *)
(* shows.  A page is rendered when its stream is opened and again whenever *)
(* a change that names the account of the page is taken off a broadcast    *)
(* channel.                                                                *)
(*                                                                         *)
(* Concurrency.  A handler changes the database under its lock, releases   *)
(* the lock and only then sends its change: `notice` holds the handlers    *)
(* between the two.  One that makes another query after its commit may fail*)
(* in it, and then sends nothing.  The channel keeps the last Capacity     *)
(* changes; a stream that fell further behind is told that it lagged.  A   *)
(* stream takes a change and renders in two steps, as fast as its browser  *)
(* reads.                                                                  *)
(*                                                                         *)
(* One resource is modelled, owned by Host.  Its invitations are left out: *)
(* who accepted what when is the matter of Sharing, here any viewer may    *)
(* accept while the resource exists.  Names, folders and themes are left   *)
(* out (write_theme notifies as set_profile_settings does), and so are     *)
(* revision numbers, event ids that nothing reads.  A viewer stays signed  *)
(* in, or stays anonymous, for as long as a page is open.                  *)
(***************************************************************************)
EXTENDS Integers, Sequences

CONSTANTS
    Accounts,
    Host,        \* the account that owns the resource
    Anonymous,   \* a viewer without an account
    Handles,
    NoHandle,    \* an account that has not claimed a handle
    Urls,        \* contents the resource may have
    Absent,      \* value of `resource` when there is none
    Watches,     \* pages that may be open: a viewer and a handle
    Handlers,    \* slots for handlers between their lock and their notice (bound)
    Capacity     \* of the broadcast channel (64 in the code)

ASSUME ProfileAssumption ==
    /\ Host \in Accounts
    /\ Anonymous \notin Accounts
    /\ NoHandle \notin Handles
    /\ Absent \notin [visibility : {"public", "private", "shared"}, url : Urls]
    /\ Watches \subseteq (Accounts \cup {Anonymous}) \X Handles
    /\ Capacity \in Nat \ {0}

VARIABLES
    resource,     \* visibility and content of Host's resource, or Absent
    accepted,     \* table shares: viewers who accepted it
    privateOnly,  \* accounts whose profile is for themselves only
    handle,       \* the handle of each account
    notice,       \* accounts a handler is about to notify; {} for a free slot
    stream        \* one stream per watched page

contentVars == <<resource, accepted, privateOnly, handle>>
vars == <<contentVars, notice, stream>>

Visibilities == {"public", "private", "shared"}

Resources == [visibility : Visibilities, url : Urls]

\* An entry is shown with the handle of the owner when it is somebody else's.
Entries == [item : Resources, from : Handles \cup {NoHandle}]

Pages == [found : BOOLEAN, entries : SUBSET Entries]

\* strayed and missed are history: the handle was claimed by another account; a
\* handler left the owner out of its notice, or failed before it.
Streams ==
    [phase : {"closed", "subscribed", "open"}, owner : Accounts \cup {Anonymous},
     queue : Seq(SUBSET Accounts), lagged : BOOLEAN, due : BOOLEAN,
     shown : Pages, strayed : BOOLEAN, missed : BOOLEAN]

NotFound == [found |-> FALSE, entries |-> {}]

Closed ==
    [phase |-> "closed", owner |-> Anonymous, queue |-> <<>>, lagged |-> FALSE,
     due |-> FALSE, shown |-> NotFound, strayed |-> FALSE, missed |-> FALSE]

-----------------------------------------------------------------------------
(* profile_snapshot.                                                       *)

CanView(viewer) ==
    /\ resource # Absent
    /\ \/ resource.visibility = "public"
       \/ viewer = Host
       \/ resource.visibility = "shared" /\ viewer \in accepted

\* The resource is an entry of Host's page, and one of "shared with me" on the
\* viewer's own page, there with the handle that Host has now.
Listed(viewer, account, from) ==
    /\ CanView(viewer)
    /\ \/ account = Host /\ from = NoHandle
       \/ account = viewer /\ viewer \in accepted /\ from = handle[Host]

\* What a viewer gets for a handle.
Page(w) ==
    LET Visible(a) ==
            handle[a] = w[2] /\ (a \in privateOnly => w[1] = a)
    IN  [found   |-> \E a \in Accounts : Visible(a),
         entries |-> {e \in Entries : \E a \in Accounts :
                        /\ Visible(a)
                        /\ Listed(w[1], a, e.from)
                        /\ resource = e.item}]

Init ==
    /\ resource = Absent
    /\ accepted = {}
    /\ privateOnly = {}
    /\ handle \in {f \in [Accounts -> Handles \cup {NoHandle}] :
           \A a, b \in Accounts : f[a] = f[b] /\ f[a] # NoHandle => a = b}
    /\ notice = [h \in Handlers |-> {}]
    /\ stream = [w \in Watches |-> Closed]

-----------------------------------------------------------------------------
(* Handlers that change a page, up to the release of the database lock.    *)

\* The handler will notify these accounts.
Announce(h, accounts) ==
    /\ notice[h] = {}
    /\ notice' = [notice EXCEPT ![h] = accounts]

\* An open page of one of these accounts on which the resource may be listed.
ListsFor(w, accounts) ==
    /\ stream[w].phase = "open"
    /\ stream[w].owner \in accounts
    /\ stream[w].owner \in {Host, w[1]}

\* Open pages of these accounts are not told of what the handler did.
Unheard(accounts) ==
    stream' = [w \in Watches |->
        [stream[w] EXCEPT !.missed = @ \/ ListsFor(w, accounts)]]

\* The handler goes on to its notice, or fails in the query that it makes
\* between its commit and its notice.
Tell(h, accounts) ==
    \/ Announce(h, accounts) /\ UNCHANGED stream
    \/ Unheard(accounts) /\ UNCHANGED notice

\* The grants left by the first transaction of create_resource.
Unmoved(url) == IF resource # Absent /\ resource.url # url THEN {} ELSE accepted

\* create_resource: the accounts it notifies are the owner and those who still
\* have a grant when both of its transactions are done.
CreateResource(h, visibility, url, viewers) ==
    LET kept == Unmoved(url) \cap viewers
    IN  /\ visibility # "shared" => viewers = {}
        /\ resource' = [visibility |-> visibility, url |-> url]
        /\ accepted' = kept
        /\ Announce(h, {Host} \cup kept)
        /\ Unheard(accepted \ kept)
        /\ UNCHANGED <<privateOnly, handle>>

\* create_resource fails in its second transaction, or in the query after it.
CreateResourceFails(visibility, url, viewers) ==
    /\ visibility # "shared" => viewers = {}
    /\ resource' = [visibility |-> visibility, url |-> url]
    /\ accepted' \in {Unmoved(url), Unmoved(url) \cap viewers}
    /\ Unheard({Host} \cup accepted)
    /\ UNCHANGED <<privateOnly, handle, notice>>

\* Mutant: only those who have a grant afterwards are notified.
AffectedByKept(viewers) == {Host} \cup (accepted \cap viewers)

\* old_viewers and new_viewers.
AffectedBy(viewers) == {Host} \cup accepted

SetResourceShares(h, viewers) ==
    /\ resource # Absent
    /\ resource.visibility # "shared" => viewers = {}
    /\ accepted' = accepted \cap viewers
    /\ Tell(h, AffectedBy(viewers))
    /\ UNCHANGED <<resource, privateOnly, handle>>

DeleteResource(h) ==
    /\ resource # Absent
    /\ resource' = Absent
    /\ accepted' = {}
    /\ Announce(h, {Host} \cup accepted)
    /\ UNCHANGED <<privateOnly, handle, stream>>

AcceptShare(h, v) ==
    /\ resource # Absent
    /\ accepted' = accepted \cup {v}
    /\ Tell(h, {v, Host})
    /\ UNCHANGED <<resource, privateOnly, handle>>

DeclineShare(h, v) ==
    /\ resource # Absent
    /\ accepted' = accepted \ {v}
    /\ Tell(h, {v, Host})
    /\ UNCHANGED <<resource, privateOnly, handle>>

SetProfileSettings(h, a, on) ==
    /\ privateOnly' = IF on THEN privateOnly \cup {a} ELSE privateOnly \ {a}
    /\ Announce(h, {a})
    /\ UNCHANGED <<resource, accepted, handle, stream>>

\* A stream on a handle that passes to account a keeps listening for the account
\* it found.
Strays(w, a, name) ==
    stream[w].phase = "open" /\ w[2] = name /\ stream[w].owner # a

\* Open pages of a, and those of others that show its handle.
OwnPages(a) == {w \in Watches : stream[w].phase = "open" /\ stream[w].owner = a}

PagesNaming(a) == {w \in Watches : a = Host /\ ListsFor(w, accepted)}

HandleMoves(a, name, unheard) ==
    stream' = [w \in Watches |->
        [stream[w] EXCEPT !.strayed = @ \/ Strays(w, a, name),
                          !.missed = @ \/ w \in unheard]]

\* claim_handle, for an account that has a handle too.  Only a itself is
\* notified, or nobody when the second statement of set_handle fails.
ClaimHandle(h, a, name) ==
    /\ \A b \in Accounts \ {a} : handle[b] # name
    /\ handle' = [handle EXCEPT ![a] = name]
    /\ \/ /\ Announce(h, {a})
          /\ HandleMoves(a, name, PagesNaming(a))
       \/ /\ HandleMoves(a, name, OwnPages(a) \cup PagesNaming(a))
          /\ UNCHANGED notice
    /\ UNCHANGED <<resource, accepted, privateOnly>>

-----------------------------------------------------------------------------
(* The broadcast channel.                                                  *)

\* Mutant: nothing is overwritten.
QueuedWithoutBound(s, accounts) == [s EXCEPT !.queue = Append(@, accounts)]

\* A receiver that is Capacity changes behind loses the oldest one.
Queued(s, accounts) ==
    IF Len(s.queue) < Capacity
    THEN [s EXCEPT !.queue = Append(@, accounts)]
    ELSE [s EXCEPT !.queue = Append(Tail(@), accounts), !.lagged = TRUE]

\* notify_profiles.
Notify(h) ==
    /\ notice[h] # {}
    /\ stream' = [w \in Watches |->
           IF stream[w].phase = "closed"
           THEN stream[w]
           ELSE Queued(stream[w], notice[h])]
    /\ notice' = [notice EXCEPT ![h] = {}]
    /\ UNCHANGED contentVars

-----------------------------------------------------------------------------
(* profile_stream.                                                         *)

\* The receiver exists before the first snapshot is taken.
Subscribe(w) ==
    /\ stream[w].phase = "closed"
    /\ stream' = [stream EXCEPT ![w].phase = "subscribed"]
    /\ UNCHANGED <<contentVars, notice>>

\* The first snapshot.  A profile that is not found answers 404.
Open(w) ==
    /\ stream[w].phase = "subscribed"
    /\ IF Page(w).found
       THEN \E a \in Accounts :
              /\ handle[a] = w[2]
              /\ stream' = [stream EXCEPT ![w].phase = "open", ![w].owner = a,
                                          ![w].shown = Page(w)]
       ELSE stream' = [stream EXCEPT ![w] = Closed]
    /\ UNCHANGED <<contentVars, notice>>

\* Mutant: a lag is skipped like a change to another account.
ConcernsUnlessLagged(s) == ~s.lagged /\ s.owner \in Head(s.queue)

\* Err(Lagged) renders, a change renders when it names the account found.
Concerns(s) == s.lagged \/ s.owner \in Head(s.queue)

Receive(w) ==
    LET s == stream[w] IN
    /\ s.phase = "open"
    /\ ~s.due
    /\ s.lagged \/ s.queue # <<>>
    /\ stream' = [stream EXCEPT ![w] =
           [s EXCEPT !.due = Concerns(s),
                     !.lagged = FALSE,
                     !.queue = IF s.lagged THEN @ ELSE Tail(@)]]
    /\ UNCHANGED <<contentVars, notice>>

\* A later snapshot; a profile that is not found is sent as `unavailable`.
Rerender(w) ==
    /\ stream[w].phase = "open"
    /\ stream[w].due
    /\ stream' = [stream EXCEPT ![w].due = FALSE, ![w].shown = Page(w),
                                ![w].missed = FALSE]
    /\ UNCHANGED <<contentVars, notice>>

\* The browser leaves, or the server restarts.
Close(w) ==
    /\ stream[w].phase # "closed"
    /\ stream' = [stream EXCEPT ![w] = Closed]
    /\ UNCHANGED <<contentVars, notice>>

Next ==
    \/ \E h \in Handlers :
        \/ \E visibility \in Visibilities, url \in Urls,
              viewers \in SUBSET (Accounts \ {Host}) :
               \/ CreateResource(h, visibility, url, viewers)
               \/ CreateResourceFails(visibility, url, viewers)
        \/ \E viewers \in SUBSET (Accounts \ {Host}) : SetResourceShares(h, viewers)
        \/ DeleteResource(h)
        \/ \E v \in Accounts \ {Host} : AcceptShare(h, v) \/ DeclineShare(h, v)
        \/ \E a \in Accounts, on \in BOOLEAN : SetProfileSettings(h, a, on)
        \/ \E a \in Accounts, name \in Handles : ClaimHandle(h, a, name)
        \/ Notify(h)
    \/ \E w \in Watches :
        Subscribe(w) \/ Open(w) \/ Receive(w) \/ Rerender(w) \/ Close(w)

Spec == Init /\ [][Next]_vars

\* A handler has no await between its lock and its notice, and a stream is
\* polled for as long as its browser reads it.
Fairness ==
    /\ \A h \in Handlers : WF_vars(Notify(h))
    /\ \A w \in Watches : WF_vars(Receive(w) \/ Rerender(w))

FairSpec == Spec /\ Fairness

-----------------------------------------------------------------------------
(* Properties.                                                             *)

\* Every variable keeps its type; no two accounts have one handle, and no
\* stream is more than Capacity changes behind.
TypeOK ==
    /\ resource \in Resources \cup {Absent}
    /\ accepted \in SUBSET (Accounts \ {Host})
    /\ privateOnly \in SUBSET Accounts
    /\ handle \in [Accounts -> Handles \cup {NoHandle}]
    /\ \A a, b \in Accounts : handle[a] = handle[b] /\ handle[a] # NoHandle => a = b
    /\ notice \in [Handlers -> SUBSET Accounts]
    /\ stream \in [Watches -> Streams]
    /\ \A w \in Watches : Len(stream[w].queue) <= Capacity

\* An open page stays stale, until a later change renders it again, in these
\* cases: its handle was claimed by an account the stream does not listen for
\* (then for good); create_resource took the viewer's grant and notified only
\* the viewers it kept; the owner of what is shared with the viewer claimed
\* another handle, which the page shows; a handler failed after its commit.  README.md:243
\* of the repository, "sends a new fragment after profile data changes", names none
\* of them.
Excused(w) == stream[w].strayed \/ stream[w].missed

Settled(w) ==
    /\ stream[w].phase = "open"
    /\ ~stream[w].due
    /\ ~stream[w].lagged
    /\ stream[w].queue = <<>>
    /\ \A h \in Handlers : notice[h] = {}

\* When nothing is on its way, an open page shows what its viewer would get by
\* reloading it: no change is lost between the snapshot and the subscription,
\* between the lock and the notice, or by a channel that overflowed.  Above
\* all a resource that was hidden, moved or taken back is not shown any more.
PageIsCurrent ==
    \A w \in Watches :
        Settled(w) => Excused(w) \/ stream[w].shown = Page(w)

\* An open page catches up with every change, however many more follow and
\* however far it fell behind.
PageCatchesUp ==
    \A w \in Watches :
        []<>(\/ stream[w].phase # "open"
             \/ Excused(w)
             \/ stream[w].shown = Page(w))
=============================================================================

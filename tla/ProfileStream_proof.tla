------------------------- MODULE ProfileStream_proof -------------------------
(***************************************************************************)
(* Proofs about ProfileStream, for any accounts, handles, contents, pages  *)
(* and handlers, and any capacity of the channel.                          *)
(***************************************************************************)
EXTENDS ProfileStream, TLAPS

-----------------------------------------------------------------------------
(* The channel and the streams.                                            *)

LEMMA ClosedType == Closed \in Streams
  BY DEF Closed, Streams, NotFound, Pages

LEMMA PageType == ASSUME NEW w PROVE Page(w) \in Pages
  BY DEF Page, Pages

\* What a receiver that is sent a change has in its queue.
LEMMA QueuedEffect ==
    ASSUME NEW s \in Streams, Len(s.queue) <= Capacity, NEW accounts \in SUBSET Accounts
    PROVE  /\ Queued(s, accounts) \in Streams
           /\ Len(Queued(s, accounts).queue) <= Capacity
           /\ Queued(s, accounts).phase = s.phase
           /\ Queued(s, accounts).owner = s.owner
           /\ Queued(s, accounts).strayed = s.strayed
           /\ Queued(s, accounts).missed = s.missed
           /\ Queued(s, accounts).due = s.due
           /\ Queued(s, accounts).shown = s.shown
           /\ s.lagged => Queued(s, accounts).lagged
           /\ ~Queued(s, accounts).lagged =>
                  Queued(s, accounts).queue = Append(s.queue, accounts)
  <1>1. s.queue \in Seq(SUBSET Accounts) /\ Capacity \in Nat \ {0}
    BY ProfileAssumption DEF Streams
  <1>2. CASE Len(s.queue) < Capacity
    <2>1. Queued(s, accounts) = [s EXCEPT !.queue = Append(s.queue, accounts)]
      BY <1>2 DEF Queued
    <2>2. /\ Append(s.queue, accounts) \in Seq(SUBSET Accounts)
          /\ Len(Append(s.queue, accounts)) <= Capacity
      BY <1>1, <1>2
    <2> QED
      BY <2>1, <2>2 DEF Streams
  <1>3. CASE ~(Len(s.queue) < Capacity)
    <2>1. Queued(s, accounts) =
            [s EXCEPT !.queue = Append(Tail(s.queue), accounts), !.lagged = TRUE]
      BY <1>3 DEF Queued
    <2>2. /\ Append(Tail(s.queue), accounts) \in Seq(SUBSET Accounts)
          /\ Len(Append(Tail(s.queue), accounts)) <= Capacity
      BY <1>1, <1>3
    <2> QED
      BY <2>1, <2>2 DEF Streams
  <1> QED
    BY <1>2, <1>3

\* What a receiver that takes a change, or learns that it lagged, is left with.
Received(s) ==
    [s EXCEPT !.due = Concerns(s),
              !.lagged = FALSE,
              !.queue = IF s.lagged THEN @ ELSE Tail(@)]

LEMMA ReceivedEffect ==
    ASSUME NEW s \in Streams, Len(s.queue) <= Capacity, s.lagged \/ s.queue # <<>>
    PROVE  /\ Received(s) \in Streams
           /\ Len(Received(s).queue) <= Capacity
           /\ Received(s).phase = s.phase
           /\ Received(s).owner = s.owner
           /\ Received(s).strayed = s.strayed
           /\ Received(s).missed = s.missed
           /\ Received(s).shown = s.shown
           /\ s.lagged => Received(s).due
           /\ ~s.lagged => /\ Received(s).due = (s.owner \in Head(s.queue))
                           /\ Received(s).queue = Tail(s.queue)
  <1>1. s.queue \in Seq(SUBSET Accounts) /\ Capacity \in Nat \ {0}
    BY ProfileAssumption DEF Streams
  <1>2. Concerns(s) \in BOOLEAN
    BY DEF Concerns, Streams
  <1>3. s.queue # <<>> => /\ Tail(s.queue) \in Seq(SUBSET Accounts)
                          /\ Len(Tail(s.queue)) <= Capacity
    BY <1>1
  <1>4. CASE s.lagged
    <2>1. Received(s) = [s EXCEPT !.due = Concerns(s), !.lagged = FALSE]
      BY <1>4 DEF Received, Streams
    <2>2. Concerns(s)
      BY <1>4 DEF Concerns
    <2> QED
      BY <1>2, <1>4, <2>1, <2>2 DEF Streams
  <1>5. CASE ~s.lagged
    <2>1. Received(s) = [s EXCEPT !.due = Concerns(s), !.lagged = FALSE,
                                  !.queue = Tail(s.queue)]
      BY <1>5 DEF Received
    <2>2. Concerns(s) = (s.owner \in Head(s.queue))
      BY <1>5 DEF Concerns
    <2> DEFINE d == Concerns(s)
               q == Tail(s.queue)
    <2>3. /\ Received(s) = [s EXCEPT !.due = d, !.lagged = FALSE, !.queue = q]
          /\ d \in BOOLEAN /\ d = (s.owner \in Head(s.queue))
          /\ q \in Seq(SUBSET Accounts) /\ Len(q) <= Capacity
          /\ q = Tail(s.queue)
      BY <1>2, <1>3, <1>5, <2>1, <2>2
    <2> HIDE DEF d, q
    <2>4. Received(s) \in Streams
      BY <2>3 DEF Streams
    <2>5. /\ Received(s).phase = s.phase /\ Received(s).owner = s.owner
          /\ Received(s).strayed = s.strayed /\ Received(s).missed = s.missed
          /\ Received(s).shown = s.shown
          /\ Received(s).due = d /\ Received(s).queue = q
      BY <2>3 DEF Streams
    <2> QED
      BY <1>5, <2>3, <2>4, <2>5
  <1> QED
    BY <1>4, <1>5

-----------------------------------------------------------------------------
(* Type correctness.                                                       *)

ContentOK ==
    /\ resource \in Resources \cup {Absent}
    /\ accepted \in SUBSET (Accounts \ {Host})
    /\ privateOnly \in SUBSET Accounts

HandlesOK ==
    /\ handle \in [Accounts -> Handles \cup {NoHandle}]
    /\ \A a, b \in Accounts : handle[a] = handle[b] /\ handle[a] # NoHandle => a = b

NoticesOK == notice \in [Handlers -> SUBSET Accounts]

StreamsOK ==
    /\ stream \in [Watches -> Streams]
    /\ \A w \in Watches : Len(stream[w].queue) <= Capacity

LEMMA TypeParts == TypeOK <=> ContentOK /\ HandlesOK /\ NoticesOK /\ StreamsOK
  BY DEF TypeOK, ContentOK, HandlesOK, NoticesOK, StreamsOK

LEMMA InitType == Init => TypeOK
  <1> SUFFICES ASSUME Init PROVE TypeOK
    OBVIOUS
  <1>1. Len(Closed.queue) <= Capacity
    BY ProfileAssumption DEF Closed
  <1> QED
    BY <1>1, ClosedType DEF Init, TypeOK

\* A handler that leaves handles alone.
Mutates(h) ==
    \/ \E visibility \in Visibilities, url \in Urls,
          viewers \in SUBSET (Accounts \ {Host}) :
           \/ CreateResource(h, visibility, url, viewers)
           \/ CreateResourceFails(visibility, url, viewers)
    \/ \E viewers \in SUBSET (Accounts \ {Host}) : SetResourceShares(h, viewers)
    \/ DeleteResource(h)
    \/ \E v \in Accounts \ {Host} : AcceptShare(h, v) \/ DeclineShare(h, v)
    \/ \E a \in Accounts, on \in BOOLEAN : SetProfileSettings(h, a, on)

\* A stream goes on; nothing that pages show changes.
Streaming(w) == Subscribe(w) \/ Open(w) \/ Receive(w) \/ Rerender(w) \/ Close(w)

LEMMA NextParts ==
    Next <=> \/ \E h \in Handlers : Mutates(h)
             \/ \E h \in Handlers, a \in Accounts, name \in Handles :
                    ClaimHandle(h, a, name)
             \/ \E h \in Handlers : Notify(h)
             \/ \E w \in Watches : Streaming(w)
  BY DEF Next, Mutates, Streaming

\* What a handler that leaves handles alone does to the streams: it marks those
\* that will not hear of it, and nothing else.
Marks(x) ==
    /\ stream'[x] \in Streams
    /\ stream'[x].phase = stream[x].phase
    /\ stream'[x].owner = stream[x].owner
    /\ stream'[x].queue = stream[x].queue
    /\ stream'[x].due = stream[x].due
    /\ stream'[x].lagged = stream[x].lagged
    /\ stream'[x].shown = stream[x].shown
    /\ stream'[x].strayed = stream[x].strayed
    /\ stream[x].missed => stream'[x].missed

LEMMA UnheardEffect ==
    ASSUME TypeOK, NEW accounts, Unheard(accounts), NEW w \in Watches
    PROVE  /\ Marks(w)
           /\ ListsFor(w, accounts) => stream'[w].missed
  <1> DEFINE missed == stream[w].missed \/ ListsFor(w, accounts)
  <1>1. stream[w] \in Streams
    BY DEF TypeOK
  <1>2. /\ missed \in BOOLEAN
        /\ stream[w].missed => missed
        /\ ListsFor(w, accounts) => missed
    BY <1>1 DEF Streams, ListsFor
  <1>3. stream'[w] = [stream[w] EXCEPT !.missed = missed]
    BY DEF Unheard
  <1> HIDE DEF missed
  <1> QED
    BY <1>1, <1>2, <1>3 DEF Streams, Marks

\* What a handler tells: the accounts of its notice, and those of the pages it
\* leaves behind.
Told(h, accounts) ==
    \/ notice'[h] = accounts
    \/ \A w \in Watches : ListsFor(w, accounts) => stream'[w].missed

LEMMA TellEffect ==
    ASSUME TypeOK, NEW h \in Handlers, NEW accounts \in SUBSET Accounts,
           Tell(h, accounts)
    PROVE  /\ NoticesOK' /\ \A w \in Watches : Marks(w)
           /\ DOMAIN stream' = Watches /\ stream' = [w \in Watches |-> stream'[w]]
           /\ Told(h, accounts)
           /\ \A g \in Handlers : notice'[g] = notice[g] \/ (g = h /\ notice[h] = {})
  <1>1. stream \in [Watches -> Streams] /\ notice \in [Handlers -> SUBSET Accounts]
    BY DEF TypeOK
  <1>2. CASE Announce(h, accounts) /\ UNCHANGED stream
    <2>1. \A w \in Watches : Marks(w)
      BY <1>1, <1>2 DEF Marks
    <2> QED
      BY <1>1, <1>2, <2>1 DEF Announce, NoticesOK, Told
  <1>3. CASE Unheard(accounts) /\ UNCHANGED notice
    <2>1. ASSUME NEW w \in Watches
          PROVE  /\ Marks(w)
                 /\ ListsFor(w, accounts) => stream'[w].missed
      BY <1>3, UnheardEffect
    <2>2. stream' = [w \in Watches |-> stream'[w]]
      BY <1>3 DEF Unheard
    <2> QED
      BY <1>1, <1>3, <2>1, <2>2 DEF NoticesOK, Told
  <1> QED
    BY <1>2, <1>3 DEF Tell

\* What an action does to content and streams that leaves handles alone.
Effect(h) ==
    /\ ContentOK' /\ NoticesOK'
    /\ UNCHANGED handle
    /\ stream' = [w \in Watches |-> stream'[w]]
    /\ \A w \in Watches : Marks(w)
    /\ \A g \in Handlers : notice'[g] = notice[g] \/ (g = h /\ notice[h] = {})

LEMMA QuietEffect ==
    ASSUME TypeOK, NEW h \in Handlers, NEW accounts \in SUBSET Accounts,
           Announce(h, accounts), UNCHANGED stream
    PROVE  /\ NoticesOK' /\ \A w \in Watches : Marks(w)
           /\ stream' = [w \in Watches |-> stream'[w]]
           /\ notice'[h] = accounts
           /\ \A g \in Handlers : notice'[g] = notice[g] \/ (g = h /\ notice[h] = {})
  <1>1. stream \in [Watches -> Streams] /\ notice \in [Handlers -> SUBSET Accounts]
    BY DEF TypeOK
  <1>2. \A w \in Watches : Marks(w)
    BY <1>1 DEF Marks
  <1> QED
    BY <1>1, <1>2 DEF Announce, NoticesOK

\* create_resource, whether it fails or not.
LEMMA CreateEffect ==
    ASSUME TypeOK, NEW h \in Handlers, NEW visibility \in Visibilities, NEW url \in Urls,
           NEW viewers \in SUBSET (Accounts \ {Host}),
           \/ CreateResource(h, visibility, url, viewers)
           \/ CreateResourceFails(visibility, url, viewers)
    PROVE  /\ Effect(h)
           /\ UNCHANGED privateOnly
           /\ accepted' \subseteq accepted
           /\ Told(h, {Host} \cup accepted')
           /\ Told(h, accepted \ accepted')
  <1>1. /\ ContentOK /\ notice \in [Handlers -> SUBSET Accounts] /\ Host \in Accounts
        /\ Unmoved(url) \subseteq accepted
    BY ProfileAssumption DEF TypeOK, ContentOK, Unmoved
  <1>2. /\ ContentOK' /\ UNCHANGED <<privateOnly, handle>>
        /\ accepted' \subseteq accepted
    BY <1>1 DEF CreateResource, CreateResourceFails, ContentOK, Resources
  <1>3. CASE CreateResource(h, visibility, url, viewers)
    <2> DEFINE dropped == accepted \ accepted'
    <2>1. /\ Announce(h, {Host} \cup accepted')
          /\ Unheard(dropped)
      BY <1>3 DEF CreateResource
    <2>2. ASSUME NEW w \in Watches
          PROVE  /\ Marks(w)
                 /\ ListsFor(w, dropped) => stream'[w].missed
      BY <2>1, UnheardEffect
    <2>3. stream' = [w \in Watches |-> stream'[w]]
      BY <2>1 DEF Unheard
    <2>4. /\ NoticesOK' /\ notice'[h] = {Host} \cup accepted'
          /\ \A g \in Handlers : notice'[g] = notice[g] \/ (g = h /\ notice[h] = {})
      BY <1>1, <1>2, <2>1 DEF Announce, NoticesOK, ContentOK
    <2> QED
      BY <1>2, <2>2, <2>3, <2>4 DEF Effect, Told
  <1>4. CASE CreateResourceFails(visibility, url, viewers)
    <2>1. Unheard({Host} \cup accepted) /\ UNCHANGED notice
      BY <1>4 DEF CreateResourceFails
    <2>2. ASSUME NEW w \in Watches
          PROVE  /\ Marks(w)
                 /\ ListsFor(w, {Host} \cup accepted) =>
                        stream'[w].missed
      BY <2>1, UnheardEffect
    <2>3. stream' = [w \in Watches |-> stream'[w]]
      BY <2>1 DEF Unheard
    <2>4. ASSUME NEW w \in Watches
          PROVE  /\ ListsFor(w, {Host} \cup accepted') => ListsFor(w, {Host} \cup accepted)
                 /\ ListsFor(w, accepted \ accepted') => ListsFor(w, {Host} \cup accepted)
      BY <1>2 DEF ListsFor
    <2>5. NoticesOK'
      BY <1>1, <2>1 DEF NoticesOK
    <2> QED
      BY <1>2, <2>1, <2>2, <2>3, <2>4, <2>5 DEF Effect, Told
  <1> QED
    BY <1>3, <1>4

LEMMA SharesEffect ==
    ASSUME TypeOK, NEW h \in Handlers, NEW viewers \in SUBSET (Accounts \ {Host}),
           SetResourceShares(h, viewers)
    PROVE  /\ Effect(h)
           /\ UNCHANGED privateOnly
           /\ accepted' \subseteq accepted
           /\ Told(h, {Host} \cup accepted)
  <1>1. ContentOK /\ {Host} \cup accepted \in SUBSET Accounts
    BY ProfileAssumption DEF TypeOK, ContentOK
  <1>2. /\ ContentOK' /\ UNCHANGED <<privateOnly, handle>>
        /\ accepted' \subseteq accepted
    BY <1>1 DEF SetResourceShares, ContentOK
  <1>3. Tell(h, {Host} \cup accepted)
    BY DEF SetResourceShares, AffectedBy
  <1> QED
    BY <1>1, <1>2, <1>3, TellEffect DEF Effect

LEMMA DeleteEffect ==
    ASSUME TypeOK, NEW h \in Handlers, DeleteResource(h)
    PROVE  /\ Effect(h)
           /\ UNCHANGED privateOnly
           /\ accepted' \subseteq accepted
           /\ Told(h, {Host} \cup accepted)
  <1>1. ContentOK /\ {Host} \cup accepted \in SUBSET Accounts
    BY ProfileAssumption DEF TypeOK, ContentOK
  <1>2. /\ ContentOK' /\ UNCHANGED <<privateOnly, handle>>
        /\ accepted' \subseteq accepted
    BY <1>1 DEF DeleteResource, ContentOK
  <1>3. Announce(h, {Host} \cup accepted) /\ UNCHANGED stream
    BY DEF DeleteResource
  <1> QED
    BY <1>1, <1>2, <1>3, QuietEffect DEF Effect, Told

LEMMA DecisionEffect ==
    ASSUME TypeOK, NEW h \in Handlers, NEW v \in Accounts \ {Host},
           AcceptShare(h, v) \/ DeclineShare(h, v)
    PROVE  /\ Effect(h)
           /\ UNCHANGED <<resource, privateOnly>>
           /\ \A x : x # v => (x \in accepted' <=> x \in accepted)
           /\ Told(h, {v, Host})
  <1>1. ContentOK /\ {v, Host} \in SUBSET Accounts
    BY ProfileAssumption DEF TypeOK, ContentOK
  <1>2. /\ ContentOK' /\ UNCHANGED <<resource, privateOnly, handle>>
        /\ \A x : x # v => (x \in accepted' <=> x \in accepted)
    BY <1>1 DEF AcceptShare, DeclineShare, ContentOK
  <1>3. Tell(h, {v, Host})
    BY DEF AcceptShare, DeclineShare
  <1> QED
    BY <1>1, <1>2, <1>3, TellEffect DEF Effect

LEMMA SettingsEffect ==
    ASSUME TypeOK, NEW h \in Handlers, NEW a \in Accounts, NEW on \in BOOLEAN,
           SetProfileSettings(h, a, on)
    PROVE  /\ Effect(h)
           /\ UNCHANGED <<resource, accepted>>
           /\ \A x : x # a => (x \in privateOnly' <=> x \in privateOnly)
           /\ notice'[h] = {a}
  <1>1. ContentOK /\ {a} \in SUBSET Accounts
    BY DEF TypeOK, ContentOK
  <1>2. /\ ContentOK' /\ UNCHANGED <<resource, accepted, handle>>
        /\ \A x : x # a => (x \in privateOnly' <=> x \in privateOnly)
    BY <1>1 DEF SetProfileSettings, ContentOK
  <1>3. Announce(h, {a}) /\ UNCHANGED stream
    BY DEF SetProfileSettings
  <1> QED
    BY <1>1, <1>2, <1>3, QuietEffect DEF Effect

LEMMA MutateEffect ==
    ASSUME TypeOK, NEW h \in Handlers, Mutates(h)
    PROVE  Effect(h)
  BY CreateEffect, SharesEffect, DeleteEffect, DecisionEffect, SettingsEffect DEF Mutates

LEMMA MutateType ==
    ASSUME TypeOK, NEW h \in Handlers, Mutates(h)
    PROVE  TypeOK'
  <1>1. ContentOK /\ HandlesOK /\ NoticesOK /\ StreamsOK
    BY TypeParts
  <1>2. Effect(h)
    BY MutateEffect
  <1>3. ContentOK' /\ NoticesOK' /\ HandlesOK'
    BY <1>1, <1>2 DEF Effect, HandlesOK
  <1>4. StreamsOK'
    <2>1. stream' = [w \in Watches |-> stream'[w]]
      BY <1>2 DEF Effect
    <2>2. \A w \in Watches : stream'[w] \in Streams /\ stream'[w].queue = stream[w].queue
      BY <1>2 DEF Effect, Marks
    <2> QED
      BY <1>1, <2>1, <2>2 DEF StreamsOK
  <1>5. (TypeOK <=> ContentOK /\ HandlesOK /\ NoticesOK /\ StreamsOK)'
    BY TypeParts, PTL
  <1> QED
    BY <1>3, <1>4, <1>5

\* The streams after a handle was claimed.
LEMMA ClaimEffect ==
    ASSUME TypeOK, NEW h \in Handlers, NEW a \in Accounts, NEW name \in Handles,
           ClaimHandle(h, a, name), NEW w \in Watches
    PROVE  /\ stream'[w] \in Streams
           /\ stream'[w].phase = stream[w].phase
           /\ stream'[w].owner = stream[w].owner
           /\ stream'[w].queue = stream[w].queue
           /\ stream'[w].due = stream[w].due
           /\ stream'[w].lagged = stream[w].lagged
           /\ stream'[w].shown = stream[w].shown
           /\ stream[w].strayed => stream'[w].strayed
           /\ stream[w].missed => stream'[w].missed
           /\ Strays(w, a, name) => stream'[w].strayed
           /\ w \in PagesNaming(a) => stream'[w].missed
           /\ w \in OwnPages(a) => a \in notice'[h] \/ stream'[w].missed
  <1>1. stream[w] \in Streams /\ notice \in [Handlers -> SUBSET Accounts]
    BY DEF TypeOK
  <1>2. PICK unheard :
          /\ HandleMoves(a, name, unheard)
          /\ w \in PagesNaming(a) => w \in unheard
          /\ w \in OwnPages(a) => a \in notice'[h] \/ w \in unheard
    <2>1. CASE Announce(h, {a}) /\ HandleMoves(a, name, PagesNaming(a))
      BY <1>1, <2>1 DEF Announce
    <2>2. CASE HandleMoves(a, name, OwnPages(a) \cup PagesNaming(a))
      BY <2>2
    <2> QED
      BY <2>1, <2>2 DEF ClaimHandle
  <1> DEFINE strayed == stream[w].strayed \/ Strays(w, a, name)
             missed == stream[w].missed \/ w \in unheard
  <1>3. strayed \in BOOLEAN /\ missed \in BOOLEAN
    BY <1>1 DEF Streams, Strays
  <1>4. /\ stream[w].strayed => strayed
        /\ Strays(w, a, name) => strayed
        /\ stream[w].missed => missed
        /\ w \in unheard => missed
    OBVIOUS
  <1>5. stream'[w] = [stream[w] EXCEPT !.strayed = strayed, !.missed = missed]
    BY <1>2 DEF HandleMoves
  <1> HIDE DEF strayed, missed
  <1> QED
    BY <1>1, <1>2, <1>3, <1>4, <1>5 DEF Streams

LEMMA ClaimType ==
    ASSUME TypeOK, NEW h \in Handlers, NEW a \in Accounts, NEW name \in Handles,
           ClaimHandle(h, a, name)
    PROVE  TypeOK'
  <1>1. ContentOK /\ HandlesOK /\ NoticesOK /\ StreamsOK
    BY TypeParts
  <1>2. ContentOK' /\ NoticesOK'
    BY <1>1 DEF ContentOK, NoticesOK, ClaimHandle, Announce
  <1>3. HandlesOK'
    BY <1>1, ProfileAssumption DEF HandlesOK, ClaimHandle
  <1>4. StreamsOK'
    <2>1. stream' = [w \in Watches |-> stream'[w]]
      BY DEF ClaimHandle, HandleMoves
    <2>2. \A w \in Watches : stream'[w] \in Streams /\ stream'[w].queue = stream[w].queue
      BY ClaimEffect
    <2> QED
      BY <1>1, <2>1, <2>2 DEF StreamsOK
  <1>5. (TypeOK <=> ContentOK /\ HandlesOK /\ NoticesOK /\ StreamsOK)'
    BY TypeParts, PTL
  <1> QED
    BY <1>2, <1>3, <1>4, <1>5

LEMMA NotifyType ==
    ASSUME TypeOK, NEW h \in Handlers, Notify(h)
    PROVE  TypeOK'
  <1>1. ContentOK /\ HandlesOK /\ NoticesOK /\ StreamsOK
    BY TypeParts
  <1>2. ContentOK' /\ NoticesOK' /\ HandlesOK'
    BY <1>1 DEF ContentOK, NoticesOK, HandlesOK, Notify, contentVars
  <1>3. StreamsOK'
    <2>1. stream' = [w \in Watches |-> stream'[w]]
      BY DEF Notify
    <2>2. ASSUME NEW w \in Watches
          PROVE  stream'[w] \in Streams /\ Len(stream'[w].queue) <= Capacity
      BY <1>1, <2>2, QueuedEffect DEF StreamsOK, NoticesOK, Notify
    <2> QED
      BY <2>1, <2>2 DEF StreamsOK
  <1>4. (TypeOK <=> ContentOK /\ HandlesOK /\ NoticesOK /\ StreamsOK)'
    BY TypeParts, PTL
  <1> QED
    BY <1>2, <1>3, <1>4

\* What a stream that goes on becomes.
LEMMA StreamingEffect ==
    ASSUME TypeOK, NEW w \in Watches, Streaming(w)
    PROVE  \E s \in Streams :
              /\ stream' = [stream EXCEPT ![w] = s]
              /\ Len(s.queue) <= Capacity
              /\ s.phase = "open" =>
                    \/ /\ stream[w].phase = "subscribed"
                       /\ s.owner \in Accounts
                       /\ handle[s.owner] = w[2]
                       /\ s.shown = Page(w)
                    \/ /\ stream[w].phase = "open"
                       /\ s.owner = stream[w].owner
                       /\ s.strayed = stream[w].strayed
                       /\ \/ /\ s = Received(stream[w])
                             /\ ~stream[w].due
                             /\ stream[w].lagged \/ stream[w].queue # <<>>
                          \/ s.shown = Page(w)
  <1>1. stream[w] \in Streams /\ Len(stream[w].queue) <= Capacity
        /\ stream \in [Watches -> Streams] /\ Page(w) \in Pages
    BY PageType DEF TypeOK
  <1>2. Closed \in Streams /\ Len(Closed.queue) <= Capacity /\ Closed.phase = "closed"
    BY ClosedType, ProfileAssumption DEF Closed
  <1>3. CASE Subscribe(w)
    <2> DEFINE s == [stream[w] EXCEPT !.phase = "subscribed"]
    <2>1. stream' = [stream EXCEPT ![w] = s]
      BY <1>1, <1>3 DEF Subscribe
    <2>2. s \in Streams /\ s.queue = stream[w].queue /\ s.phase # "open"
      BY <1>1 DEF Streams
    <2> QED
      BY <1>1, <2>1, <2>2
  <1>4. CASE Open(w) /\ Page(w).found
    <2>1. PICK a \in Accounts :
            /\ handle[a] = w[2]
            /\ stream' = [stream EXCEPT ![w].phase = "open", ![w].owner = a,
                                        ![w].shown = Page(w)]
      BY <1>4 DEF Open
    <2> DEFINE s == [stream[w] EXCEPT !.phase = "open", !.owner = a, !.shown = Page(w)]
    <2>2. stream' = [stream EXCEPT ![w] = s]
      BY <1>1, <2>1
    <2>3. /\ s \in Streams /\ s.owner = a /\ s.shown = Page(w)
          /\ s.queue = stream[w].queue
      BY <1>1 DEF Streams
    <2>4. stream[w].phase = "subscribed"
      BY <1>4 DEF Open
    <2> QED
      BY <1>1, <2>1, <2>2, <2>3, <2>4
  <1>5. CASE Open(w) /\ ~Page(w).found
    BY <1>2, <1>5 DEF Open
  <1>6. CASE Receive(w)
    <2>1. stream' = [stream EXCEPT ![w] = Received(stream[w])]
      BY <1>6 DEF Receive, Received
    <2>2. stream[w].lagged \/ stream[w].queue # <<>>
      BY <1>6 DEF Receive
    <2>3. stream[w].phase = "open" /\ ~stream[w].due
      BY <1>6 DEF Receive
    <2> QED
      BY <1>1, <2>1, <2>2, <2>3, ReceivedEffect
  <1>7. CASE Rerender(w)
    <2> DEFINE s == [stream[w] EXCEPT !.due = FALSE, !.shown = Page(w),
                                      !.missed = FALSE]
    <2>1. stream' = [stream EXCEPT ![w] = s]
      BY <1>1, <1>7 DEF Rerender
    <2>2. /\ s \in Streams /\ s.shown = Page(w) /\ s.queue = stream[w].queue
          /\ s.owner = stream[w].owner /\ s.strayed = stream[w].strayed
      BY <1>1 DEF Streams
    <2>3. stream[w].phase = "open"
      BY <1>7 DEF Rerender
    <2> QED
      BY <1>1, <2>1, <2>2, <2>3
  <1>8. CASE Close(w)
    BY <1>2, <1>8 DEF Close
  <1> QED
    BY <1>3, <1>4, <1>5, <1>6, <1>7, <1>8 DEF Streaming

LEMMA StreamingType ==
    ASSUME TypeOK, NEW w \in Watches, Streaming(w)
    PROVE  TypeOK' /\ UNCHANGED <<contentVars, notice>>
  <1>1. UNCHANGED <<contentVars, notice>>
    BY DEF Streaming, Subscribe, Open, Receive, Rerender, Close
  <1>2. ContentOK /\ HandlesOK /\ NoticesOK /\ StreamsOK
    BY TypeParts
  <1>3. ContentOK' /\ NoticesOK' /\ HandlesOK'
    BY <1>1, <1>2 DEF ContentOK, NoticesOK, HandlesOK, contentVars
  <1>4. StreamsOK'
    <2>1. PICK s \in Streams : /\ stream' = [stream EXCEPT ![w] = s]
                               /\ Len(s.queue) <= Capacity
      BY StreamingEffect
    <2> QED
      BY <1>2, <2>1 DEF StreamsOK
  <1>5. (TypeOK <=> ContentOK /\ HandlesOK /\ NoticesOK /\ StreamsOK)'
    BY TypeParts, PTL
  <1> QED
    BY <1>1, <1>3, <1>4, <1>5

\* Every variable keeps its type; no two accounts have one handle, however
\* handles change hands (claim_handle), and no stream is more than Capacity
\* changes behind, however slowly its browser reads (notify_profiles).
THEOREM TypeCorrect == Spec => []TypeOK
  <1>1. ASSUME TypeOK, Next PROVE TypeOK'
    BY <1>1, NextParts, MutateType, ClaimType, NotifyType, StreamingType
  <1>2. ASSUME TypeOK, UNCHANGED vars PROVE TypeOK'
    BY <1>2 DEF TypeOK, vars, contentVars
  <1>3. TypeOK /\ [Next]_vars => TypeOK'
    BY <1>1, <1>2
  <1> QED
    BY InitType, <1>3, PTL DEF Spec

-----------------------------------------------------------------------------
(* What a page shows depends on one account.                               *)

\* The handle of the page is o's, and o lets the viewer see it.
Holds(w, o) ==
    /\ o \in Accounts
    /\ handle[o] = w[2]
    /\ o \in privateOnly => w[1] = o

\* The page when nobody but o has the handle.
PageOf(w, o) ==
    [found   |-> Holds(w, o),
     entries |-> {e \in Entries :
                    Holds(w, o) /\ Listed(w[1], o, e.from) /\ resource = e.item}]

\* Nobody but the account the stream listens for has its handle.
SoleHolder(w, o) == \A b \in Accounts : handle[b] = w[2] => b = o

LEMMA OneAccountPage ==
    \A w \in Watches, o \in Accounts \cup {Anonymous} :
        SoleHolder(w, o) => Page(w) = PageOf(w, o)
  <1> SUFFICES ASSUME NEW w \in Watches, NEW o \in Accounts \cup {Anonymous},
                      SoleHolder(w, o)
               PROVE  Page(w) = PageOf(w, o)
    OBVIOUS
  <1> DEFINE Visible(a) == handle[a] = w[2] /\ (a \in privateOnly => w[1] = a)
  <1>1. \A a \in Accounts : Visible(a) <=> a = o /\ Holds(w, o)
    BY DEF SoleHolder, Holds
  <1>2. Holds(w, o) => o \in Accounts
    BY DEF Holds
  <1>3. Page(w) = [found   |-> \E a \in Accounts : Visible(a),
                   entries |-> {e \in Entries : \E a \in Accounts :
                                  /\ Visible(a)
                                  /\ Listed(w[1], a, e.from)
                                  /\ resource = e.item}]
    BY DEF Page
  <1> HIDE DEF Visible
  <1>4. (\E a \in Accounts : Visible(a)) <=> Holds(w, o)
    BY <1>1, <1>2
  <1>5. ASSUME NEW e \in Entries
        PROVE  (\E a \in Accounts :
                    Visible(a) /\ Listed(w[1], a, e.from) /\ resource = e.item)
               <=> Holds(w, o) /\ Listed(w[1], o, e.from) /\ resource = e.item
    BY <1>1, <1>2
  <1> QED
    BY <1>3, <1>4, <1>5 DEF PageOf, Holds

LEMMA OneAccountPageNext ==
    (\A w \in Watches, o \in Accounts \cup {Anonymous} :
        SoleHolder(w, o) => Page(w) = PageOf(w, o))'
  BY OneAccountPage, PTL

\* An open page whose owner is not notified, and which is not marked, lists
\* nothing for the accounts that a handler told.
LEMMA Spared ==
    ASSUME NEW h, NEW accounts, Told(h, accounts), NEW w \in Watches,
           stream[w].phase = "open", stream[w].owner \notin notice'[h],
           ~stream'[w].missed, stream[w].owner \in accounts
    PROVE  stream[w].owner # Host /\ stream[w].owner # w[1]
  BY DEF Told, ListsFor

\* A handler changes what a page shows only when it will notify the owner of the
\* page, or marks the page.
LEMMA MutatePage ==
    ASSUME TypeOK, NEW h \in Handlers, Mutates(h), NEW w \in Watches,
           NEW o, o = stream[w].owner,
           stream[w].phase = "open", o \notin notice'[h],
           ~stream'[w].missed
    PROVE  PageOf(w, o)' = PageOf(w, o)
  <1> DEFINE Same(e) == (Listed(w[1], o, e.from) /\ resource = e.item)'
                          <=> Listed(w[1], o, e.from) /\ resource = e.item
             Goal == Holds(w, o)' = Holds(w, o) /\ \A e \in Entries : Same(e)
  <1>1. handle' = handle
    BY MutateEffect DEF Effect
  <1>2. ASSUME UNCHANGED privateOnly, accepted' \subseteq accepted,
               Told(h, {Host} \cup accepted')
               /\ Told(h, accepted \ accepted')
        PROVE  Goal
    <2>1. o # Host /\ ~(o = w[1] /\ w[1] \in accepted) /\ ~(o = w[1] /\ w[1] \in accepted')
      BY <1>2, Spared
    <2>2. Holds(w, o)' = Holds(w, o)
      BY <1>1, <1>2 DEF Holds
    <2>3. \A f : ~Listed(w[1], o, f) /\ ~Listed(w[1], o, f)'
      BY <2>1 DEF Listed
    <2> QED
      BY <2>2, <2>3
  <1>3. ASSUME NEW visibility \in Visibilities, NEW url \in Urls,
               NEW viewers \in SUBSET (Accounts \ {Host}),
               \/ CreateResource(h, visibility, url, viewers)
               \/ CreateResourceFails(visibility, url, viewers)
        PROVE  Goal
    BY <1>2, <1>3, CreateEffect
  <1>4. ASSUME UNCHANGED privateOnly, accepted' \subseteq accepted,
               Told(h, {Host} \cup accepted)
        PROVE  Goal
    <2>1. o # Host /\ ~(o = w[1] /\ w[1] \in accepted)
      BY <1>4, Spared
    <2>2. Holds(w, o)' = Holds(w, o)
      BY <1>1, <1>4 DEF Holds
    <2>3. \A f : ~Listed(w[1], o, f) /\ ~Listed(w[1], o, f)'
      BY <1>4, <2>1 DEF Listed
    <2> QED
      BY <2>2, <2>3
  <1>5. ASSUME NEW viewers \in SUBSET (Accounts \ {Host}), SetResourceShares(h, viewers)
        PROVE  Goal
    BY <1>4, <1>5, SharesEffect
  <1>6. ASSUME DeleteResource(h)
        PROVE  Goal
    BY <1>4, <1>6, DeleteEffect
  <1>7. ASSUME NEW v \in Accounts \ {Host}, AcceptShare(h, v) \/ DeclineShare(h, v)
        PROVE  Goal
    <2>1. /\ UNCHANGED <<resource, privateOnly>>
          /\ \A x : x # v => (x \in accepted' <=> x \in accepted)
          /\ Told(h, {v, Host})
      BY <1>7, DecisionEffect
    <2>2. o # Host /\ ~(o = v /\ o = w[1])
      BY <2>1, Spared
    <2>3. Holds(w, o)' = Holds(w, o)
      BY <1>1, <2>1 DEF Holds
    <2>4. \A f : Listed(w[1], o, f)' <=> Listed(w[1], o, f)
      BY <1>1, <2>1, <2>2 DEF Listed, CanView
    <2> QED
      BY <2>1, <2>3, <2>4
  <1>8. ASSUME NEW a \in Accounts, NEW on \in BOOLEAN, SetProfileSettings(h, a, on)
        PROVE  Goal
    <2>1. /\ notice'[h] = {a}
          /\ \A x : x # a => (x \in privateOnly' <=> x \in privateOnly)
          /\ resource' = resource /\ accepted' = accepted
      BY <1>8, SettingsEffect
    <2>2. Holds(w, o)' = Holds(w, o)
      BY <1>1, <2>1 DEF Holds
    <2>3. \A f : Listed(w[1], o, f)' <=> Listed(w[1], o, f)
      BY <1>1, <2>1 DEF Listed, CanView
    <2> QED
      BY <2>1, <2>2, <2>3
  <1>9. Goal
    BY <1>3, <1>5, <1>6, <1>7, <1>8 DEF Mutates
  <1> QED
    BY <1>9 DEF PageOf

\* So does a claim of a handle: it shows on the claimant's pages, and with the
\* entries of those who share what the claimant owns.
LEMMA ClaimPage ==
    ASSUME TypeOK, NEW h \in Handlers, NEW a \in Accounts, NEW name \in Handles,
           ClaimHandle(h, a, name), NEW w \in Watches,
           NEW o, o = stream[w].owner,
           stream[w].phase = "open", o \notin notice'[h],
           ~stream'[w].missed
    PROVE  PageOf(w, o)' = PageOf(w, o)
  <1>1. o # a /\ w \notin PagesNaming(a)
    BY ClaimEffect DEF OwnPages
  <1>2. \A b \in Accounts \ {a} : handle'[b] = handle[b]
    BY DEF TypeOK, ClaimHandle
  <1>3. UNCHANGED <<resource, accepted, privateOnly>>
    BY DEF ClaimHandle
  <1>4. Holds(w, o)' = Holds(w, o)
    BY <1>1, <1>2, <1>3 DEF Holds
  <1>5. \A f : Listed(w[1], o, f)' <=> Listed(w[1], o, f)
    <2>1. CASE a = Host
      <3>1. o # Host /\ ~(o = w[1] /\ w[1] \in accepted)
        BY <1>1, <2>1 DEF PagesNaming, ListsFor
      <3> QED
        BY <1>3, <3>1 DEF Listed
    <2>2. CASE a # Host
      <3>1. handle'[Host] = handle[Host]
        BY <1>2, <2>2, ProfileAssumption
      <3> QED
        BY <1>3, <3>1 DEF Listed, CanView
    <2> QED
      BY <2>1, <2>2
  <1> QED
    BY <1>3, <1>4, <1>5 DEF PageOf

-----------------------------------------------------------------------------
(* An open page shows what its viewer would get, or it is going to be told.*)

HandleInv ==
    \A w \in Watches :
        stream[w].phase = "open" /\ ~stream[w].strayed =>
            SoleHolder(w, stream[w].owner)

\* A change to what w shows is on its way: the stream renders next, has lagged,
\* has the change in its queue, or a handler is about to send it.
OnItsWay(w) ==
    \/ stream[w].due
    \/ stream[w].lagged
    \/ \E i \in 1 .. Len(stream[w].queue) : stream[w].owner \in stream[w].queue[i]
    \/ \E h \in Handlers : stream[w].owner \in notice[h]

PageInv ==
    \A w \in Watches :
        stream[w].phase = "open" =>
            Excused(w) \/ OnItsWay(w) \/ stream[w].shown = Page(w)

\* PageInv is inductive only with HandleInv: what other accounts do would
\* otherwise change the page, and only the owner's changes are heard of.
StreamInv == TypeOK /\ HandleInv /\ PageInv

LEMMA InitStreams == Init => StreamInv
  <1>1. Init => \A w \in Watches : stream[w].phase = "closed"
    BY DEF Init, Closed
  <1> QED
    BY <1>1, InitType DEF StreamInv, HandleInv, PageInv

\* What a handler does to the content, with the streams where they were.
LEMMA MutateStreams ==
    ASSUME StreamInv, NEW h \in Handlers, Mutates(h)
    PROVE  StreamInv'
  <1>1. TypeOK' /\ TypeOK /\ UNCHANGED handle
    BY MutateType, MutateEffect DEF StreamInv, Effect
  <1>2. \A g \in Handlers : notice'[g] = notice[g] \/ (g = h /\ notice[h] = {})
    BY <1>1, MutateEffect DEF Effect
  <1>3. \A w \in Watches : Marks(w)
    BY <1>1, MutateEffect DEF Effect
  <1>4. HandleInv'
    BY <1>1, <1>3 DEF StreamInv, HandleInv, SoleHolder, Marks
  <1>5. ASSUME NEW w \in Watches, stream'[w].phase = "open"
        PROVE  Excused(w)' \/ OnItsWay(w)' \/ stream'[w].shown = Page(w)'
    <2>0. PICK o : o = stream[w].owner
      OBVIOUS
    <2>1. /\ stream'[w].owner = o /\ stream[w].phase = "open"
          /\ stream'[w].queue = stream[w].queue /\ stream'[w].due = stream[w].due
          /\ stream'[w].lagged = stream[w].lagged /\ stream'[w].shown = stream[w].shown
          /\ stream'[w].strayed = stream[w].strayed
          /\ stream[w].missed => stream'[w].missed
      BY <1>3, <1>5, <2>0 DEF Marks
    <2>2. Excused(w) => Excused(w)'
      BY <2>1 DEF Excused
    <2>3. OnItsWay(w) => OnItsWay(w)'
      BY <1>2, <2>0, <2>1 DEF OnItsWay
    <2>4. o \in notice'[h] => OnItsWay(w)'
      BY <2>1 DEF OnItsWay
    <2>5. o \in Accounts \cup {Anonymous}
      BY <1>1, <2>0 DEF TypeOK, Streams
    <2>6. ASSUME ~Excused(w)', o \notin notice'[h], stream[w].shown = Page(w)
          PROVE  stream'[w].shown = Page(w)'
      <3>1. ~stream[w].strayed /\ ~stream'[w].missed
        BY <2>1, <2>6 DEF Excused
      <3>2. SoleHolder(w, o) /\ SoleHolder(w, o)'
        BY <1>1, <2>0, <2>1, <3>1 DEF StreamInv, HandleInv, SoleHolder
      <3>3. PageOf(w, o)' = PageOf(w, o)
        BY <1>1, <2>0, <2>1, <2>6, <3>1, MutatePage
      <3>4. Page(w) = PageOf(w, o)
        BY <2>5, <3>2, OneAccountPage
      <3>5. Page(w)' = PageOf(w, o)'
        BY <2>5, <3>2, OneAccountPageNext
      <3> QED
        BY <2>1, <2>6, <3>3, <3>4, <3>5
    <2> QED
      BY <2>1, <2>2, <2>3, <2>4, <2>6 DEF StreamInv, PageInv
  <1> QED
    BY <1>1, <1>4, <1>5 DEF StreamInv, PageInv

LEMMA ClaimStreams ==
    ASSUME StreamInv, NEW h \in Handlers, NEW a \in Accounts, NEW name \in Handles,
           ClaimHandle(h, a, name)
    PROVE  StreamInv'
  <1>1. TypeOK' /\ TypeOK
    BY ClaimType DEF StreamInv
  <1>2. /\ \A g \in Handlers : notice'[g] = notice[g] \/ (g = h /\ notice[h] = {})
        /\ handle' = [handle EXCEPT ![a] = name]
    <2>1. notice \in [Handlers -> SUBSET Accounts]
      BY <1>1 DEF TypeOK
    <2> QED
      BY <2>1 DEF ClaimHandle, Announce
  <1>3. ASSUME NEW w \in Watches, stream'[w].phase = "open", ~stream'[w].strayed
        PROVE  /\ SoleHolder(w, stream[w].owner)
               /\ SoleHolder(w, stream[w].owner)'
    <2>1. /\ stream[w].phase = "open" /\ stream'[w].owner = stream[w].owner
          /\ ~stream[w].strayed
          /\ w[2] = name => stream[w].owner = a
      BY <1>1, <1>3, ClaimEffect DEF Strays
    <2>2. SoleHolder(w, stream[w].owner)
      BY <2>1 DEF StreamInv, HandleInv
    <2>3. \A b \in Accounts : handle'[b] = IF b = a THEN name ELSE handle[b]
      BY <1>1, <1>2 DEF TypeOK
    <2> QED
      BY <2>1, <2>2, <2>3 DEF SoleHolder
  <1>4. HandleInv'
    BY <1>3 DEF HandleInv
  <1>5. ASSUME NEW w \in Watches, stream'[w].phase = "open"
        PROVE  Excused(w)' \/ OnItsWay(w)' \/ stream'[w].shown = Page(w)'
    <2>0. PICK o : o = stream[w].owner
      OBVIOUS
    <2>1. /\ stream'[w].owner = o /\ stream[w].phase = "open"
          /\ stream'[w].queue = stream[w].queue /\ stream'[w].due = stream[w].due
          /\ stream'[w].lagged = stream[w].lagged /\ stream'[w].shown = stream[w].shown
          /\ stream[w].strayed => stream'[w].strayed
          /\ stream[w].missed => stream'[w].missed
      BY <1>1, <1>5, <2>0, ClaimEffect
    <2>2. Excused(w) => Excused(w)'
      BY <2>1 DEF Excused
    <2>3. OnItsWay(w) => OnItsWay(w)'
      BY <1>2, <2>0, <2>1 DEF OnItsWay
    <2>4. o \in notice'[h] => OnItsWay(w)'
      BY <2>1 DEF OnItsWay
    <2>5. o \in Accounts \cup {Anonymous}
      BY <1>1, <2>0 DEF TypeOK, Streams
    <2>6. ASSUME ~Excused(w)', o \notin notice'[h], stream[w].shown = Page(w)
          PROVE  stream'[w].shown = Page(w)'
      <3>1. ~stream'[w].strayed /\ ~stream'[w].missed
        BY <2>6 DEF Excused
      <3>2. SoleHolder(w, o) /\ SoleHolder(w, o)'
        BY <1>3, <1>5, <2>0, <2>1, <3>1 DEF SoleHolder
      <3>3. PageOf(w, o)' = PageOf(w, o)
        BY <1>1, <2>0, <2>1, <2>6, <3>1, ClaimPage
      <3>4. Page(w) = PageOf(w, o)
        BY <2>5, <3>2, OneAccountPage
      <3>5. Page(w)' = PageOf(w, o)'
        BY <2>5, <3>2, OneAccountPageNext
      <3> QED
        BY <2>1, <2>6, <3>3, <3>4, <3>5
    <2> QED
      BY <2>1, <2>2, <2>3, <2>4, <2>5, <2>6 DEF StreamInv, PageInv
  <1> QED
    BY <1>1, <1>4, <1>5 DEF StreamInv, PageInv

LEMMA NotifyStreams ==
    ASSUME StreamInv, NEW h \in Handlers, Notify(h)
    PROVE  StreamInv'
  <1>1. TypeOK' /\ TypeOK
    BY NotifyType DEF StreamInv
  <1>2. /\ UNCHANGED <<resource, accepted, privateOnly, handle>>
        /\ notice[h] \subseteq Accounts
        /\ notice'[h] = {} /\ \A g \in Handlers \ {h} : notice'[g] = notice[g]
    BY <1>1 DEF TypeOK, Notify, contentVars
  <1>3. ASSUME NEW w \in Watches, stream'[w].phase = "open"
        PROVE  /\ stream[w].phase = "open"
               /\ stream'[w] = Queued(stream[w], notice[h])
               /\ stream[w] \in Streams /\ Len(stream[w].queue) <= Capacity
    <2>1. stream[w] \in Streams /\ Len(stream[w].queue) <= Capacity
      BY <1>1 DEF TypeOK
    <2>2. stream[w].phase # "closed" /\ stream'[w] = Queued(stream[w], notice[h])
      BY <1>3 DEF Notify
    <2> QED
      BY <1>2, <1>3, <2>1, <2>2, QueuedEffect
  <1>4. HandleInv'
    BY <1>2, <1>3, QueuedEffect DEF StreamInv, HandleInv, SoleHolder
  <1>5. ASSUME NEW w \in Watches, stream'[w].phase = "open"
        PROVE  Excused(w)' \/ OnItsWay(w)' \/ stream'[w].shown = Page(w)'
    <2> DEFINE s == stream[w]
               t == stream'[w]
    <2>1. /\ s.phase = "open" /\ t.owner = s.owner /\ t.strayed = s.strayed
          /\ t.missed = s.missed /\ t.due = s.due /\ t.shown = s.shown
          /\ s.lagged => t.lagged
          /\ ~t.lagged => t.queue = Append(s.queue, notice[h])
          /\ s.queue \in Seq(SUBSET Accounts)
      BY <1>2, <1>3, <1>5, QueuedEffect DEF Streams
    <2>2. Page(w)' = Page(w)
      BY <1>2 DEF Page, Listed, CanView
    <2>3. s.owner \in notice[h] => OnItsWay(w)'
      <3>1. ~t.lagged => /\ Len(s.queue) + 1 \in 1 .. Len(t.queue)
                         /\ t.queue[Len(s.queue) + 1] = notice[h]
        BY <1>2, <2>1
      <3> QED
        BY <2>1, <3>1 DEF OnItsWay
    <2>4. Excused(w) => Excused(w)'
      BY <2>1 DEF Excused
    <2>5. OnItsWay(w) => OnItsWay(w)'
      <3>1. ASSUME NEW i \in 1 .. Len(s.queue), s.owner \in s.queue[i]
            PROVE  OnItsWay(w)'
        <4>1. ~t.lagged => i \in 1 .. Len(t.queue) /\ t.queue[i] = s.queue[i]
          BY <1>2, <2>1
        <4> QED
          BY <2>1, <3>1, <4>1 DEF OnItsWay
      <3>2. ASSUME NEW g \in Handlers, s.owner \in notice[g]
            PROVE  OnItsWay(w)'
        BY <1>2, <2>1, <2>3, <3>2 DEF OnItsWay
      <3> QED
        BY <2>1, <3>1, <3>2 DEF OnItsWay
    <2> QED
      BY <2>1, <2>2, <2>4, <2>5 DEF StreamInv, PageInv
  <1> QED
    BY <1>1, <1>4, <1>5 DEF StreamInv, PageInv

LEMMA StreamingStreams ==
    ASSUME StreamInv, NEW w \in Watches, Streaming(w)
    PROVE  StreamInv'
  <1>1. TypeOK' /\ TypeOK /\ UNCHANGED <<contentVars, notice>>
    BY StreamingType DEF StreamInv
  <1>2. UNCHANGED <<resource, accepted, privateOnly, handle, notice>>
    BY <1>1 DEF contentVars
  <1>3. PICK s \in Streams :
          /\ stream' = [stream EXCEPT ![w] = s]
          /\ s.phase = "open" =>
                \/ /\ stream[w].phase = "subscribed"
                   /\ s.owner \in Accounts
                   /\ handle[s.owner] = w[2]
                   /\ s.shown = Page(w)
                \/ /\ stream[w].phase = "open"
                   /\ s.owner = stream[w].owner
                   /\ s.strayed = stream[w].strayed
                   /\ \/ /\ s = Received(stream[w])
                         /\ ~stream[w].due
                         /\ stream[w].lagged \/ stream[w].queue # <<>>
                      \/ s.shown = Page(w)
    BY <1>1, StreamingEffect
  <1>4. /\ stream'[w] = s
        /\ \A x \in Watches \ {w} : stream'[x] = stream[x]
    BY <1>1, <1>3 DEF TypeOK
  <1>5. \A x \in Watches : Page(x)' = Page(x)
    BY <1>2 DEF Page, Listed, CanView
  <1>6. HandleInv'
    <2>1. ASSUME s.phase = "open", ~s.strayed
          PROVE  SoleHolder(w, s.owner)
      <3>1. CASE /\ stream[w].phase = "subscribed"
                 /\ s.owner \in Accounts
                 /\ handle[s.owner] = w[2]
        <4>1. w[2] # NoHandle
          BY ProfileAssumption
        <4> QED
          BY <1>1, <3>1, <4>1 DEF TypeOK, SoleHolder
      <3>2. CASE /\ stream[w].phase = "open"
                 /\ s.owner = stream[w].owner
                 /\ s.strayed = stream[w].strayed
        BY <2>1, <3>2 DEF StreamInv, HandleInv
      <3> QED
        BY <1>3, <2>1, <3>1, <3>2
    <2>2. ASSUME NEW x \in Watches, stream'[x].phase = "open", ~stream'[x].strayed
          PROVE  SoleHolder(x, stream'[x].owner)
      BY <1>4, <2>1, <2>2 DEF StreamInv, HandleInv
    <2> QED
      BY <1>2, <2>2 DEF HandleInv, SoleHolder
  <1>7. ASSUME NEW x \in Watches, stream'[x].phase = "open"
        PROVE  Excused(x)' \/ OnItsWay(x)' \/ stream'[x].shown = Page(x)'
    <2>1. CASE x # w
      <3>1. stream'[x] = stream[x]
        BY <1>4, <2>1
      <3> QED
        BY <1>2, <1>5, <1>7, <3>1 DEF StreamInv, PageInv, Excused, OnItsWay
    <2>2. CASE x = w /\ s.shown = Page(w)
      BY <1>4, <1>5, <2>2
    <2>3. CASE /\ x = w /\ s = Received(stream[w]) /\ ~stream[w].due
               /\ stream[w].lagged \/ stream[w].queue # <<>>
               /\ stream[w].phase = "open" /\ s.strayed = stream[w].strayed
               /\ s.owner = stream[w].owner
      <3> DEFINE r == stream[w]
      <3>1. /\ r.lagged \/ r.queue # <<>>
            /\ r \in Streams /\ Len(r.queue) <= Capacity
        BY <1>1, <2>3 DEF TypeOK
      <3>2. /\ s.shown = r.shown /\ r.queue \in Seq(SUBSET Accounts)
            /\ r.lagged => s.due
            /\ ~r.lagged => s.queue = Tail(r.queue)
            /\ ~r.lagged /\ r.owner \in Head(r.queue) => s.due
        BY <2>3, <3>1, ReceivedEffect DEF Streams
      <3>3. Excused(w) => Excused(w)'
        BY <1>4, <2>3, <3>1, ReceivedEffect DEF Excused
      <3>4. s.due => OnItsWay(w)'
        BY <1>4 DEF OnItsWay
      <3>5. ASSUME ~r.lagged, NEW i \in 1 .. Len(r.queue), r.owner \in r.queue[i]
            PROVE  OnItsWay(w)'
        <4>1. CASE i = 1
          BY <3>2, <3>4, <3>5, <4>1
        <4>2. CASE i # 1
          <5>1. i - 1 \in 1 .. Len(s.queue) /\ s.queue[i - 1] = r.queue[i]
            <6>1. \A q \in Seq(SUBSET Accounts) : \A j \in 1 .. Len(q) :
                    j # 1 => j - 1 \in 1 .. Len(Tail(q)) /\ Tail(q)[j - 1] = q[j]
              OBVIOUS
            <6> HIDE DEF r
            <6> QED
              BY <3>2, <3>5, <4>2, <6>1
          <5> QED
            BY <1>4, <2>3, <3>5, <5>1 DEF OnItsWay
        <4> QED
          BY <4>1, <4>2
      <3>6. OnItsWay(w) => OnItsWay(w)'
        <4>1. ASSUME NEW h \in Handlers, r.owner \in notice[h]
              PROVE  OnItsWay(w)'
          BY <1>2, <1>4, <2>3, <4>1 DEF OnItsWay
        <4> QED
          BY <2>3, <3>2, <3>4, <3>5, <4>1 DEF OnItsWay
      <3>7. Excused(w) \/ OnItsWay(w) \/ r.shown = Page(w)
        BY <2>3 DEF StreamInv, PageInv
      <3> QED
        BY <1>4, <1>5, <2>3, <3>2, <3>3, <3>6, <3>7
    <2> QED
      BY <1>3, <1>4, <1>7, <2>1, <2>2, <2>3
  <1> QED
    BY <1>1, <1>6, <1>7 DEF StreamInv, PageInv

LEMMA StreamStep == StreamInv /\ [Next]_vars => StreamInv'
  <1>1. ASSUME StreamInv, Next PROVE StreamInv'
    BY <1>1, NextParts, MutateStreams, ClaimStreams, NotifyStreams, StreamingStreams
  <1>2. ASSUME StreamInv, UNCHANGED vars PROVE StreamInv'
    BY <1>2 DEF StreamInv, TypeOK, HandleInv, PageInv, SoleHolder, Excused, OnItsWay,
                Page, Listed, CanView, vars, contentVars
  <1> QED
    BY <1>1, <1>2

\* When nothing is on its way an open page shows what its viewer would get by
\* reloading it, except where Excused says which handler left it behind:
\* profile_stream subscribes before its first snapshot and renders after a lag,
\* and every other handler notifies the accounts whose page it changed, for any
\* number of handlers between their lock and their notice and any capacity of
\* the channel.
THEOREM OpenPagesAreCurrent == Spec => []PageIsCurrent
  <1>1. StreamInv => PageIsCurrent
    <2>1. ASSUME TypeOK, NEW w \in Watches, Settled(w), OnItsWay(w)
          PROVE  FALSE
      <3>1. stream[w].due \in BOOLEAN /\ stream[w].lagged \in BOOLEAN
        BY <2>1 DEF TypeOK, Streams
      <3> QED
        BY <2>1, <3>1 DEF Settled, OnItsWay
    <2> QED
      BY <2>1 DEF StreamInv, PageInv, PageIsCurrent, Settled
  <1> QED
    BY InitStreams, StreamStep, <1>1, PTL DEF Spec
=============================================================================

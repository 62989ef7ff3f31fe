-------------------------------- MODULE Login --------------------------------
(***************************************************************************)
(* Signing in to the control plane with a browser (devsite-server/src/     *)
(* oidc.rs and the session functions of api.rs and db.rs): the OIDC        *)
(* authorization code flow with PKCE, the map of pending logins, the cached*)
(* signing keys of the provider, and browser sessions.                     *)
(*                                                                         *)
(* Concurrency.  A callback is a task: it takes its login out of the map,  *)
(* then awaits the token endpoint and, when the cached keys are too old,   *)
(* the key endpoint.  Between its awaits it is one action.  A browser has  *)
(* one login cookie; a response sets or clears it when it arrives.         *)
(*                                                                         *)
(* The provider (external) redeems a code for the login it was asked for   *)
(* only (the PKCE challenge), signs with its newest key and publishes that *)
(* key.  Who signs in there, and how often for one login, is open; so is   *)
(* the browser that opens the URL of a callback.  States are unguessable:  *)
(* only those that were handed out are presented.                          *)
(***************************************************************************)
EXTENDS RateLimits

CONSTANTS
    Browsers,
    Logins,      \* values of the state parameter
    Tasks,       \* slots for callbacks under way (bound)
    Nobody,      \* no login, no browser or no subject
    MaxPending,  \* MAX_PENDING_LOGINS (4096 in the code)
    AttemptTtl,  \* LOGIN_ATTEMPT_TTL_SECS (600 in the code)
    JwksTtl,     \* JWKS_TTL (600 seconds in the code)
    FetchTime,   \* timeout of the HTTP client (15 seconds in the code)
    MaxKey,      \* bound on the provider's changes of key
    MaxNow       \* bound on the clock

ASSUME LoginAssumption ==
    /\ Nobody \notin Browsers \cup Logins \cup Subjects
    /\ {MaxPending, AttemptTtl, JwksTtl} \subseteq Nat \ {0}
    /\ {FetchTime, MaxKey, MaxNow} \subseteq Nat

VARIABLES
    now,       \* seconds
    attempt,   \* history: every login begun: [browser, begun, state]
    pending,   \* logins in the server's map
    cookie,    \* login cookie of each browser
    key,       \* number of the provider's newest signing key
    changed,   \* history: when each key became the newest
    cache,     \* the server's copy: [key, stored], or key -1 when there is none
    task,      \* callbacks by slot
    windows,   \* rate windows of the class Session
    granted,   \* history: rows put into the table sessions
    lag        \* history: the longest that a key had been the newest when a login
               \* was refused because the server did not know it

providerVars == <<key, changed>>
grantVars == <<windows, granted, lag>>
vars == <<now, attempt, pending, cookie, providerVars, cache, task, grantVars>>

Unbegun == [browser |-> Nobody, begun |-> 0, state |-> "unbegun"]

Callbacks ==
    [phase : {"idle", "exchanging", "fetching", "fetched"},
     login : Logins \cup {Nobody}, browser : Browsers \cup {Nobody},
     subject : Subjects \cup {Nobody}, signed : 0 .. MaxKey, keys : 0 .. MaxKey,
     since : 0 .. MaxNow]

NoTask ==
    [phase |-> "idle", login |-> Nobody, browser |-> Nobody,
     subject |-> Nobody, signed |-> 0, keys |-> 0, since |-> 0]

NoCache == [key |-> -1, stored |-> 0]

NoWindows == [a \in {} |-> [started |-> 0, requests |-> 0]]

Init ==
    /\ now = 0
    /\ attempt = [l \in Logins |-> Unbegun]
    /\ pending = {}
    /\ cookie = [b \in Browsers |-> Nobody]
    /\ key = 0
    /\ changed = [k \in 0 .. MaxKey |-> 0]
    /\ cache = NoCache
    /\ task = [t \in Tasks |-> NoTask]
    /\ windows = NoWindows
    /\ granted = {}
    /\ lag = 0

Expires(l) == attempt[l].begun + AttemptTtl

-----------------------------------------------------------------------------
(* GET /auth/start.                                                        *)

\* Mutant: the youngest login makes room.
Youngest(kept) ==
    {l \in kept : \A m \in kept : Expires(m) <= Expires(l)}

\* min_by_key over a hash map: any login of the earliest second.
Oldest(kept) ==
    {l \in kept : \A m \in kept : Expires(l) <= Expires(m)}

\* The logins kept, and the ones a full map may lose.
Retained == {l \in pending : Expires(l) > now}

\* Mutant: the map may hold one login more.
EvictionsWhenOver ==
    IF Cardinality(Retained) > MaxPending
    THEN {{l} : l \in Oldest(Retained)}
    ELSE {{}}

Evictions ==
    IF Cardinality(Retained) >= MaxPending
    THEN {{l} : l \in Oldest(Retained)}
    ELSE {{}}

\* The other logins of browser b can no longer count on its cookie.
Disturbed(b, l) ==
    [m \in Logins |->
        IF m # l /\ attempt[m].browser = b /\ attempt[m].state = "alone"
        THEN [attempt[m] EXCEPT !.state = "disturbed"] ELSE attempt[m]]

Start(b, l) ==
    /\ attempt[l] = Unbegun
    /\ l = CHOOSE m \in Logins : attempt[m] = Unbegun
    /\ \E evicted \in Evictions : pending' = (Retained \ evicted) \cup {l}
    /\ attempt' = [Disturbed(b, l) EXCEPT ![l] =
           [browser |-> b, begun |-> now, state |-> "alone"]]
    /\ cookie' = [cookie EXCEPT ![b] = l]
    /\ UNCHANGED <<now, providerVars, cache, task, grantVars>>

-----------------------------------------------------------------------------
(* The provider.                                                           *)

ChangeKey ==
    /\ key < MaxKey
    /\ key' = key + 1
    /\ changed' = [changed EXCEPT ![key + 1] = now]
    /\ UNCHANGED <<now, attempt, pending, cookie, cache, task,
                   grantVars>>

-----------------------------------------------------------------------------
(* GET /auth/callback.                                                     *)

\* Mutant: the state is looked up without comparing it with the cookie.
KnownState(b, l) == attempt[l] # Unbegun

\* The cookie the browser sends names the login of the URL.
OwnState(b, l) == attempt[l] # Unbegun /\ cookie[b] = l

Clear(b) == cookie' = [cookie EXCEPT ![b] = Nobody]

\* A response to browser b clears its cookie, whichever login it is for.
Answered(b, l) ==
    /\ Clear(b)
    /\ attempt' = Disturbed(b, l)

\* The state is not the cookie's, or not pending: nothing is taken out.
Refuse(b, l) ==
    /\ attempt[l] # Unbegun
    /\ ~OwnState(b, l) \/ l \notin pending
    /\ Answered(b, l)
    /\ UNCHANGED <<now, pending, providerVars, cache, task, grantVars>>

\* The provider reported an error, or the login has expired: it is used up.
TooLate(b, l) ==
    /\ OwnState(b, l)
    /\ l \in pending
    /\ pending' = pending \ {l}
    /\ Clear(b)
    /\ attempt' = [Disturbed(b, l) EXCEPT ![l].state = "used"]
    /\ UNCHANGED <<now, providerVars, cache, task, grantVars>>

\* Mutant: the login is looked up and stays in the map.
AcceptAndKeep(t, b, l) ==
    /\ task[t] = NoTask
    /\ OwnState(b, l)
    /\ l \in pending
    /\ Expires(l) > now
    /\ attempt' = [attempt EXCEPT ![l].state = "used"]
    /\ task' = [task EXCEPT ![t] =
           [NoTask EXCEPT !.phase = "exchanging", !.login = l, !.browser = b]]
    /\ UNCHANGED <<now, pending, cookie, providerVars, cache, grantVars>>

Accept(t, b, l) ==
    /\ task[t] = NoTask
    /\ OwnState(b, l)
    /\ l \in pending
    /\ Expires(l) > now
    /\ pending' = pending \ {l}
    /\ attempt' = [attempt EXCEPT ![l].state = "used"]
    /\ task' = [task EXCEPT ![t] =
           [NoTask EXCEPT !.phase = "exchanging", !.login = l, !.browser = b]]
    /\ UNCHANGED <<now, cookie, providerVars, cache, grantVars>>

\* Mutant: keys are still used in the second their time is over.
FreshForOneMore == cache # NoCache /\ now - cache.stored <= JwksTtl

CacheFresh == cache # NoCache /\ now - cache.stored < JwksTtl

\* verify, establish_browser_session and the response, for subject s and a token
\* signed with key k, against the set of keys in hand.  No await is left: the
\* locks on the way guard tables that no other step reads in between.  The
\* cookie of the login is cleared on an error page as well.
Conclude(t, s, k, keys) ==
    LET r == task[t]
        known == keys = k
        admitted == known /\ Allowed(windows, s, now) IN
    /\ windows' = IF known THEN Checked(windows, s, now) ELSE windows
    /\ granted' = IF admitted
                  THEN granted \cup {[login |-> r.login, subject |-> s,
                                     browser |-> r.browser, at |-> now]}
                  ELSE granted
    /\ lag' = IF keys < k /\ now - changed[keys + 1] > lag
              THEN now - changed[keys + 1] ELSE lag
    /\ Answered(r.browser, r.login)
    /\ task' = [task EXCEPT ![t] = NoTask]

\* The token endpoint redeems a code for the verifier of its own login: the
\* token names s, whoever signed in with the URL of that login.  The cached
\* keys are used while they are fresh, and requested otherwise.
Exchange(t, s) ==
    /\ task[t].phase = "exchanging"
    /\ \/ CacheFresh /\ Conclude(t, s, key, cache.key)
       \/ /\ ~CacheFresh
          /\ task' = [task EXCEPT ![t] =
                 [@ EXCEPT !.phase = "fetching", !.subject = s, !.signed = key,
                           !.since = now]]
          /\ UNCHANGED <<attempt, cookie, grantVars>>
    /\ UNCHANGED <<now, pending, providerVars, cache>>

KeysAnswered(t) ==
    /\ task[t].phase = "fetching"
    /\ task' = [task EXCEPT ![t].phase = "fetched", ![t].keys = key]
    /\ UNCHANGED <<now, attempt, pending, cookie, providerVars, cache, grantVars>>

\* The set is stored with the time of now, over what another task stored.
StoreKeys(t) ==
    /\ task[t].phase = "fetched"
    /\ cache' = [key |-> task[t].keys, stored |-> now]
    /\ Conclude(t, task[t].subject, task[t].signed, task[t].keys)
    /\ UNCHANGED <<now, pending, providerVars>>

\* A request failed or timed out, or the code or the token is not for this
\* login.
Fail(t) ==
    LET r == task[t] IN
    /\ r # NoTask
    /\ Answered(r.browser, r.login)
    /\ task' = [task EXCEPT ![t] = NoTask]
    /\ UNCHANGED <<now, pending, providerVars, cache, grantVars>>

\* The browser is gone: the task is dropped at an await, nothing is answered.
Abandon(t) ==
    /\ task[t] # NoTask
    /\ task' = [task EXCEPT ![t] = NoTask]
    /\ UNCHANGED <<now, attempt, pending, cookie, providerVars, cache, grantVars>>

-----------------------------------------------------------------------------
\* The HTTP client gives up a request for the keys after its timeout.
Timely ==
    \A t \in Tasks :
        task[t].phase \in {"fetching", "fetched"} => now < task[t].since + FetchTime

Tick ==
    /\ now < MaxNow
    /\ Timely
    /\ now' = now + 1
    /\ UNCHANGED <<attempt, pending, cookie, providerVars, cache, task,
                   grantVars>>

Next ==
    \/ \E b \in Browsers, l \in Logins : Start(b, l) \/ Refuse(b, l) \/ TooLate(b, l)
    \/ ChangeKey
    \/ \E t \in Tasks :
           \/ \E b \in Browsers, l \in Logins : Accept(t, b, l)
           \/ \E s \in Subjects : Exchange(t, s)
           \/ KeysAnswered(t) \/ StoreKeys(t) \/ Fail(t) \/ Abandon(t)
    \/ Tick

Spec == Init /\ [][Next]_vars

-----------------------------------------------------------------------------
(* Properties.                                                             *)

\* Every variable keeps its type, and the map never holds more than it may.
TypeOK ==
    /\ now \in 0 .. MaxNow
    /\ attempt \in [Logins -> [browser : Browsers \cup {Nobody}, begun : 0 .. MaxNow,
              state : {"unbegun", "alone", "disturbed", "used"}]]
    /\ pending \subseteq Logins
    /\ Cardinality(pending) <= MaxPending
    /\ cookie \in [Browsers -> Logins \cup {Nobody}]
    /\ key \in 0 .. MaxKey
    /\ changed \in [0 .. MaxKey -> 0 .. MaxNow]
    /\ cache \in [key : -1 .. key, stored : 0 .. now]
    /\ task \in [Tasks -> Callbacks]
    /\ DOMAIN windows \subseteq Subjects
    /\ windows \in [DOMAIN windows -> [started : 0 .. MaxNow, requests : 0 .. Limit]]
    /\ granted \subseteq [login : Logins, subject : Subjects, browser : Browsers,
                          at : 0 .. MaxNow]
    /\ lag \in 0 .. MaxNow

\* oidc.rs:429 "State in the callback URL is visible to the browser that began
\* the login": a browser is only ever signed in by a login that it began itself,
\* wherever the URL of a callback is opened.
OwnLogin ==
    \A g \in granted : attempt[g.login].browser = g.browser

\* One login gives one session, however often its callback is opened and
\* however often somebody signs in for it at the provider.
LoginOnce ==
    \A g, h \in granted : g.login = h.login => g = h

\* Logins that were begun in the same second as l or later.
BegunSince(l) ==
    {m \in Logins \ {l} : attempt[m] # Unbegun /\ attempt[m].begun >= attempt[l].begun}

\* A login that is not too old can be completed: it is still in the map and its
\* browser still holds its cookie, unless that browser began another login or
\* had another callback answered, or MaxPending logins were begun since.
LoginSurvives ==
    \A l \in Logins :
        /\ attempt[l].state \in {"alone", "disturbed"}
        /\ now < Expires(l)
        =>
        /\ attempt[l].state = "alone" /\ l \in pending => cookie[attempt[l].browser] = l
        /\ l \in pending \/ Cardinality(BegunSince(l)) >= MaxPending

\* A login is refused because the server does not know the provider's key only
\* for a bounded time after that key came into use, although a slow answer may
\* overwrite a newer set of keys.
KeysAreRecent == lag < JwksTtl + FetchTime

\* Sessions given to account s from second t on, for the length of a window.
GivenFrom(s, t) ==
    {g \in granted : g.subject = s /\ g.at >= t /\ g.at < t + Window}

\* However its requests fall on the boundary of two windows and whatever pruning
\* does to the table, an account gets less than twice its limit of sessions in
\* any span as long as a window: a window begins with a session, so a span that
\* meets two of them has missed the first session of the earlier one.
SessionRate ==
    \A s \in Subjects, t \in 0 .. MaxNow :
        Cardinality(GivenFrom(s, t)) < 2 * Limit
=============================================================================

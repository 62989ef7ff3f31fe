----------------------------- MODULE Login_proof -----------------------------
(***************************************************************************)
(* Proofs about Login, for any browsers, logins, callbacks and accounts,   *)
(* and any values of the limits and times.                                 *)
(***************************************************************************)
EXTENDS Login, FiniteSetTheorems, TLAPS

-----------------------------------------------------------------------------
(* What the steps of several actions do.                                   *)

\* Login m is not touched, or can no longer count on the cookie.
Kept(m) ==
    /\ attempt'[m].browser = attempt[m].browser
    /\ attempt'[m].begun = attempt[m].begun
    /\ attempt'[m] = Unbegun <=> attempt[m] = Unbegun
    /\ \/ attempt'[m].state = attempt[m].state
       \/ attempt[m].state = "alone" /\ attempt'[m].state = "disturbed"

AttemptsType ==
    [Logins -> [browser : Browsers \cup {Nobody}, begun : 0 .. MaxNow,
                state : {"unbegun", "alone", "disturbed", "used"}]]

LEMMA DisturbedEffect ==
    ASSUME attempt \in AttemptsType, NEW b, NEW l
    PROVE  /\ Disturbed(b, l) \in AttemptsType
           /\ \A m \in Logins :
                /\ Disturbed(b, l)[m].browser = attempt[m].browser
                /\ Disturbed(b, l)[m].begun = attempt[m].begun
                /\ Disturbed(b, l)[m] = Unbegun <=> attempt[m] = Unbegun
                /\ Disturbed(b, l)[m].state =
                     IF m # l /\ attempt[m].browser = b /\ attempt[m].state = "alone"
                     THEN "disturbed" ELSE attempt[m].state
  <1>1. ASSUME NEW m \in Logins,
               m # l, attempt[m].browser = b, attempt[m].state = "alone"
        PROVE  /\ Disturbed(b, l)[m] = [attempt[m] EXCEPT !.state = "disturbed"]
               /\ Disturbed(b, l)[m] # Unbegun /\ attempt[m] # Unbegun
    BY <1>1 DEF Disturbed, AttemptsType, Unbegun
  <1>2. ASSUME NEW m \in Logins,
               ~(m # l /\ attempt[m].browser = b /\ attempt[m].state = "alone")
        PROVE  Disturbed(b, l)[m] = attempt[m]
    BY <1>2 DEF Disturbed
  <1>3. ASSUME NEW m \in Logins
        PROVE  /\ Disturbed(b, l)[m] \in [browser : Browsers \cup {Nobody},
                     begun : 0 .. MaxNow,
                     state : {"unbegun", "alone", "disturbed", "used"}]
               /\ Disturbed(b, l)[m].browser = attempt[m].browser
               /\ Disturbed(b, l)[m].begun = attempt[m].begun
               /\ Disturbed(b, l)[m] = Unbegun <=> attempt[m] = Unbegun
               /\ Disturbed(b, l)[m].state =
                     IF m # l /\ attempt[m].browser = b /\ attempt[m].state = "alone"
                     THEN "disturbed" ELSE attempt[m].state
    BY <1>1, <1>2, <1>3 DEF AttemptsType
  <1>4. Disturbed(b, l) = [m \in Logins |-> Disturbed(b, l)[m]]
    BY DEF Disturbed
  <1> QED
    BY <1>3, <1>4 DEF AttemptsType

\* A browser gets a response.
LEMMA AnsweredEffect ==
    ASSUME attempt \in AttemptsType, cookie \in [Browsers -> Logins \cup {Nobody}],
           NEW b, NEW l, Answered(b, l)
    PROVE  /\ attempt' \in AttemptsType
           /\ cookie' \in [Browsers -> Logins \cup {Nobody}]
           /\ \A m \in Logins : Kept(m)
           /\ \A c \in Browsers : cookie'[c] = IF c = b THEN Nobody ELSE cookie[c]
           /\ \A m \in Logins : m # l /\ attempt[m].browser = b =>
                  attempt'[m].state # "alone"
  <1>1. attempt' = Disturbed(b, l) /\ cookie' = [cookie EXCEPT ![b] = Nobody]
    BY DEF Answered, Clear
  <1>2. \A m \in Logins : Kept(m)
    BY <1>1, DisturbedEffect DEF Kept
  <1>3. ASSUME NEW m \in Logins, m # l, attempt[m].browser = b
        PROVE  attempt'[m].state # "alone"
    BY <1>1, <1>3, DisturbedEffect
  <1> QED
    BY <1>1, <1>2, <1>3, DisturbedEffect

-----------------------------------------------------------------------------
(* The rate windows.                                                       *)

Windows(w) ==
    /\ DOMAIN w \subseteq Subjects
    /\ w \in [DOMAIN w -> [started : 0 .. MaxNow, requests : 0 .. Limit]]

\* What RateLimits::check leaves behind for the account it is asked about, and
\* for the others.
LEMMA CheckedEffect ==
    ASSUME NEW w, Windows(w), NEW s \in Subjects, NEW at \in 0 .. MaxNow
    PROVE  /\ Windows(Checked(w, s, at))
           /\ s \in DOMAIN Checked(w, s, at)
           /\ Checked(w, s, at)[s] =
                IF s \in DOMAIN w /\ ~Over(w[s], at)
                THEN IF w[s].requests < Limit
                     THEN [w[s] EXCEPT !.requests = w[s].requests + 1] ELSE w[s]
                ELSE [started |-> at, requests |-> 1]
           /\ Allowed(w, s, at) <=>
                (s \in DOMAIN w /\ ~Over(w[s], at) => w[s].requests < Limit)
           /\ \A b \in Subjects \ {s} :
                /\ b \in DOMAIN Checked(w, s, at) =>
                       b \in DOMAIN w /\ Checked(w, s, at)[b] = w[b]
                /\ b \in DOMAIN w /\ b \notin DOMAIN Checked(w, s, at) => Over(w[b], at)
  <1> DEFINE kept == Pruned(w, at)
             cur == Current(kept, s, at)
             new == IF cur.requests < Limit
                    THEN [cur EXCEPT !.requests = cur.requests + 1] ELSE cur
  <1>1. /\ DOMAIN kept \subseteq DOMAIN w
        /\ \A b \in DOMAIN kept : kept[b] = w[b]
        /\ \A b \in DOMAIN w \ DOMAIN kept : Over(w[b], at)
        /\ kept = [b \in DOMAIN kept |-> kept[b]]
    BY DEF Pruned
  <1>2. cur = IF s \in DOMAIN w /\ ~Over(w[s], at)
              THEN w[s] ELSE [started |-> at, requests |-> 0]
    BY <1>1 DEF Current
  <1>3. cur \in [started : 0 .. MaxNow, requests : 0 .. Limit]
    BY <1>2, RateAssumption DEF Windows
  <1>4. new \in [started : 0 .. MaxNow, requests : 0 .. Limit]
    BY <1>3, RateAssumption
  <1>5. Checked(w, s, at) = [b \in DOMAIN kept \cup {s} |-> IF b # s THEN kept[b] ELSE new]
    BY DEF Checked
  <1>6. Windows(Checked(w, s, at))
    <2> HIDE DEF kept, cur, new
    <2> QED
      BY <1>1, <1>4, <1>5 DEF Windows
  <1>7. /\ s \in DOMAIN Checked(w, s, at)
        /\ Checked(w, s, at)[s] = new
        /\ \A b \in Subjects \ {s} :
             /\ b \in DOMAIN Checked(w, s, at) =>
                    b \in DOMAIN w /\ Checked(w, s, at)[b] = w[b]
             /\ b \in DOMAIN w /\ b \notin DOMAIN Checked(w, s, at) => Over(w[b], at)
    <2> HIDE DEF kept, cur, new
    <2> QED
      BY <1>1, <1>5
  <1>8. new = IF s \in DOMAIN w /\ ~Over(w[s], at)
              THEN IF w[s].requests < Limit
                   THEN [w[s] EXCEPT !.requests = w[s].requests + 1] ELSE w[s]
              ELSE [started |-> at, requests |-> 1]
    <2> HIDE DEF cur
    <2> QED
      BY <1>2, RateAssumption
  <1>9. Allowed(w, s, at) <=>
            (s \in DOMAIN w /\ ~Over(w[s], at) => w[s].requests < Limit)
    <2>1. Allowed(w, s, at) <=> cur.requests < Limit
      BY DEF Allowed
    <2> HIDE DEF cur
    <2> QED
      BY <1>2, <2>1, RateAssumption
  <1> HIDE DEF kept, cur, new
  <1> QED
    BY <1>6, <1>7, <1>8, <1>9

-----------------------------------------------------------------------------
(* Type correctness.                                                       *)

AttemptsOK ==
    /\ attempt \in AttemptsType
    /\ pending \subseteq Logins
    /\ IsFiniteSet(pending)
    /\ Cardinality(pending) <= MaxPending
    /\ cookie \in [Browsers -> Logins \cup {Nobody}]

KeysOK ==
    /\ now \in 0 .. MaxNow
    /\ key \in 0 .. MaxKey
    /\ changed \in [0 .. MaxKey -> 0 .. MaxNow]
    /\ cache \in [key : -1 .. key, stored : 0 .. now]

\* No callback has been given a key that the provider did not have yet.
TasksOK ==
    /\ task \in [Tasks -> Callbacks]
    /\ \A t \in Tasks : task[t].keys <= key /\ task[t].signed <= key

GrantsOK ==
    /\ Windows(windows)
    /\ granted \subseteq [login : Logins, subject : Subjects, browser : Browsers,
                          at : 0 .. MaxNow]
    /\ lag \in 0 .. MaxNow

\* A row of granted has the browser of its callback; that it has one is part of
\* the invariant.
Busy(t) == task[t].phase # "idle"

HoldersOK ==
    \A t \in Tasks :
        IF Busy(t)
        THEN /\ task[t].login \in Logins
             /\ task[t].browser \in Browsers
             /\ task[t].phase \in {"fetching", "fetched"} => task[t].subject \in Subjects
        ELSE task[t] = NoTask

TypeInv == AttemptsOK /\ KeysOK /\ TasksOK /\ GrantsOK /\ HoldersOK

LEMMA TypeInvOK == TypeInv => TypeOK
  BY DEF TypeInv, AttemptsOK, KeysOK, TasksOK, GrantsOK, AttemptsType, Windows, TypeOK

LEMMA Constants ==
    /\ MaxPending \in Nat \ {0} /\ AttemptTtl \in Nat \ {0} /\ JwksTtl \in Nat \ {0}
    /\ FetchTime \in Nat /\ MaxKey \in Nat /\ MaxNow \in Nat
    /\ Limit \in Nat \ {0} /\ Window \in Nat \ {0}
    /\ Nobody \notin Browsers \cup Logins \cup Subjects
  BY LoginAssumption, RateAssumption

LEMMA NoTaskType ==
    /\ NoTask \in Callbacks /\ NoTask.phase = "idle"
    /\ NoTask.keys = 0 /\ NoTask.signed = 0
  BY Constants DEF NoTask, Callbacks

LEMMA InitType == Init => TypeInv
  <1> SUFFICES ASSUME Init PROVE TypeInv
    OBVIOUS
  <1>1. AttemptsOK
    BY Constants, FS_EmptySet DEF Init, AttemptsOK, AttemptsType, Unbegun
  <1>2. KeysOK
    BY Constants DEF Init, KeysOK, NoCache
  <1>3. TasksOK
    BY Constants, NoTaskType DEF Init, TasksOK
  <1>4. GrantsOK
    BY Constants DEF Init, GrantsOK, Windows, NoWindows
  <1>5. HoldersOK
    BY NoTaskType DEF Init, HoldersOK, Busy
  <1> QED
    BY <1>1, <1>2, <1>3, <1>4, <1>5 DEF TypeInv

\* A task that ends or goes on, with the tables that tasks are judged by.
LEMMA OneTask ==
    ASSUME TasksOK, HoldersOK, KeysOK, key' = key,
           NEW t \in Tasks, NEW r \in Callbacks,
           task' = [task EXCEPT ![t] = r], r.keys <= key, r.signed <= key,
           \/ r = NoTask
           \/ /\ r.phase # "idle" /\ r.login \in Logins /\ r.browser \in Browsers
              /\ r.phase \in {"fetching", "fetched"} => r.subject \in Subjects
    PROVE  TasksOK' /\ HoldersOK'
  <1>1. \A u \in Tasks : task'[u] = IF u = t THEN r ELSE task[u]
    BY DEF TasksOK
  <1>2. TasksOK'
    BY <1>1 DEF TasksOK
  <1>3. HoldersOK'
    BY <1>1, NoTaskType DEF HoldersOK, Busy
  <1> QED
    BY <1>2, <1>3

LEMMA AddOne ==
    ASSUME NEW S, IsFiniteSet(S), NEW x
    PROVE  /\ IsFiniteSet(S \cup {x})
           /\ Cardinality(S) \in Nat
           /\ Cardinality(S \cup {x}) \in Nat
           /\ Cardinality(S \cup {x}) <= Cardinality(S) + 1
           /\ x \notin S => Cardinality(S \cup {x}) = Cardinality(S) + 1
  <1>1. Cardinality(S) \in Nat
    BY FS_CardinalityType
  <1>2. /\ IsFiniteSet(S \cup {x})
        /\ Cardinality(S \cup {x}) =
              IF x \in S THEN Cardinality(S) ELSE Cardinality(S) + 1
    BY FS_AddElement
  <1> QED
    BY <1>1, <1>2

\* A new login finds room in the map: one of the oldest is taken out when it is
\* full.
LEMMA StartRoom ==
    ASSUME AttemptsOK, NEW b \in Browsers, NEW l \in Logins, Start(b, l)
    PROVE  \E evicted :
              /\ pending' = (Retained \ evicted) \cup {l}
              /\ IsFiniteSet(Retained) /\ IsFiniteSet(pending')
              /\ Cardinality(pending') <= MaxPending
              /\ \/ evicted = {}
                 \/ \E m \in Oldest(Retained) :
                      evicted = {m} /\ Cardinality(Retained) = MaxPending
  <1>1. PICK evicted \in Evictions : pending' = (Retained \ evicted) \cup {l}
    BY DEF Start
  <1>2. /\ Retained \subseteq pending
        /\ IsFiniteSet(Retained) /\ Cardinality(Retained) \in Nat
        /\ Cardinality(Retained) <= MaxPending
    BY FS_Subset, FS_CardinalityType, Constants DEF AttemptsOK, Retained
  <1>3. CASE Cardinality(Retained) >= MaxPending
    <2>1. PICK m \in Oldest(Retained) : evicted = {m}
      BY <1>1, <1>3 DEF Evictions
    <2>2. m \in Retained
      BY <2>1 DEF Oldest
    <2>3. /\ IsFiniteSet(Retained \ {m})
          /\ Cardinality(Retained \ {m}) = Cardinality(Retained) - 1
      BY <1>2, <2>2, FS_RemoveElement
    <2>4. /\ IsFiniteSet((Retained \ {m}) \cup {l})
          /\ Cardinality((Retained \ {m}) \cup {l}) <= Cardinality(Retained)
      BY <1>2, <2>3, AddOne
    <2>5. Cardinality(Retained) = MaxPending
      BY <1>2, <1>3, Constants
    <2> QED
      BY <1>1, <1>2, <2>1, <2>4, <2>5
  <1>4. CASE ~(Cardinality(Retained) >= MaxPending)
    <2>1. evicted = {}
      BY <1>1, <1>4 DEF Evictions
    <2>2. /\ IsFiniteSet(Retained \cup {l})
          /\ Cardinality(Retained \cup {l}) \in Nat
          /\ Cardinality(Retained \cup {l}) <= Cardinality(Retained) + 1
      BY <1>2, AddOne
    <2>3. Cardinality(Retained \cup {l}) <= MaxPending
      BY <1>2, <1>4, <2>2, Constants
    <2> QED
      BY <1>1, <1>2, <2>1, <2>2, <2>3
  <1> QED
    BY <1>3, <1>4

\* What Start leaves of the logins and the cookies.
LEMMA StartEffect ==
    ASSUME attempt \in AttemptsType, now \in 0 .. MaxNow,
           cookie \in [Browsers -> Logins \cup {Nobody}],
           NEW b \in Browsers, NEW l \in Logins, Start(b, l)
    PROVE  /\ attempt' \in AttemptsType
           /\ cookie' \in [Browsers -> Logins \cup {Nobody}]
           /\ attempt[l] = Unbegun
           /\ attempt'[l] = [browser |-> b, begun |-> now, state |-> "alone"]
           /\ \A m \in Logins \ {l} : Kept(m)
           /\ \A c \in Browsers : cookie'[c] = IF c = b THEN l ELSE cookie[c]
           /\ \A m \in Logins \ {l} : attempt[m].browser = b =>
                  attempt'[m].state # "alone"
  <1> DEFINE r == [browser |-> b, begun |-> now, state |-> "alone"]
             d == Disturbed(b, l)
  <1>1. attempt' = [d EXCEPT ![l] = r] /\ cookie' = [cookie EXCEPT ![b] = l]
    BY DEF Start
  <1>2. attempt[l] = Unbegun
    BY DEF Start
  <1>3. r \in [browser : Browsers \cup {Nobody}, begun : 0 .. MaxNow,
               state : {"unbegun", "alone", "disturbed", "used"}]
    OBVIOUS
  <1>4. /\ d \in AttemptsType
        /\ \A m \in Logins :
             /\ d[m].browser = attempt[m].browser
             /\ d[m].begun = attempt[m].begun
             /\ d[m] = Unbegun <=> attempt[m] = Unbegun
             /\ d[m].state =
                  IF m # l /\ attempt[m].browser = b /\ attempt[m].state = "alone"
                  THEN "disturbed" ELSE attempt[m].state
    BY DisturbedEffect
  <1> HIDE DEF r, d
  <1>5. /\ attempt' \in AttemptsType
        /\ attempt'[l] = r
        /\ \A m \in Logins \ {l} : attempt'[m] = d[m]
    BY <1>1, <1>3, <1>4 DEF AttemptsType
  <1>6. \A m \in Logins \ {l} : Kept(m)
    BY <1>4, <1>5 DEF Kept
  <1>7. \A m \in Logins \ {l} : attempt[m].browser = b => attempt'[m].state # "alone"
    BY <1>4, <1>5
  <1>8. /\ cookie' \in [Browsers -> Logins \cup {Nobody}]
        /\ \A c \in Browsers : cookie'[c] = IF c = b THEN l ELSE cookie[c]
    BY <1>1
  <1> QED
    BY <1>2, <1>5, <1>6, <1>7, <1>8 DEF r

\* What TooLate and Accept leave of the login they use up.
UsedUp(l) ==
    /\ attempt' \in AttemptsType
    /\ attempt'[l].browser = attempt[l].browser
    /\ attempt'[l].begun = attempt[l].begun
    /\ attempt'[l].state = "used"
    /\ attempt[l] # Unbegun
    /\ \A m \in Logins \ {l} : Kept(m)

LEMMA TooLateEffect ==
    ASSUME attempt \in AttemptsType, cookie \in [Browsers -> Logins \cup {Nobody}],
           NEW b \in Browsers, NEW l \in Logins, TooLate(b, l)
    PROVE  /\ UsedUp(l)
           /\ cookie' \in [Browsers -> Logins \cup {Nobody}]
           /\ \A c \in Browsers : cookie'[c] = IF c = b THEN Nobody ELSE cookie[c]
           /\ \A m \in Logins \ {l} : attempt[m].browser = b =>
                  attempt'[m].state # "alone"
           /\ l \in pending /\ pending' = pending \ {l} /\ cookie[b] = l
  <1> DEFINE d == Disturbed(b, l)
  <1>1. /\ attempt' = [d EXCEPT ![l] = [d[l] EXCEPT !.state = "used"]]
        /\ cookie' = [cookie EXCEPT ![b] = Nobody]
        /\ l \in pending /\ pending' = pending \ {l} /\ cookie[b] = l
        /\ attempt[l] # Unbegun
    BY DEF TooLate, Clear, OwnState
  <1>2. /\ d \in AttemptsType
        /\ \A m \in Logins :
             /\ d[m].browser = attempt[m].browser
             /\ d[m].begun = attempt[m].begun
             /\ d[m] = Unbegun <=> attempt[m] = Unbegun
             /\ d[m].state =
                  IF m # l /\ attempt[m].browser = b /\ attempt[m].state = "alone"
                  THEN "disturbed" ELSE attempt[m].state
    BY DisturbedEffect
  <1> HIDE DEF d
  <1>3. /\ attempt' \in AttemptsType
        /\ attempt'[l] = [d[l] EXCEPT !.state = "used"]
        /\ \A m \in Logins \ {l} : attempt'[m] = d[m]
    BY <1>1, <1>2 DEF AttemptsType
  <1>4. \A m \in Logins \ {l} : Kept(m)
    BY <1>2, <1>3 DEF Kept
  <1>5. /\ attempt'[l].browser = attempt[l].browser
        /\ attempt'[l].begun = attempt[l].begun
        /\ attempt'[l].state = "used"
    BY <1>2, <1>3 DEF AttemptsType
  <1>6. \A m \in Logins \ {l} : attempt[m].browser = b => attempt'[m].state # "alone"
    BY <1>2, <1>3
  <1>7. /\ cookie' \in [Browsers -> Logins \cup {Nobody}]
        /\ \A c \in Browsers : cookie'[c] = IF c = b THEN Nobody ELSE cookie[c]
    BY <1>1
  <1> QED
    BY <1>1, <1>3, <1>4, <1>5, <1>6, <1>7 DEF UsedUp

LEMMA AcceptEffect ==
    ASSUME attempt \in AttemptsType, NEW t \in Tasks,
           NEW b \in Browsers, NEW l \in Logins, Accept(t, b, l)
    PROVE  /\ UsedUp(l)
           /\ UNCHANGED cookie
           /\ l \in pending /\ pending' = pending \ {l} /\ cookie[b] = l
  <1>1. /\ attempt' = [attempt EXCEPT ![l] = [attempt[l] EXCEPT !.state = "used"]]
        /\ UNCHANGED cookie
        /\ l \in pending /\ pending' = pending \ {l} /\ cookie[b] = l
        /\ attempt[l] # Unbegun
    BY DEF Accept, OwnState, AttemptsType
  <1>2. /\ attempt' \in AttemptsType
        /\ attempt'[l] = [attempt[l] EXCEPT !.state = "used"]
        /\ \A m \in Logins \ {l} : attempt'[m] = attempt[m]
    BY <1>1 DEF AttemptsType
  <1>3. \A m \in Logins \ {l} : Kept(m)
    BY <1>2 DEF Kept
  <1>4. /\ attempt'[l].browser = attempt[l].browser
        /\ attempt'[l].begun = attempt[l].begun
        /\ attempt'[l].state = "used"
    BY <1>2 DEF AttemptsType
  <1> QED
    BY <1>1, <1>2, <1>3, <1>4 DEF UsedUp

\* A callback is answered and its task ends: with a session when the keys in hand
\* are those of the token and the account is within its limit.
LEMMA ConcludeEffect ==
    ASSUME TypeInv, NEW t \in Tasks, Busy(t), NEW s \in Subjects,
           NEW k \in 0 .. key, NEW keys \in -1 .. key, Conclude(t, s, k, keys)
    PROVE  /\ GrantsOK'
           /\ attempt' \in AttemptsType
           /\ cookie' \in [Browsers -> Logins \cup {Nobody}]
           /\ task' = [task EXCEPT ![t] = NoTask]
           /\ \A m \in Logins : Kept(m)
  <1> DEFINE r == task[t]
  <1>1. /\ attempt' \in AttemptsType
        /\ cookie' \in [Browsers -> Logins \cup {Nobody}]
        /\ \A m \in Logins : Kept(m)
    BY AnsweredEffect DEF TypeInv, AttemptsOK, Conclude
  <1>2. Windows(windows)'
    <2>1. windows' = Checked(windows, s, now) \/ windows' = windows
      BY DEF Conclude
    <2>2. Windows(windows) /\ now \in 0 .. MaxNow
      BY DEF TypeInv, GrantsOK, KeysOK
    <2>3. Windows(Checked(windows, s, now))
      BY <2>2, CheckedEffect
    <2> QED
      BY <2>1, <2>2, <2>3 DEF Windows
  <1>3. lag' \in 0 .. MaxNow
    <2>1. lag' = lag \/ (keys < k /\ lag' = now - changed[keys + 1] /\ lag' > lag)
      BY DEF Conclude
    <2>2. lag \in 0 .. MaxNow /\ now \in 0 .. MaxNow /\ MaxNow \in Nat
          /\ key \in 0 .. MaxKey /\ MaxKey \in Nat
          /\ changed \in [0 .. MaxKey -> 0 .. MaxNow]
      BY Constants DEF TypeInv, GrantsOK, KeysOK
    <2>3. keys < k => keys + 1 \in 0 .. MaxKey
      BY <2>2
    <2> QED
      BY <2>1, <2>2, <2>3
  <1>4. granted' \subseteq [login : Logins, subject : Subjects, browser : Browsers,
                           at : 0 .. MaxNow]
    <2>1. \/ granted' = granted
          \/ granted' = granted \cup {[login |-> r.login, subject |-> s,
                                      browser |-> r.browser, at |-> now]}
      BY DEF Conclude
    <2>2. r.login \in Logins /\ r.browser \in Browsers /\ now \in 0 .. MaxNow
      BY DEF TypeInv, HoldersOK, KeysOK
    <2> QED
      BY <2>1, <2>2 DEF TypeInv, GrantsOK
  <1> QED
    BY <1>1, <1>2, <1>3, <1>4 DEF GrantsOK, Conclude

LEMMA StartType ==
    ASSUME TypeInv, NEW b \in Browsers, NEW l \in Logins, Start(b, l)
    PROVE  TypeInv'
  <1>1. AttemptsOK'
    <2>1. /\ attempt' \in AttemptsType
          /\ cookie' \in [Browsers -> Logins \cup {Nobody}]
      BY StartEffect DEF TypeInv, AttemptsOK, KeysOK
    <2>2. IsFiniteSet(pending') /\ Cardinality(pending') <= MaxPending
          /\ pending' \subseteq Logins
      BY StartRoom DEF TypeInv, AttemptsOK, Retained
    <2> QED
      BY <2>1, <2>2 DEF AttemptsOK
  <1> QED
    BY <1>1 DEF Start, providerVars, grantVars, TypeInv, KeysOK, TasksOK, GrantsOK,
                Windows, HoldersOK, Busy

LEMMA PendingShrinks ==
    ASSUME AttemptsOK, NEW l, pending' = pending \ {l}
    PROVE  /\ pending' \subseteq Logins
           /\ IsFiniteSet(pending')
           /\ Cardinality(pending') <= MaxPending
  BY FS_Subset, FS_CardinalityType, Constants DEF AttemptsOK

LEMMA AnswerType ==
    ASSUME TypeInv, NEW b \in Browsers, NEW l \in Logins, Refuse(b, l) \/ TooLate(b, l)
    PROVE  TypeInv'
  <1>1. CASE Refuse(b, l)
    <2>1. AttemptsOK'
      BY <1>1, AnsweredEffect DEF Refuse, TypeInv, AttemptsOK
    <2> QED
      BY <1>1, <2>1 DEF Refuse, providerVars, grantVars, TypeInv, KeysOK, TasksOK,
                        GrantsOK, Windows, HoldersOK, Busy
  <1>2. CASE TooLate(b, l)
    <2>1. AttemptsOK'
      BY <1>2, TooLateEffect, PendingShrinks DEF TypeInv, AttemptsOK, UsedUp
    <2> QED
      BY <1>2, <2>1 DEF TooLate, providerVars, grantVars, TypeInv, KeysOK, TasksOK,
                        GrantsOK, Windows, HoldersOK, Busy
  <1> QED
    BY <1>1, <1>2

LEMMA AcceptType ==
    ASSUME TypeInv, NEW t \in Tasks, NEW b \in Browsers, NEW l \in Logins, Accept(t, b, l)
    PROVE  TypeInv'
  <1> DEFINE r == [NoTask EXCEPT !.phase = "exchanging", !.login = l, !.browser = b]
  <1>1. AttemptsOK'
    BY AcceptEffect, PendingShrinks DEF TypeInv, AttemptsOK, UsedUp
  <1>2. KeysOK' /\ GrantsOK' /\ key' = key
    BY DEF Accept, providerVars, grantVars, TypeInv, KeysOK, GrantsOK, Windows
  <1>3. /\ r \in Callbacks /\ r.phase = "exchanging" /\ r.login = l /\ r.browser = b
        /\ r.keys = 0 /\ r.signed = 0
    BY NoTaskType DEF NoTask, Callbacks
  <1>4. task' = [task EXCEPT ![t] = r] /\ 0 <= key
    BY DEF Accept, TypeInv, KeysOK
  <1> HIDE DEF r
  <1>5. TasksOK' /\ HoldersOK'
    BY <1>2, <1>3, <1>4, OneTask DEF TypeInv
  <1> QED
    BY <1>1, <1>2, <1>5 DEF TypeInv

\* A callback that is concluded, by Exchange with the cached keys or by StoreKeys
\* with those it was given.
LEMMA ConcludeType ==
    ASSUME TypeInv, NEW t \in Tasks, Busy(t), NEW s \in Subjects,
           NEW k \in 0 .. key, NEW keys \in -1 .. key, Conclude(t, s, k, keys),
           UNCHANGED <<now, pending, key, changed>>,
           cache' \in [key : -1 .. key, stored : 0 .. now]
    PROVE  TypeInv'
  <1>1. /\ GrantsOK' /\ attempt' \in AttemptsType
        /\ cookie' \in [Browsers -> Logins \cup {Nobody}]
        /\ task' = [task EXCEPT ![t] = NoTask]
    BY ConcludeEffect
  <1>2. AttemptsOK' /\ KeysOK'
    BY <1>1 DEF TypeInv, AttemptsOK, KeysOK
  <1>3. 0 <= key
    BY DEF TypeInv, KeysOK
  <1>4. TasksOK' /\ HoldersOK'
    BY <1>1, <1>3, NoTaskType, OneTask DEF TypeInv
  <1> QED
    BY <1>1, <1>2, <1>4 DEF TypeInv

LEMMA ExchangeType ==
    ASSUME TypeInv, NEW t \in Tasks, NEW s \in Subjects, Exchange(t, s)
    PROVE  TypeInv'
  <1>1. /\ Busy(t) /\ UNCHANGED <<now, pending, key, changed, cache>>
        /\ key \in 0 .. key /\ cache.key \in -1 .. key
        /\ cache \in [key : -1 .. key, stored : 0 .. now]
        /\ key \in 0 .. MaxKey /\ now \in 0 .. MaxNow
    BY DEF Exchange, Busy, providerVars, TypeInv, KeysOK
  <1>2. CASE Conclude(t, s, key, cache.key)
    BY <1>1, <1>2, ConcludeType
  <1>3. CASE /\ task' = [task EXCEPT ![t] =
                  [@ EXCEPT !.phase = "fetching", !.subject = s, !.signed = key,
                            !.since = now]]
             /\ UNCHANGED <<attempt, cookie, grantVars>>
    <2> DEFINE r == [task[t] EXCEPT !.phase = "fetching", !.subject = s, !.signed = key,
                                    !.since = now]
    <2>1. task' = [task EXCEPT ![t] = r]
      BY <1>3 DEF TypeInv, TasksOK
    <2>2. /\ task[t] \in Callbacks /\ task[t].login \in Logins
          /\ task[t].browser \in Browsers /\ task[t].keys <= key
      BY <1>1 DEF TypeInv, TasksOK, HoldersOK
    <2>3. /\ r \in Callbacks /\ r.phase = "fetching" /\ r.login = task[t].login
          /\ r.browser = task[t].browser /\ r.subject = s /\ r.signed = key
          /\ r.keys = task[t].keys
      BY <1>1, <2>2 DEF Callbacks
    <2>4. AttemptsOK' /\ KeysOK' /\ GrantsOK'
      BY <1>1, <1>3 DEF TypeInv, AttemptsOK, KeysOK, GrantsOK, Windows, grantVars
    <2> HIDE DEF r
    <2>5. TasksOK' /\ HoldersOK'
      <3>1. TasksOK /\ HoldersOK /\ KeysOK /\ key' = key
            /\ r.keys <= key /\ r.signed <= key
        BY <1>1, <2>2, <2>3 DEF TypeInv
      <3>2. /\ r.phase # "idle" /\ r.login \in Logins /\ r.browser \in Browsers
            /\ r.subject \in Subjects
        BY <2>2, <2>3
      <3> QED
        BY <2>1, <2>3, <3>1, <3>2, OneTask
    <2> QED
      BY <2>4, <2>5 DEF TypeInv
  <1> QED
    BY <1>2, <1>3 DEF Exchange

LEMMA KeysAnsweredType ==
    ASSUME TypeInv, NEW t \in Tasks, KeysAnswered(t)
    PROVE  TypeInv'
  <1> DEFINE r == [task[t] EXCEPT !.phase = "fetched", !.keys = key]
  <1>1. /\ task' = [task EXCEPT ![t] = r]
        /\ UNCHANGED <<now, attempt, pending, cookie, key, changed, cache, windows,
                       granted, lag>>
    BY DEF KeysAnswered, providerVars, grantVars, TypeInv, TasksOK
  <1>2. /\ task[t] \in Callbacks /\ task[t].login \in Logins
        /\ task[t].browser \in Browsers /\ task[t].subject \in Subjects
        /\ task[t].signed <= key /\ key \in 0 .. MaxKey
    BY DEF KeysAnswered, Busy, TypeInv, TasksOK, HoldersOK, KeysOK
  <1>3. /\ r \in Callbacks /\ r.phase = "fetched" /\ r.login = task[t].login
        /\ r.browser = task[t].browser /\ r.subject = task[t].subject
        /\ r.signed = task[t].signed /\ r.keys = key
    BY <1>2 DEF Callbacks
  <1>4. AttemptsOK' /\ KeysOK' /\ GrantsOK'
    BY <1>1 DEF TypeInv, AttemptsOK, KeysOK, GrantsOK, Windows
  <1> HIDE DEF r
  <1>5. TasksOK' /\ HoldersOK'
    <2>1. TasksOK /\ HoldersOK /\ KeysOK /\ key' = key
          /\ r.keys <= key /\ r.signed <= key
      BY <1>1, <1>2, <1>3 DEF TypeInv
    <2>2. /\ r.phase # "idle" /\ r.login \in Logins /\ r.browser \in Browsers
          /\ r.subject \in Subjects
      BY <1>2, <1>3
    <2> QED
      BY <1>1, <1>3, <2>1, <2>2, OneTask
  <1> QED
    BY <1>4, <1>5 DEF TypeInv

LEMMA StoreKeysType ==
    ASSUME TypeInv, NEW t \in Tasks, StoreKeys(t)
    PROVE  TypeInv'
  <1>1. /\ task[t] \in Callbacks /\ task[t].subject \in Subjects /\ Busy(t)
        /\ task[t].signed <= key /\ task[t].keys <= key
        /\ key \in 0 .. MaxKey /\ now \in 0 .. MaxNow
    BY DEF StoreKeys, Busy, TypeInv, TasksOK, HoldersOK, KeysOK
  <1>2. task[t].signed \in 0 .. key /\ task[t].keys \in 0 .. key
    BY <1>1 DEF Callbacks
  <1>3. /\ Conclude(t, task[t].subject, task[t].signed, task[t].keys)
        /\ UNCHANGED <<now, pending, key, changed>>
        /\ cache' = [key |-> task[t].keys, stored |-> now]
    BY DEF StoreKeys, providerVars
  <1>4. cache' \in [key : -1 .. key, stored : 0 .. now] /\ task[t].keys \in -1 .. key
    BY <1>1, <1>2, <1>3
  <1> QED
    BY <1>1, <1>2, <1>3, <1>4, ConcludeType

LEMMA EndType ==
    ASSUME TypeInv, NEW t \in Tasks, Fail(t) \/ Abandon(t)
    PROVE  TypeInv'
  <1>1. /\ task' = [task EXCEPT ![t] = NoTask]
        /\ UNCHANGED <<now, pending, key, changed, cache, windows, granted, lag>>
    BY DEF Fail, Abandon, providerVars, grantVars
  <1>2. KeysOK' /\ GrantsOK' /\ 0 <= key
    BY <1>1 DEF TypeInv, KeysOK, GrantsOK, Windows
  <1>3. TasksOK' /\ HoldersOK'
    BY <1>1, <1>2, NoTaskType, OneTask DEF TypeInv
  <1>4. AttemptsOK'
    <2>1. CASE Fail(t)
      BY <1>1, <2>1, AnsweredEffect DEF Fail, TypeInv, AttemptsOK
    <2>2. CASE Abandon(t)
      BY <2>2 DEF Abandon, TypeInv, AttemptsOK
    <2> QED
      BY <2>1, <2>2
  <1> QED
    BY <1>2, <1>3, <1>4 DEF TypeInv

LEMMA OutsideType ==
    ASSUME TypeInv, ChangeKey \/ Tick \/ UNCHANGED vars
    PROVE  TypeInv'
  <1>1. CASE ChangeKey
    <2>1. KeysOK'
      <3>1. now \in 0 .. MaxNow /\ key + 1 \in 0 .. MaxKey /\ key \in 0 .. MaxKey
        BY <1>1, Constants DEF ChangeKey, TypeInv, KeysOK
      <3>2. changed' \in [0 .. MaxKey -> 0 .. MaxNow]
        BY <1>1, <3>1 DEF ChangeKey, TypeInv, KeysOK
      <3>3. cache' \in [key : -1 .. key', stored : 0 .. now']
        <4>1. cache \in [key : -1 .. key, stored : 0 .. now]
          BY DEF TypeInv, KeysOK
        <4>2. -1 .. key \subseteq -1 .. key'
          BY <1>1, <3>1 DEF ChangeKey
        <4> QED
          BY <1>1, <4>1, <4>2 DEF ChangeKey
      <3> QED
        BY <1>1, <3>1, <3>2, <3>3 DEF ChangeKey, KeysOK
    <2>2. TasksOK'
      <3>1. \A t \in Tasks : task[t].keys \in 0 .. MaxKey /\ task[t].signed \in 0 .. MaxKey
        BY DEF TypeInv, TasksOK, Callbacks
      <3>2. key \in 0 .. MaxKey
        BY DEF TypeInv, KeysOK
      <3>3. key' = key + 1 /\ task' = task
        BY <1>1 DEF ChangeKey
      <3>4. \A t \in Tasks : task[t].keys <= key /\ task[t].signed <= key
        BY DEF TypeInv, TasksOK
      <3>5. \A t \in Tasks : task'[t].keys <= key' /\ task'[t].signed <= key'
        BY <3>1, <3>2, <3>3, <3>4, Constants
      <3> QED
        BY <3>3, <3>5 DEF TypeInv, TasksOK
    <2> QED
      BY <1>1, <2>1, <2>2 DEF ChangeKey, grantVars, TypeInv, AttemptsOK, GrantsOK, Windows,
                        HoldersOK, Busy
  <1>2. CASE Tick
    <2>1. KeysOK'
      BY <1>2, Constants DEF Tick, providerVars, TypeInv, KeysOK
    <2> QED
      BY <1>2, <2>1 DEF Tick, providerVars, grantVars, TypeInv, AttemptsOK, TasksOK,
                        GrantsOK, Windows, HoldersOK, Busy
  <1>3. CASE UNCHANGED vars
    BY <1>3 DEF vars, providerVars, grantVars, TypeInv, AttemptsOK, KeysOK, TasksOK,
                GrantsOK, Windows, HoldersOK, Busy
  <1> QED
    BY <1>1, <1>2, <1>3

LEMMA TypeStep == TypeInv /\ [Next]_vars => TypeInv'
  BY StartType, AnswerType, AcceptType, ExchangeType, KeysAnsweredType, StoreKeysType,
     EndType, OutsideType DEF Next

\* Every variable keeps its type, and the map of pending logins never holds more
\* than MaxPending (MAX_PENDING_LOGINS, start): the one that makes room for a new
\* login is gone before it is put in.
THEOREM TypeCorrect == Spec => []TypeOK
  BY InitType, TypeStep, TypeInvOK, PTL DEF Spec

-----------------------------------------------------------------------------
(* Who holds a login.                                                      *)

BegunOK ==
    \A l \in Logins :
        attempt[l] # Unbegun =>
            /\ attempt[l].browser \in Browsers
            /\ attempt[l].begun <= now
            /\ attempt[l].state # "unbegun"

PendingOK == \A l \in pending : attempt[l].state \in {"alone", "disturbed"}

\* A browser holds no other browser's cookie.
CookieOK == \A b \in Browsers : cookie[b] # Nobody => attempt[cookie[b]].browser = b

\* A callback under way has its login to itself, and was opened by the browser
\* that began it.
HeldOK ==
    /\ \A t \in Tasks :
           Busy(t) => /\ attempt[task[t].login].browser = task[t].browser
                      /\ attempt[task[t].login].state = "used"
    /\ \A t, u \in Tasks : Busy(t) /\ Busy(u) /\ t # u => task[t].login # task[u].login

\* So has a session: no callback will conclude its login again.
GivenOK ==
    \A g \in granted :
        /\ attempt[g.login].browser = g.browser
        /\ attempt[g.login].state = "used"
        /\ \A t \in Tasks : Busy(t) => task[t].login # g.login

\* OwnLogin and LoginOnce are inductive only with what is true of a login in the
\* map, in a cookie and in a callback, because it moves from one to the next.
LoginInv == BegunOK /\ PendingOK /\ CookieOK /\ HeldOK /\ GivenOK /\ LoginOnce

LEMMA UnbegunFields == Unbegun.browser = Nobody /\ Unbegun.state = "unbegun"
  BY DEF Unbegun

LEMMA InitLogins == Init => LoginInv
  BY NoTaskType DEF Init, LoginInv, BegunOK, PendingOK, CookieOK, HeldOK, GivenOK,
                    LoginOnce, Busy

LEMMA StartLogins ==
    ASSUME TypeInv, LoginInv, NEW b \in Browsers, NEW l \in Logins, Start(b, l)
    PROVE  LoginInv'
  <1>1. /\ attempt[l] = Unbegun
        /\ attempt'[l] = [browser |-> b, begun |-> now, state |-> "alone"]
        /\ \A m \in Logins \ {l} : Kept(m)
        /\ \A c \in Browsers : cookie'[c] = IF c = b THEN l ELSE cookie[c]
        /\ pending' \subseteq pending \cup {l}
        /\ UNCHANGED <<now, task, granted>>
        /\ now \in 0 .. MaxNow
    <2>1. pending' \subseteq pending \cup {l}
      BY StartRoom DEF TypeInv, Retained
    <2>2. UNCHANGED <<now, task, granted>>
      BY DEF Start, grantVars
    <2> QED
      BY <2>1, <2>2, StartEffect DEF TypeInv, AttemptsOK, KeysOK
  <1>2. /\ attempt'[l].browser = b /\ attempt'[l].begun = now
        /\ attempt'[l].state = "alone" /\ attempt'[l] # Unbegun
    BY <1>1, UnbegunFields
  <1>3. BegunOK'
    BY <1>1, <1>2 DEF LoginInv, BegunOK, Kept
  <1>4. PendingOK'
    BY <1>1, <1>2 DEF LoginInv, PendingOK, Kept, TypeInv, AttemptsOK
  <1>5. CookieOK'
    <2>1. ASSUME NEW c \in Browsers, c # b, cookie'[c] # Nobody
          PROVE  attempt'[cookie'[c]].browser = c
      <3>1. cookie'[c] = cookie[c] /\ cookie[c] \in Logins
        BY <1>1, <2>1 DEF TypeInv, AttemptsOK
      <3>2. attempt[cookie[c]].browser = c
        BY <2>1, <3>1 DEF LoginInv, CookieOK
      <3>3. cookie[c] # l
        BY <1>1, <3>2, UnbegunFields, Constants
      <3> QED
        BY <1>1, <3>1, <3>2, <3>3 DEF Kept
    <2> QED
      BY <1>1, <1>2, <2>1 DEF CookieOK
  <1>6. HeldOK'
    <2>1. ASSUME NEW t \in Tasks, Busy(t)
          PROVE  /\ attempt'[task[t].login].browser = task[t].browser
                 /\ attempt'[task[t].login].state = "used"
      <3>1. task[t].login \in Logins /\ task[t].login # l
        BY <1>1, <2>1, UnbegunFields DEF TypeInv, HoldersOK, LoginInv, HeldOK
      <3> QED
        BY <1>1, <2>1, <3>1 DEF Kept, LoginInv, HeldOK
    <2> QED
      BY <1>1, <2>1 DEF LoginInv, HeldOK, Busy
  <1>7. GivenOK'
    <2>1. ASSUME NEW g \in granted
          PROVE  /\ attempt'[g.login].browser = g.browser
                 /\ attempt'[g.login].state = "used"
      <3>1. g.login \in Logins /\ g.login # l
        BY <1>1, <2>1, UnbegunFields DEF TypeInv, GrantsOK, LoginInv, GivenOK
      <3> QED
        BY <1>1, <2>1, <3>1 DEF Kept, LoginInv, GivenOK
    <2> QED
      BY <1>1, <2>1 DEF LoginInv, GivenOK, Busy
  <1>8. LoginOnce'
    BY <1>1 DEF LoginInv, LoginOnce
  <1> QED
    BY <1>3, <1>4, <1>5, <1>6, <1>7, <1>8 DEF LoginInv

\* Responses and the loss of a callback: no login, cookie or callback is new.
LEMMA LoosenLogins ==
    ASSUME TypeInv, LoginInv, UNCHANGED now,
           \A m \in Logins : Kept(m),
           pending' \subseteq pending,
           \A c \in Browsers : cookie'[c] \in {cookie[c], Nobody},
           \A t \in Tasks : task'[t] \in {task[t], NoTask},
           \A g \in granted' :
               \/ g \in granted
               \/ \E t \in Tasks : /\ Busy(t) /\ task'[t] = NoTask
                                  /\ g.login = task[t].login
                                  /\ g.browser = task[t].browser,
           \A g, h \in granted' \ granted : g = h
    PROVE  LoginInv'
  <1>1. BegunOK'
    BY DEF LoginInv, BegunOK, Kept
  <1>2. PendingOK'
    BY DEF LoginInv, PendingOK, Kept, TypeInv, AttemptsOK
  <1>3. CookieOK'
    BY DEF LoginInv, CookieOK, Kept, TypeInv, AttemptsOK
  <1>4. ASSUME NEW t \in Tasks, Busy(t)'
        PROVE  Busy(t) /\ task'[t] = task[t] /\ task[t].login \in Logins
    BY <1>4, NoTaskType DEF Busy, TypeInv, HoldersOK
  <1>5. HeldOK'
    BY <1>4 DEF LoginInv, HeldOK, Kept
  <1>6. ASSUME NEW g \in granted'
        PROVE  /\ attempt'[g.login].browser = g.browser
               /\ attempt'[g.login].state = "used"
               /\ \A t \in Tasks : Busy(t)' => task'[t].login # g.login
    <2>1. CASE g \in granted
      <3>1. g.login \in Logins
        BY <2>1 DEF TypeInv, GrantsOK
      <3> QED
        BY <1>4, <2>1, <3>1 DEF LoginInv, GivenOK, Kept
    <2>2. CASE g \notin granted
      <3>1. PICK u \in Tasks : /\ Busy(u) /\ task'[u] = NoTask
                               /\ g.login = task[u].login /\ g.browser = task[u].browser
        BY <2>2
      <3>2. task[u].login \in Logins
        BY <3>1 DEF TypeInv, HoldersOK
      <3>3. ~Busy(u)'
        BY <3>1, NoTaskType DEF Busy
      <3> QED
        BY <1>4, <3>1, <3>2, <3>3 DEF LoginInv, HeldOK, Kept
    <2> QED
      BY <2>1, <2>2
  <1>7. GivenOK'
    BY <1>6 DEF GivenOK
  <1>8. LoginOnce'
    <2>1. ASSUME NEW g \in granted, NEW h \in granted' \ granted
          PROVE  g.login # h.login
      BY <2>1 DEF LoginInv, GivenOK
    <2> QED
      BY <2>1 DEF LoginInv, LoginOnce
  <1> QED
    BY <1>1, <1>2, <1>3, <1>5, <1>7, <1>8 DEF LoginInv

\* A login that is used up leaves the map at the same time.
LEMMA UseLogins ==
    ASSUME TypeInv, LoginInv, NEW b \in Browsers, NEW l \in Logins,
           TooLate(b, l) \/ \E t \in Tasks : Accept(t, b, l)
    PROVE  LoginInv'
  <1>1. /\ UsedUp(l) /\ UNCHANGED <<now, granted>>
        /\ \A c \in Browsers : cookie'[c] \in {cookie[c], Nobody}
        /\ l \in pending /\ pending' = pending \ {l} /\ cookie[b] = l
    <2>1. CASE TooLate(b, l)
      BY <2>1, TooLateEffect DEF TypeInv, AttemptsOK, TooLate, grantVars
    <2>2. ASSUME NEW t \in Tasks, Accept(t, b, l)
          PROVE  /\ UsedUp(l) /\ UNCHANGED <<now, granted>>
                 /\ \A c \in Browsers : cookie'[c] \in {cookie[c], Nobody}
                 /\ l \in pending /\ pending' = pending \ {l} /\ cookie[b] = l
      BY <2>2, AcceptEffect DEF TypeInv, AttemptsOK, Accept, grantVars
    <2> QED
      BY <2>1, <2>2
  <1>2. attempt[l].state \in {"alone", "disturbed"} /\ attempt[l].browser = b
    <2>1. cookie[b] # Nobody
      BY <1>1, Constants
    <2> QED
      BY <1>1, <2>1 DEF LoginInv, PendingOK, CookieOK
  <1>3. BegunOK'
    BY <1>1 DEF LoginInv, BegunOK, UsedUp, Kept
  <1>4. PendingOK'
    BY <1>1 DEF LoginInv, PendingOK, UsedUp, Kept, TypeInv, AttemptsOK
  <1>5. CookieOK'
    BY <1>1 DEF LoginInv, CookieOK, UsedUp, Kept, TypeInv, AttemptsOK
  <1>6. \A t \in Tasks : Busy(t) => task[t].login \in Logins \ {l}
    BY <1>2 DEF LoginInv, HeldOK, TypeInv, HoldersOK
  <1>7. \A g \in granted : g.login \in Logins \ {l}
    BY <1>2 DEF LoginInv, GivenOK, TypeInv, GrantsOK
  <1>8. HeldOK' /\ GivenOK'
    <2>1. CASE TooLate(b, l)
      <3>1. task' = task
        BY <2>1 DEF TooLate
      <3>2. HeldOK'
        BY <1>1, <1>6, <3>1 DEF LoginInv, HeldOK, UsedUp, Kept, Busy
      <3>3. GivenOK'
        BY <1>1, <1>7, <3>1 DEF LoginInv, GivenOK, UsedUp, Kept, Busy
      <3> QED
        BY <3>2, <3>3
    <2>2. ASSUME NEW t \in Tasks, Accept(t, b, l)
          PROVE  HeldOK' /\ GivenOK'
      <3>1. /\ task'[t].login = l /\ task'[t].browser = b
            /\ ~Busy(t)
            /\ \A u \in Tasks \ {t} : task'[u] = task[u]
        BY <2>2 DEF Accept, NoTask, TypeInv, TasksOK, Busy
      <3>2. HeldOK'
        BY <1>1, <1>2, <1>6, <3>1 DEF LoginInv, HeldOK, UsedUp, Kept, Busy
      <3>3. GivenOK'
        BY <1>1, <1>7, <3>1 DEF LoginInv, GivenOK, UsedUp, Kept, Busy
      <3> QED
        BY <3>2, <3>3
    <2> QED
      BY <2>1, <2>2
  <1>9. LoginOnce'
    BY <1>1 DEF LoginInv, LoginOnce
  <1> QED
    BY <1>3, <1>4, <1>5, <1>8, <1>9 DEF LoginInv

LEMMA ConcludeLogins ==
    ASSUME TypeInv, LoginInv, NEW t \in Tasks, Busy(t), NEW s \in Subjects,
           NEW k \in 0 .. key, NEW keys \in -1 .. key, Conclude(t, s, k, keys),
           UNCHANGED <<now, pending>>
    PROVE  LoginInv'
  <1>1. /\ \A m \in Logins : Kept(m)
        /\ \A c \in Browsers : cookie'[c] \in {cookie[c], Nobody}
    BY AnsweredEffect DEF TypeInv, AttemptsOK, Conclude
  <1>2. \A u \in Tasks : task'[u] = IF u = t THEN NoTask ELSE task[u]
    BY DEF Conclude, TypeInv, TasksOK
  <1>3. granted' \subseteq granted \cup {[login |-> task[t].login, subject |-> s,
                                        browser |-> task[t].browser, at |-> now]}
    BY DEF Conclude
  <1> QED
    BY <1>1, <1>2, <1>3, LoosenLogins

LEMMA LoginStep == TypeInv /\ LoginInv /\ [Next]_vars => LoginInv'
  <1> SUFFICES ASSUME TypeInv, LoginInv, [Next]_vars PROVE LoginInv'
    OBVIOUS
  <1>1. ASSUME NEW b \in Browsers, NEW l \in Logins,
               Start(b, l) \/ Refuse(b, l) \/ TooLate(b, l)
        PROVE  LoginInv'
    <2>1. CASE Refuse(b, l)
      <3>1. /\ \A m \in Logins : Kept(m)
            /\ \A c \in Browsers : cookie'[c] \in {cookie[c], Nobody}
        BY <2>1, AnsweredEffect DEF TypeInv, AttemptsOK, Refuse
      <3>2. UNCHANGED <<now, pending, task, granted>>
        BY <2>1 DEF Refuse, grantVars
      <3> QED
        BY <3>1, <3>2, LoosenLogins
    <2> QED
      BY <1>1, <2>1, StartLogins, UseLogins
  <1>2. ASSUME NEW t \in Tasks, NEW b \in Browsers, NEW l \in Logins, Accept(t, b, l)
        PROVE  LoginInv'
    BY <1>2, UseLogins
  <1>3. ASSUME NEW t \in Tasks, NEW s \in Subjects, Exchange(t, s)
        PROVE  LoginInv'
    <2>1. /\ Busy(t) /\ UNCHANGED <<now, pending>>
          /\ key \in 0 .. key /\ cache.key \in -1 .. key
      BY <1>3 DEF Exchange, Busy, TypeInv, KeysOK
    <2>2. CASE Conclude(t, s, key, cache.key)
      BY <2>1, <2>2, ConcludeLogins
    <2>3. CASE ~Conclude(t, s, key, cache.key)
      <3>1. /\ UNCHANGED <<attempt, cookie, granted, now, pending>>
            /\ \A u \in Tasks : /\ task'[u].login = task[u].login
                                /\ task'[u].browser = task[u].browser
                                /\ Busy(u)' <=> Busy(u)
        <4> DEFINE r == [task[t] EXCEPT !.phase = "fetching", !.subject = s,
                                        !.signed = key, !.since = now]
        <4>1. /\ UNCHANGED <<attempt, cookie, granted, now, pending>>
              /\ task' = [task EXCEPT ![t] = r]
          BY <1>3, <2>3 DEF Exchange, grantVars, TypeInv, TasksOK
        <4>2. r.phase = "fetching" /\ r.login = task[t].login /\ r.browser = task[t].browser
          BY DEF TypeInv, TasksOK, Callbacks
        <4> HIDE DEF r
        <4>3. \A u \in Tasks : task'[u] = IF u = t THEN r ELSE task[u]
          BY <4>1 DEF TypeInv, TasksOK
        <4> QED
          BY <2>1, <4>1, <4>2, <4>3 DEF Busy
      <3> QED
        BY <3>1 DEF LoginInv, BegunOK, PendingOK, CookieOK, HeldOK, GivenOK, LoginOnce
    <2> QED
      BY <2>2, <2>3
  <1>4. ASSUME NEW t \in Tasks, KeysAnswered(t)
        PROVE  LoginInv'
    <2>1. /\ UNCHANGED <<attempt, cookie, granted, now, pending>>
          /\ \A u \in Tasks : /\ task'[u].login = task[u].login
                              /\ task'[u].browser = task[u].browser
                              /\ Busy(u)' <=> Busy(u)
      BY <1>4 DEF KeysAnswered, grantVars, TypeInv, TasksOK, Callbacks, Busy
    <2> QED
      BY <2>1 DEF LoginInv, BegunOK, PendingOK, CookieOK, HeldOK, GivenOK, LoginOnce
  <1>5. ASSUME NEW t \in Tasks, StoreKeys(t)
        PROVE  LoginInv'
    <2>1. /\ task[t].subject \in Subjects /\ Busy(t)
          /\ task[t].signed \in 0 .. key /\ task[t].keys \in -1 .. key
      BY <1>5 DEF StoreKeys, Busy, TypeInv, TasksOK, HoldersOK, KeysOK, Callbacks
    <2> QED
      BY <1>5, <2>1, ConcludeLogins DEF StoreKeys
  <1>6. ASSUME NEW t \in Tasks, Fail(t) \/ Abandon(t)
        PROVE  LoginInv'
    <2>1. /\ \A m \in Logins : Kept(m)
          /\ \A c \in Browsers : cookie'[c] \in {cookie[c], Nobody}
      BY <1>6, AnsweredEffect DEF TypeInv, AttemptsOK, Fail, Abandon, Kept
    <2>2. /\ UNCHANGED <<now, pending, granted>>
          /\ \A u \in Tasks : task'[u] = IF u = t THEN NoTask ELSE task[u]
      BY <1>6 DEF Fail, Abandon, grantVars, TypeInv, TasksOK
    <2> QED
      BY <2>1, <2>2, LoosenLogins
  <1>7. CASE ChangeKey \/ Tick \/ UNCHANGED vars
    <2>1. /\ UNCHANGED <<attempt, pending, cookie, task, granted>>
          /\ now' \in {now, now + 1} /\ now \in Nat
      BY <1>7, Constants DEF ChangeKey, Tick, vars, grantVars, TypeInv, KeysOK
    <2>2. BegunOK'
      <3>1. \A l \in Logins : attempt[l].begun \in Int
        BY DEF TypeInv, AttemptsOK, AttemptsType
      <3> QED
        BY <2>1, <3>1 DEF LoginInv, BegunOK
    <2> QED
      BY <2>1, <2>2 DEF LoginInv, PendingOK, CookieOK, HeldOK, GivenOK, LoginOnce, Busy
  <1> QED
    BY <1>1, <1>2, <1>3, <1>4, <1>5, <1>6, <1>7 DEF Next

\* A browser is only ever signed in by a login that it began itself: callback
\* compares the state of its URL with the login cookie, and start gives that
\* cookie to nobody else, whatever happens while the callback awaits the provider.
THEOREM LoginsAreOwn == Spec => []OwnLogin
  <1>1. LoginInv => OwnLogin
    BY DEF LoginInv, GivenOK, OwnLogin
  <1> QED
    BY InitType, TypeStep, InitLogins, LoginStep, <1>1, PTL DEF Spec

\* One login gives one session, although two callbacks with its URL may be under
\* way at once: the first one takes it out of the map before its first await.
THEOREM LoginsAreUsedOnce == Spec => []LoginOnce
  <1>1. LoginInv => LoginOnce
    BY DEF LoginInv
  <1> QED
    BY InitType, TypeStep, InitLogins, LoginStep, <1>1, PTL DEF Spec

-----------------------------------------------------------------------------
(* How old the keys in hand may be.                                        *)

\* A callback that awaits the keys does so for no longer than FetchTime, and
\* what it was answered was current when it asked or later.
FetchOK ==
    \A t \in Tasks :
        /\ task[t].phase \in {"fetching", "fetched"} =>
               task[t].since <= now /\ now <= task[t].since + FetchTime
        /\ task[t].phase = "fetched" =>
               /\ task[t].signed <= task[t].keys
               /\ task[t].keys < key => task[t].since <= changed[task[t].keys + 1]

\* The same for the cache, at the time it was filled.
CacheOK == cache.key < key => cache.stored <= changed[cache.key + 1] + FetchTime

\* The bound on lag is the sum of the two: the age of the cache, and the time that
\* its keys were already under way.
KeyInv == FetchOK /\ CacheOK /\ KeysAreRecent

LEMMA InitKeys == Init => KeyInv
  BY NoTaskType, Constants
     DEF Init, KeyInv, FetchOK, CacheOK, KeysAreRecent, NoCache

LEMMA ConcludeKeys ==
    ASSUME TypeInv, KeyInv, NEW t \in Tasks, NEW s \in Subjects,
           NEW k \in 0 .. key, NEW keys \in -1 .. key, Conclude(t, s, k, keys),
           UNCHANGED <<now, key, changed>>,
           keys < k => now - changed[keys + 1] < JwksTtl + FetchTime
    PROVE  FetchOK' /\ KeysAreRecent'
  <1>1. \A u \in Tasks : task'[u] = IF u = t THEN NoTask ELSE task[u]
    BY DEF Conclude, TypeInv, TasksOK
  <1>2. FetchOK'
    BY <1>1, NoTaskType DEF KeyInv, FetchOK
  <1>3. lag' = lag \/ (keys < k /\ lag' = now - changed[keys + 1])
    BY DEF Conclude
  <1> QED
    BY <1>2, <1>3 DEF KeyInv, KeysAreRecent

LEMMA KeyStep == TypeInv /\ KeyInv /\ [Next]_vars => KeyInv'
  <1> SUFFICES ASSUME TypeInv, KeyInv, [Next]_vars PROVE KeyInv'
    OBVIOUS
  <1>0. /\ now \in 0 .. MaxNow /\ key \in 0 .. MaxKey
        /\ changed \in [0 .. MaxKey -> 0 .. MaxNow]
        /\ cache \in [key : -1 .. key, stored : 0 .. now]
        /\ task \in [Tasks -> Callbacks]
        /\ \A t \in Tasks : task[t].keys \in 0 .. key /\ task[t].signed \in 0 .. key
        /\ cache.key \in -1 .. key /\ cache.stored \in 0 .. now
        /\ \A i \in 0 .. MaxKey : changed[i] \in 0 .. MaxNow
        /\ MaxKey \in Nat /\ MaxNow \in Nat /\ JwksTtl \in Nat /\ FetchTime \in Nat
    <2>1. /\ now \in 0 .. MaxNow /\ key \in 0 .. MaxKey
          /\ changed \in [0 .. MaxKey -> 0 .. MaxNow]
          /\ cache \in [key : -1 .. key, stored : 0 .. now]
      BY DEF TypeInv, KeysOK
    <2>2. task \in [Tasks -> Callbacks]
      BY DEF TypeInv, TasksOK
    <2>3. ASSUME NEW t \in Tasks
          PROVE  task[t].keys \in 0 .. key /\ task[t].signed \in 0 .. key
      <3>1. task[t].keys \in 0 .. MaxKey /\ task[t].signed \in 0 .. MaxKey
        BY <2>2 DEF Callbacks
      <3>2. task[t].keys <= key /\ task[t].signed <= key
        BY DEF TypeInv, TasksOK
      <3> QED
        BY <2>1, <3>1, <3>2, Constants
    <2> QED
      BY <2>1, <2>2, <2>3, Constants
  <1>t. ASSUME NEW t \in Tasks
        PROVE  /\ task[t].keys \in Nat /\ task[t].keys <= key
               /\ task[t].signed \in Nat /\ task[t].since \in Nat
               /\ key \in Nat /\ key <= MaxKey /\ MaxKey \in Nat
               /\ now \in Nat /\ FetchTime \in Nat
    <2>1. task[t].since \in 0 .. MaxNow
      BY <1>0 DEF Callbacks
    <2> QED
      BY <1>0, <2>1
  <1>1. ASSUME NEW b \in Browsers, NEW l \in Logins,
               Start(b, l) \/ Refuse(b, l) \/ TooLate(b, l)
        PROVE  KeyInv'
    <2>1. UNCHANGED <<now, key, changed, cache, task, lag>>
      BY <1>1 DEF Start, Refuse, TooLate, providerVars, grantVars
    <2> QED
      BY <2>1 DEF KeyInv, FetchOK, CacheOK, KeysAreRecent
  <1>2. ASSUME NEW t \in Tasks,
               \/ \E b \in Browsers, l \in Logins : Accept(t, b, l)
               \/ Fail(t) \/ Abandon(t)
        PROVE  KeyInv'
    <2>1. /\ UNCHANGED <<now, key, changed, cache, lag>>
          /\ task'[t].phase \in {"idle", "exchanging"}
          /\ \A u \in Tasks \ {t} : task'[u] = task[u]
      <3>1. task \in [Tasks -> Callbacks]
        BY <1>0
      <3>2. CASE \E b \in Browsers, l \in Logins : Accept(t, b, l)
        BY <3>1, <3>2 DEF Accept, providerVars, grantVars, NoTask
      <3>3. CASE Fail(t) \/ Abandon(t)
        BY <3>1, <3>3 DEF Fail, Abandon, providerVars, grantVars, NoTask
      <3> QED
        BY <1>2, <3>2, <3>3
    <2> QED
      BY <2>1 DEF KeyInv, FetchOK, CacheOK, KeysAreRecent
  <1>3. ASSUME NEW t \in Tasks, NEW s \in Subjects, Exchange(t, s)
        PROVE  KeyInv'
    <2>1. UNCHANGED <<now, key, changed, cache>> /\ key \in 0 .. key
          /\ cache.key \in -1 .. key
      BY <1>0, <1>3 DEF Exchange, providerVars
    <2>2. CASE CacheFresh /\ Conclude(t, s, key, cache.key)
      <3>1. cache.key < key => now - changed[cache.key + 1] < JwksTtl + FetchTime
        <4>1. cache.key < key => cache.key + 1 \in 0 .. MaxKey
          BY <1>0
        <4>2. now - cache.stored < JwksTtl
          BY <2>2 DEF CacheFresh
        <4>3. cache.key < key => cache.stored <= changed[cache.key + 1] + FetchTime
          BY DEF KeyInv, CacheOK
        <4> QED
          <5>1. cache.key < key => changed[cache.key + 1] \in Int
            BY <1>0, <4>1
          <5>2. now \in Int /\ cache.stored \in Int /\ JwksTtl \in Int /\ FetchTime \in Int
            BY <1>0
          <5> QED
            BY <4>2, <4>3, <5>1, <5>2
      <3>2. FetchOK' /\ KeysAreRecent'
        BY <2>1, <2>2, <3>1, ConcludeKeys
      <3> QED
        BY <2>1, <3>2 DEF KeyInv, CacheOK
    <2>3. CASE ~(CacheFresh /\ Conclude(t, s, key, cache.key))
      <3> DEFINE r == [task[t] EXCEPT !.phase = "fetching", !.subject = s,
                                      !.signed = key, !.since = now]
      <3>1. lag' = lag /\ task' = [task EXCEPT ![t] = r]
        BY <1>0, <1>3, <2>3 DEF Exchange, grantVars
      <3>2. r.phase = "fetching" /\ r.since = now
        BY <1>0 DEF Callbacks
      <3> HIDE DEF r
      <3>3. \A u \in Tasks : task'[u] = IF u = t THEN r ELSE task[u]
        BY <1>0, <3>1
      <3>4. FetchOK'
        <4>1. r.since <= now /\ now <= r.since + FetchTime
          BY <1>0, <3>2
        <4> QED
          BY <2>1, <3>2, <3>3, <4>1 DEF KeyInv, FetchOK
      <3> QED
        BY <2>1, <3>1, <3>4 DEF KeyInv, CacheOK, KeysAreRecent
    <2> QED
      BY <1>3, <2>2, <2>3
  <1>4. ASSUME NEW t \in Tasks, KeysAnswered(t)
        PROVE  KeyInv'
    <2> DEFINE r == [task[t] EXCEPT !.phase = "fetched", !.keys = key]
    <2>1. /\ UNCHANGED <<now, key, changed, cache, lag>>
          /\ task' = [task EXCEPT ![t] = r] /\ task[t].phase = "fetching"
      BY <1>0, <1>4 DEF KeysAnswered, providerVars, grantVars
    <2>2. /\ r.phase = "fetched" /\ r.since = task[t].since /\ r.keys = key
          /\ r.signed = task[t].signed
      BY <1>0 DEF Callbacks
    <2> HIDE DEF r
    <2>3. \A u \in Tasks : task'[u] = IF u = t THEN r ELSE task[u]
      BY <1>0, <2>1
    <2>4. r.since <= now /\ now <= r.since + FetchTime /\ r.signed <= r.keys
      <3>1. task[t].since <= now /\ now <= task[t].since + FetchTime
        BY <2>1 DEF KeyInv, FetchOK
      <3>2. task[t].signed <= key
        BY <1>0
      <3> QED
        BY <2>2, <3>1, <3>2
    <2>5. ~(r.keys < key)
      BY <1>t, <2>2
    <2>6. FetchOK'
      BY <2>1, <2>2, <2>3, <2>4, <2>5 DEF KeyInv, FetchOK
    <2> QED
      BY <2>1, <2>6 DEF KeyInv, CacheOK, KeysAreRecent
  <1>5. ASSUME NEW t \in Tasks, StoreKeys(t)
        PROVE  KeyInv'
    <2>1. /\ task[t].phase = "fetched" /\ task[t].subject \in Subjects
          /\ Conclude(t, task[t].subject, task[t].signed, task[t].keys)
          /\ UNCHANGED <<now, key, changed>>
          /\ cache' = [key |-> task[t].keys, stored |-> now]
      BY <1>5 DEF StoreKeys, providerVars, TypeInv, HoldersOK, Busy
    <2>2. /\ task[t].signed <= task[t].keys
          /\ task[t].keys < key => task[t].since <= changed[task[t].keys + 1]
          /\ now <= task[t].since + FetchTime
          /\ task[t].since \in Nat
      BY <1>t, <2>1 DEF KeyInv, FetchOK
    <2>3. task[t].keys \in -1 .. key /\ ~(task[t].keys < task[t].signed)
      BY <1>t, <2>2
    <2>4. FetchOK' /\ KeysAreRecent'
      BY <1>0, <2>1, <2>3, ConcludeKeys
    <2>5. CacheOK'
      <3>1. cache'.key = task[t].keys /\ cache'.stored = now
        BY <2>1
      <3>2. task[t].keys < key => task[t].keys + 1 \in 0 .. MaxKey
        BY <1>t
      <3>3. task[t].keys < key => now <= changed[task[t].keys + 1] + FetchTime
        <4>1. task[t].keys < key => changed[task[t].keys + 1] \in 0 .. MaxNow
          <5>1. \A i \in 0 .. MaxKey : changed[i] \in 0 .. MaxNow
            BY <1>0
          <5> QED
            BY <3>2, <5>1
        <4>2. now \in Int /\ FetchTime \in Int /\ task[t].since \in Int
          BY <1>t
        <4> QED
          BY <2>2, <4>1, <4>2
      <3> QED
        BY <2>1, <3>1, <3>3 DEF CacheOK
    <2> QED
      BY <2>4, <2>5 DEF KeyInv
  <1>6. CASE ChangeKey
    <2>1. /\ key' = key + 1 /\ key' \in 0 .. MaxKey
          /\ changed' = [changed EXCEPT ![key + 1] = now]
          /\ UNCHANGED <<now, cache, task, lag>>
      BY <1>0, <1>6, Constants DEF ChangeKey, grantVars
    <2>2. \A i \in 0 .. MaxKey : changed'[i] = IF i = key + 1 THEN now ELSE changed[i]
      BY <1>0, <2>1
    <2>3. FetchOK'
      <3>1. ASSUME NEW t \in Tasks, task[t].phase = "fetched", task[t].keys < key + 1
            PROVE  task[t].since <= changed'[task[t].keys + 1]
        <4>1. task[t].keys + 1 \in 0 .. MaxKey
          <5>1. /\ task[t].keys \in Nat /\ key \in Nat /\ MaxKey \in Nat
                /\ key + 1 <= MaxKey
            BY <1>0, <2>1
          <5> QED
            BY <3>1, <5>1
        <4>2. CASE task[t].keys = key
          <5>1. changed'[task[t].keys + 1] = now
            BY <2>2, <4>1, <4>2
          <5>2. task[t].since <= now
            BY <3>1 DEF KeyInv, FetchOK
          <5> QED
            BY <5>1, <5>2
        <4>3. CASE task[t].keys # key
          <5>1. task[t].keys \in Nat /\ key \in Nat
            BY <1>0
          <5>2. task[t].keys < key /\ task[t].keys + 1 # key + 1
            BY <3>1, <4>3, <5>1
          <5>3. changed'[task[t].keys + 1] = changed[task[t].keys + 1]
            BY <2>2, <4>1, <5>2
          <5>4. task[t].since <= changed[task[t].keys + 1]
            BY <3>1, <5>2 DEF KeyInv, FetchOK
          <5> QED
            BY <5>3, <5>4
        <4> QED
          BY <4>2, <4>3
      <3> QED
        BY <2>1, <3>1 DEF KeyInv, FetchOK
    <2>4. CacheOK'
      <3>1. cache.key + 1 \in 0 .. MaxKey
        <4>1. key + 1 <= MaxKey
          BY <1>0, <2>1
        <4> QED
          BY <1>0, <4>1
      <3>2. CASE cache.key = key
        <4>1. changed'[cache.key + 1] = now
          BY <2>2, <3>1, <3>2
        <4>2. cache.stored <= now /\ cache.stored \in Int /\ now \in Int /\ FetchTime \in Nat
          BY <1>0
        <4>3. cache.stored <= now + FetchTime
          BY <4>2
        <4> QED
          BY <2>1, <4>1, <4>3 DEF CacheOK
      <3>3. CASE cache.key # key
        <4>1. cache.key \in Int /\ key \in Int /\ cache.key <= key
          BY <1>0
        <4>2. cache.key < key /\ cache.key + 1 # key + 1
          BY <3>3, <4>1
        <4>3. changed'[cache.key + 1] = changed[cache.key + 1]
          BY <2>2, <3>1, <4>2
        <4> QED
          BY <2>1, <4>2, <4>3 DEF KeyInv, CacheOK
      <3> QED
        BY <3>2, <3>3
    <2> QED
      BY <2>1, <2>3, <2>4 DEF KeyInv, KeysAreRecent
  <1>7. CASE Tick
    <2>1. now' = now + 1 /\ UNCHANGED <<key, changed, cache, task, lag>> /\ Timely
      BY <1>7 DEF Tick, providerVars, grantVars
    <2>2. FetchOK'
      <3>1. ASSUME NEW t \in Tasks, task[t].phase \in {"fetching", "fetched"}
            PROVE  task[t].since <= now + 1 /\ now + 1 <= task[t].since + FetchTime
        <4>1. task[t].since <= now /\ now <= task[t].since + FetchTime
          BY <3>1 DEF KeyInv, FetchOK
        <4>2. task[t].phase = "fetching" \/ task[t].phase = "fetched"
          BY <3>1
        <4>3. now < task[t].since + FetchTime
          BY <2>1, <4>2 DEF Timely
        <4> QED
          BY <1>t, <4>1, <4>3
      <3> QED
        BY <2>1, <3>1 DEF KeyInv, FetchOK
    <2> QED
      BY <2>1, <2>2 DEF KeyInv, CacheOK, KeysAreRecent
  <1>8. CASE UNCHANGED vars
    BY <1>8 DEF vars, providerVars, grantVars, KeyInv, FetchOK, CacheOK, KeysAreRecent
  <1> QED
    BY <1>1, <1>2, <1>3, <1>4, <1>5, <1>6, <1>7, <1>8 DEF Next

\* No login is refused for a key that had been the provider's newest for JWKS_TTL
\* and the timeout of a request: a callback that stores late what it was answered
\* early (jwks) makes the cache no older than that.
THEOREM KeysStayRecent == Spec => []KeysAreRecent
  <1>1. KeyInv => KeysAreRecent
    BY DEF KeyInv
  <1> QED
    BY InitType, TypeStep, InitKeys, KeyStep, <1>1, PTL DEF Spec

-----------------------------------------------------------------------------
(* A login that is under way is not lost.                                  *)

Begun == {l \in Logins : attempt[l] # Unbegun}

\* A login in the map that nothing disturbed is the one in its browser's cookie.
AloneOK ==
    \A l \in pending : attempt[l].state = "alone" => cookie[attempt[l].browser] = l

\* A login that is not in the map any more, and was neither used nor too old, has
\* made room for one that was begun later.
RoomOK ==
    \A l \in Logins :
        attempt[l].state \in {"alone", "disturbed"} /\ now < Expires(l) =>
            l \in pending \/ Cardinality(BegunSince(l)) >= MaxPending

\* Cardinalities mean something: only finitely many logins have been begun.
SurviveInv == AloneOK /\ RoomOK /\ IsFiniteSet(Begun)

LEMMA InitSurvive == Init => SurviveInv
  <1> SUFFICES ASSUME Init PROVE SurviveInv
    OBVIOUS
  <1>1. Begun = {}
    BY DEF Init, Begun
  <1>2. AloneOK /\ RoomOK
    BY UnbegunFields DEF Init, AloneOK, RoomOK
  <1> QED
    BY <1>1, <1>2, FS_EmptySet DEF SurviveInv

LEMMA SinceIsFinite ==
    ASSUME IsFiniteSet(Begun), NEW l \in Logins
    PROVE  IsFiniteSet(BegunSince(l)) /\ Cardinality(BegunSince(l)) \in Nat
  <1>1. BegunSince(l) \in SUBSET Begun
    BY DEF BegunSince, Begun
  <1> QED
    BY <1>1, FS_Subset, FS_CardinalityType

\* No login is begun and none comes back; the ones that leave the map were used.
LEMMA LeaveSurvive ==
    ASSUME TypeInv, SurviveInv, now' \in {now, now + 1},
           \A m \in Logins :
               /\ attempt'[m].browser = attempt[m].browser
               /\ attempt'[m].begun = attempt[m].begun
               /\ attempt'[m] = Unbegun <=> attempt[m] = Unbegun
               /\ \/ attempt'[m].state = attempt[m].state /\ (m \in pending' <=> m \in pending)
                  \/ attempt'[m].state = "used" /\ m \notin pending'
                  \/ /\ attempt[m].state = "alone" /\ attempt'[m].state = "disturbed"
                     /\ m \in pending' <=> m \in pending
               /\ m \in pending /\ attempt[m].state = "alone" =>
                      \/ attempt'[m].state # "alone"
                      \/ cookie'[attempt[m].browser] = cookie[attempt[m].browser],
           pending' \subseteq pending
    PROVE  SurviveInv'
  <1>1. AloneOK'
    BY DEF SurviveInv, AloneOK, TypeInv, AttemptsOK
  <1>2. IsFiniteSet(Begun)'
    <2>1. Begun' = Begun
      BY DEF Begun
    <2> QED
      BY <2>1 DEF SurviveInv
  <1>3. ASSUME NEW l \in Logins,
               attempt'[l].state \in {"alone", "disturbed"}, now' < Expires(l)'
        PROVE  l \in pending' \/ Cardinality(BegunSince(l)') >= MaxPending
    <2>1. BegunSince(l)' = BegunSince(l)
      BY DEF BegunSince
    <2>2. /\ attempt[l].state \in {"alone", "disturbed"}
          /\ l \in pending' <=> l \in pending
      BY <1>3
    <2>3. now < Expires(l)
      <3>1. Expires(l)' = Expires(l)
        BY DEF Expires
      <3>2. now \in Int /\ Expires(l) \in Int
        BY Constants DEF TypeInv, KeysOK, AttemptsOK, AttemptsType, Expires
      <3> QED
        BY <1>3, <3>1, <3>2
    <2> QED
      BY <2>1, <2>2, <2>3 DEF SurviveInv, RoomOK
  <1> QED
    BY <1>1, <1>2, <1>3 DEF SurviveInv, RoomOK

\* The login that makes room is older than the others in the map, which is full,
\* and than the one that takes its place.
LEMMA StartSurvive ==
    ASSUME TypeInv, LoginInv, SurviveInv, NEW b \in Browsers, NEW l \in Logins, Start(b, l)
    PROVE  SurviveInv'
  <1>1. /\ attempt[l] = Unbegun
        /\ attempt'[l] = [browser |-> b, begun |-> now, state |-> "alone"]
        /\ \A m \in Logins \ {l} : Kept(m)
        /\ \A c \in Browsers : cookie'[c] = IF c = b THEN l ELSE cookie[c]
        /\ \A m \in Logins \ {l} : attempt[m].browser = b => attempt'[m].state # "alone"
        /\ now' = now
    <2>1. now' = now
      BY DEF Start
    <2> QED
      BY <2>1, StartEffect DEF TypeInv, AttemptsOK, KeysOK
  <1>2. /\ attempt'[l].browser = b /\ attempt'[l].begun = now
        /\ attempt'[l].state = "alone" /\ attempt'[l] # Unbegun
    BY <1>1, UnbegunFields
  <1>3. PICK evicted :
          /\ pending' = (Retained \ evicted) \cup {l}
          /\ IsFiniteSet(Retained)
          /\ \/ evicted = {}
             \/ \E m \in Oldest(Retained) :
                  evicted = {m} /\ Cardinality(Retained) = MaxPending
    BY StartRoom DEF TypeInv
  <1>4. ASSUME NEW m \in pending
        PROVE  /\ m \in Logins \ {l} /\ attempt[m] # Unbegun
               /\ attempt[m].browser \in Browsers /\ attempt[m].begun <= now
    <2>1. attempt[m].state \in {"alone", "disturbed"} /\ m \in Logins
      BY DEF LoginInv, PendingOK, TypeInv, AttemptsOK
    <2>2. attempt[m] # Unbegun
      BY <2>1, UnbegunFields
    <2> QED
      BY <1>1, <2>1, <2>2 DEF LoginInv, BegunOK
  <1>5. AloneOK'
    <2>1. ASSUME NEW m \in pending', attempt'[m].state = "alone"
          PROVE  cookie'[attempt'[m].browser] = m
      <3>1. CASE m = l
        BY <1>1, <1>2, <3>1
      <3>2. CASE m # l
        <4>1. m \in pending
          BY <1>3, <3>2 DEF Retained
        <4>2. attempt[m].state = "alone" /\ attempt'[m].browser = attempt[m].browser
          BY <1>1, <1>4, <2>1, <4>1 DEF Kept
        <4>3. attempt[m].browser # b
          BY <1>1, <1>4, <2>1, <4>1
        <4> QED
          BY <1>1, <1>4, <4>1, <4>2, <4>3 DEF SurviveInv, AloneOK
      <3> QED
        BY <3>1, <3>2
    <2> QED
      BY <2>1 DEF AloneOK
  <1>6. IsFiniteSet(Begun) /\ IsFiniteSet(Begun')
    <2>1. Begun' = Begun \cup {l}
      BY <1>1, <1>2 DEF Begun, Kept
    <2> QED
      BY <2>1, AddOne DEF SurviveInv
  <1>7. \A m \in Logins \ {l} : BegunSince(m) \subseteq BegunSince(m)'
    BY <1>1, <1>2 DEF BegunSince, Kept
  <1>8. \A m \in Logins : IsFiniteSet(BegunSince(m)') /\ Cardinality(BegunSince(m)') \in Nat
    <2>1. ASSUME NEW m \in Logins
          PROVE  IsFiniteSet(BegunSince(m)') /\ Cardinality(BegunSince(m)') \in Nat
      <3>1. BegunSince(m)' \in SUBSET Begun'
        BY DEF BegunSince, Begun
      <3> QED
        BY <1>6, <3>1, FS_Subset, FS_CardinalityType
    <2> QED
      BY <2>1
  <1>9. ASSUME NEW m \in Logins,
               attempt'[m].state \in {"alone", "disturbed"}, now' < Expires(m)'
        PROVE  m \in pending' \/ Cardinality(BegunSince(m)') >= MaxPending
    <2>1. CASE m = l
      BY <1>3, <2>1
    <2>2. CASE m # l
      <3>1. attempt[m].state \in {"alone", "disturbed"} /\ now < Expires(m)
        BY <1>1, <1>9, <2>2 DEF Kept, Expires
      <3>2. CASE m \notin pending
        <4>1. Cardinality(BegunSince(m)) >= MaxPending
          BY <3>1, <3>2 DEF SurviveInv, RoomOK
        <4>2. Cardinality(BegunSince(m)) <= Cardinality(BegunSince(m)')
          BY <1>7, <1>8, <2>2, FS_Subset
        <4>3. Cardinality(BegunSince(m)) \in Nat /\ Cardinality(BegunSince(m)') \in Nat
          BY <1>6, <1>8, SinceIsFinite
        <4> QED
          BY <4>1, <4>2, <4>3, Constants
      <3>3. CASE m \in pending /\ m \notin pending'
        <4>1. m \in Retained
          BY <3>1, <3>3 DEF Retained
        <4>2. m \in Oldest(Retained) /\ Cardinality(Retained) = MaxPending
          BY <1>3, <3>3, <4>1
        <4> DEFINE room == (Retained \ {m}) \cup {l}
        <4>3. l \notin Retained \ {m}
          BY <1>4 DEF Retained
        <4>4. Cardinality(room) = MaxPending
          <5>1. /\ IsFiniteSet(Retained \ {m})
                /\ Cardinality(Retained \ {m}) = Cardinality(Retained) - 1
            BY <1>3, <4>1, FS_RemoveElement
          <5>2. Cardinality(room) = Cardinality(Retained \ {m}) + 1
            BY <4>3, <5>1, AddOne
          <5> QED
            BY <4>2, <5>1, <5>2, Constants
        <4>5. room \subseteq BegunSince(m)'
          <5>1. ASSUME NEW x \in Retained \ {m}
                PROVE  x \in BegunSince(m)'
            <6>1. x \in pending /\ Expires(m) <= Expires(x)
              BY <4>2 DEF Oldest, Retained
            <6>2. attempt[m].begun <= attempt[x].begun
              BY <1>4, <3>3, <6>1, Constants
                 DEF Expires, TypeInv, AttemptsOK, AttemptsType
            <6> QED
              BY <1>1, <1>4, <3>3, <6>1, <6>2 DEF BegunSince, Kept
          <5>2. l \in BegunSince(m)'
            BY <1>1, <1>2, <1>4, <3>3 DEF BegunSince, Kept
          <5> QED
            BY <5>1, <5>2
        <4>6. Cardinality(room) <= Cardinality(BegunSince(m)')
          BY <1>8, <4>5, FS_Subset
        <4> QED
          BY <1>8, <4>4, <4>6, Constants
      <3> QED
        BY <3>2, <3>3
    <2> QED
      BY <2>1, <2>2
  <1> QED
    BY <1>5, <1>6, <1>9 DEF SurviveInv, RoomOK

LEMMA SurviveStep == TypeInv /\ LoginInv /\ SurviveInv /\ [Next]_vars => SurviveInv'
  <1> SUFFICES ASSUME TypeInv, LoginInv, SurviveInv, [Next]_vars PROVE SurviveInv'
    OBVIOUS
  <1>1. ASSUME NEW b \in Browsers, NEW l \in Logins, Refuse(b, l)
        PROVE  SurviveInv'
    <2>1. /\ \A m \in Logins : Kept(m)
          /\ \A c \in Browsers : cookie'[c] = IF c = b THEN Nobody ELSE cookie[c]
          /\ \A m \in Logins : m # l /\ attempt[m].browser = b =>
                 attempt'[m].state # "alone"
      BY <1>1, AnsweredEffect DEF TypeInv, AttemptsOK, Refuse
    <2>2. UNCHANGED <<now, pending>> /\ (cookie[b] # l \/ l \notin pending)
      BY <1>1 DEF Refuse, OwnState
    <2>3. ASSUME NEW m \in Logins, m \in pending, attempt[m].state = "alone"
          PROVE  \/ attempt'[m].state # "alone"
                 \/ cookie'[attempt[m].browser] = cookie[attempt[m].browser]
      <3>1. cookie[attempt[m].browser] = m /\ attempt[m].browser \in Browsers
        BY <2>3, UnbegunFields DEF SurviveInv, AloneOK, LoginInv, BegunOK
      <3> QED
        BY <2>1, <2>2, <2>3, <3>1
    <2> QED
      BY <2>1, <2>2, <2>3, LeaveSurvive DEF Kept
  <1>2. ASSUME NEW b \in Browsers, NEW l \in Logins,
               TooLate(b, l) \/ \E t \in Tasks : Accept(t, b, l)
        PROVE  SurviveInv'
    <2>1. /\ UsedUp(l) /\ UNCHANGED now /\ pending' = pending \ {l}
          /\ \A m \in Logins \ {l} :
                attempt[m].browser \in Browsers =>
                    \/ attempt'[m].state # "alone"
                    \/ cookie'[attempt[m].browser] = cookie[attempt[m].browser]
      <3>1. CASE TooLate(b, l)
        BY <3>1, TooLateEffect DEF TypeInv, AttemptsOK, TooLate
      <3>2. ASSUME NEW t \in Tasks, Accept(t, b, l)
            PROVE  /\ UsedUp(l) /\ UNCHANGED <<now, cookie>> /\ pending' = pending \ {l}
        BY <3>2, AcceptEffect DEF TypeInv, AttemptsOK, Accept
      <3> QED
        BY <1>2, <3>1, <3>2
    <2>2. ASSUME NEW m \in Logins, m \in pending, attempt[m].state = "alone"
          PROVE  attempt[m].browser \in Browsers
      BY <2>2, UnbegunFields DEF LoginInv, BegunOK
    <2>3. ASSUME NEW m \in Logins
          PROVE  /\ attempt'[m].browser = attempt[m].browser
                 /\ attempt'[m].begun = attempt[m].begun
                 /\ attempt'[m] = Unbegun <=> attempt[m] = Unbegun
                 /\ m = l => attempt'[m].state = "used" /\ m \notin pending'
      BY <2>1, UnbegunFields DEF UsedUp, Kept
    <2> QED
      BY <2>1, <2>2, <2>3, LeaveSurvive DEF UsedUp, Kept
  <1>3. ASSUME NEW t \in Tasks, Busy(t), UNCHANGED <<now, pending>>,
               Answered(task[t].browser, task[t].login)
        PROVE  SurviveInv'
    <2> DEFINE b == task[t].browser
               l == task[t].login
    <2>1. /\ \A m \in Logins : Kept(m)
          /\ \A c \in Browsers : cookie'[c] = IF c = b THEN Nobody ELSE cookie[c]
          /\ \A m \in Logins : m # l /\ attempt[m].browser = b =>
                 attempt'[m].state # "alone"
      BY <1>3, AnsweredEffect DEF TypeInv, AttemptsOK
    <2>2. attempt[l].state = "used"
      BY <1>3 DEF LoginInv, HeldOK
    <2>3. ASSUME NEW m \in Logins, m \in pending, attempt[m].state = "alone"
          PROVE  \/ attempt'[m].state # "alone"
                 \/ cookie'[attempt[m].browser] = cookie[attempt[m].browser]
      <3>1. attempt[m].browser \in Browsers /\ m # l
        BY <2>2, <2>3, UnbegunFields DEF LoginInv, BegunOK
      <3> QED
        BY <2>1, <3>1
    <2> QED
      BY <1>3, <2>1, <2>3, LeaveSurvive DEF Kept
  <1>4. ASSUME UNCHANGED <<attempt, pending, cookie>>, now' \in {now, now + 1}
        PROVE  SurviveInv'
    BY <1>4, LeaveSurvive
  <1>5. ASSUME NEW t \in Tasks, NEW s \in Subjects, Exchange(t, s)
        PROVE  SurviveInv'
    BY <1>3, <1>4, <1>5 DEF Exchange, Conclude, Busy
  <1>6. ASSUME NEW t \in Tasks, StoreKeys(t)
        PROVE  SurviveInv'
    BY <1>3, <1>6 DEF StoreKeys, Conclude, Busy
  <1>7. ASSUME NEW t \in Tasks, Fail(t)
        PROVE  SurviveInv'
    <2>1. Busy(t)
      BY <1>7 DEF Fail, TypeInv, HoldersOK
    <2> QED
      BY <1>3, <1>7, <2>1 DEF Fail
  <1>8. ASSUME NEW t \in Tasks, KeysAnswered(t) \/ Abandon(t)
        PROVE  SurviveInv'
    BY <1>4, <1>8 DEF KeysAnswered, Abandon
  <1>9. CASE ChangeKey \/ Tick \/ UNCHANGED vars
    BY <1>4, <1>9 DEF ChangeKey, Tick, vars
  <1> QED
    BY <1>1, <1>2, <1>5, <1>6, <1>7, <1>8, <1>9, StartSurvive DEF Next

\* A login that is not too old can be completed, unless its browser disturbed it
\* or MaxPending logins were begun since: start takes the oldest login out of a
\* full map, and a response to a browser (login_error) clears that browser's
\* cookie only.
THEOREM LoginsSurvive == Spec => []LoginSurvives
  <1>1. SurviveInv => LoginSurvives
    BY DEF SurviveInv, AloneOK, RoomOK, LoginSurvives
  <1> QED
    BY InitType, TypeStep, InitLogins, LoginStep, InitSurvive, SurviveStep, <1>1, PTL
       DEF Spec

-----------------------------------------------------------------------------
(* How many sessions an account is given.                                  *)

\* The sessions in G given at w or later, and those given from t until w.
Later(G, w) == {g \in G : g.at >= w}

Within(G, t, w) == {g \in G : g.at >= t /\ g.at < w}

Of(s) == {g \in granted : g.subject = s}

\* The last window of s began at w.  It began with a session; it holds no more
\* than Limit of them, and so does the window before it, the first session of
\* which is Window seconds older than w.
Paced(s, w) ==
    /\ s \in DOMAIN windows =>
           /\ windows[s].started = w
           /\ windows[s].requests = Cardinality(Later(Of(s), w))
    /\ s \notin DOMAIN windows => now - w >= Window
    /\ Cardinality(Later(Of(s), w)) <= Limit
    /\ \A g \in Of(s) : g.at < w + Window
    /\ \E g \in Of(s) : g.at = w
    /\ \A t \in 0 .. MaxNow :
           t > w - Window => Cardinality(Within(Of(s), t, w)) < Limit
    /\ \A t \in 0 .. MaxNow : Cardinality(Within(Of(s), t, t + Window)) < 2 * Limit

\* The entry of s may have been pruned, so the beginning of its last window is
\* not part of the state.
RateOf(s) ==
    \/ Of(s) = {} /\ s \notin DOMAIN windows
    \/ \E w \in 0 .. now : Paced(s, w)

RateInv == IsFiniteSet(granted) /\ \A s \in Subjects : RateOf(s)

LEMMA InitRate == Init => RateInv
  BY FS_EmptySet DEF Init, RateInv, RateOf, Of, NoWindows

\* A span that meets two windows holds less than two limits.
LEMMA TwoWindows ==
    ASSUME NEW G, IsFiniteSet(G), \A g \in G : g.at \in Int,
           NEW t \in Int, NEW w \in Int,
           Cardinality(Within(G, t, w)) < Limit,
           Cardinality(Later(G, w)) <= Limit
    PROVE  Cardinality(Within(G, t, t + Window)) < 2 * Limit
  <1>1. /\ Within(G, t, w) \in SUBSET G /\ Later(G, w) \in SUBSET G
        /\ Within(G, t, t + Window) \subseteq Within(G, t, w) \cup Later(G, w)
    BY DEF Within, Later
  <1>2. IsFiniteSet(Within(G, t, w)) /\ IsFiniteSet(Later(G, w))
    BY <1>1, FS_Subset
  <1>3. /\ Cardinality(Within(G, t, w)) \in Nat /\ Cardinality(Later(G, w)) \in Nat
        /\ Cardinality(Within(G, t, w) \cap Later(G, w)) \in Nat
    BY <1>2, FS_CardinalityType, FS_Intersection
  <1>4. /\ IsFiniteSet(Within(G, t, w) \cup Later(G, w))
        /\ Cardinality(Within(G, t, w) \cup Later(G, w)) =
              Cardinality(Within(G, t, w)) + Cardinality(Later(G, w))
                - Cardinality(Within(G, t, w) \cap Later(G, w))
    BY <1>2, FS_Union
  <1>5. /\ Cardinality(Within(G, t, t + Window)) <=
              Cardinality(Within(G, t, w) \cup Later(G, w))
        /\ Cardinality(Within(G, t, t + Window)) \in Nat
    BY <1>1, <1>4, FS_Subset, FS_CardinalityType
  <1> QED
    BY <1>3, <1>4, <1>5, Constants

LEMMA OfType ==
    ASSUME TypeInv, IsFiniteSet(granted), NEW s
    PROVE  IsFiniteSet(Of(s)) /\ \A g \in Of(s) : g.at \in 0 .. MaxNow
  <1>1. Of(s) \in SUBSET granted
    BY DEF Of
  <1> QED
    BY <1>1, FS_Subset DEF TypeInv, GrantsOK, Of

\* An account that is given no session may lose an entry that has run out.
LEMMA OtherRate ==
    ASSUME TypeInv, NEW s \in Subjects, RateOf(s), Of(s)' = Of(s),
           now' \in {now, now + 1},
           s \in DOMAIN windows' => s \in DOMAIN windows /\ windows'[s] = windows[s],
           s \in DOMAIN windows /\ s \notin DOMAIN windows' => Over(windows[s], now)
    PROVE  RateOf(s)'
  <1>1. CASE Of(s) = {} /\ s \notin DOMAIN windows
    BY <1>1 DEF RateOf
  <1>2. ASSUME NEW w \in 0 .. now, Paced(s, w)
        PROVE  RateOf(s)'
    <2>1. now \in Nat /\ w \in Nat /\ Window \in Nat /\ w \in 0 .. now'
      BY Constants DEF TypeInv, KeysOK
    <2>2. s \notin DOMAIN windows' => now' - w >= Window
      <3>1. s \notin DOMAIN windows' => now - w >= Window
        BY <1>2 DEF Paced, Over
      <3>2. now - w >= Window => now' - w >= Window
        <4>1. \A a, b, c \in Nat : a - b >= c => (a + 1) - b >= c
          OBVIOUS
        <4> QED
          BY <2>1, <4>1
      <3> QED
        BY <3>1, <3>2
    <2>3. Paced(s, w)'
      BY <1>2, <2>2 DEF Paced
    <2> QED
      BY <2>1, <2>3 DEF RateOf
  <1> QED
    BY <1>1, <1>2 DEF RateOf

\* The account is given another session in its window.
LEMMA SameWindow ==
    ASSUME TypeInv, IsFiniteSet(granted), NEW s \in Subjects, RateOf(s), NEW g,
           g \notin Of(s), Of(s)' = Of(s) \cup {g}, g.at = now, now' = now,
           s \in DOMAIN windows, ~Over(windows[s], now), windows[s].requests < Limit,
           s \in DOMAIN windows',
           windows'[s] = [windows[s] EXCEPT !.requests = windows[s].requests + 1]
    PROVE  RateOf(s)'
  <1> DEFINE G == Of(s)
             H == G \cup {g}
  <1>1. PICK w \in 0 .. now : Paced(s, w)
    BY DEF RateOf
  <1>2. /\ now \in Nat /\ w \in Nat /\ w <= now /\ Window \in Nat \ {0}
        /\ Limit \in Nat /\ MaxNow \in Nat
    BY Constants DEF TypeInv, KeysOK
  <1>3. /\ windows[s] \in [started : 0 .. MaxNow, requests : 0 .. Limit]
        /\ windows[s].started = w
    BY <1>1 DEF TypeInv, GrantsOK, Windows, Paced
  <1>4. now < w + Window
    BY <1>2, <1>3 DEF Over
  <1>5. /\ IsFiniteSet(G) /\ IsFiniteSet(H)
        /\ \A x \in H : x.at \in Int
        /\ \A x \in G : x.at \in Int
    BY <1>2, OfType, AddOne
  <1>6. /\ Later(H, w) = Later(G, w) \cup {g} /\ g \notin Later(G, w)
        /\ IsFiniteSet(Later(G, w))
    <2>1. Later(G, w) \in SUBSET G
      BY DEF Later
    <2>2. IsFiniteSet(Later(G, w))
      BY <1>5, <2>1, FS_Subset
    <2>3. Later(H, w) = Later(G, w) \cup {g} /\ g \notin Later(G, w)
      BY <1>2 DEF Later
    <2> QED
      BY <2>2, <2>3
  <1>7. /\ Cardinality(Later(H, w)) = Cardinality(Later(G, w)) + 1
        /\ Cardinality(Later(G, w)) = windows[s].requests
    BY <1>1, <1>6, AddOne DEF Paced
  <1>8. /\ windows'[s].started = w
        /\ windows'[s].requests = Cardinality(Later(H, w))
        /\ Cardinality(Later(H, w)) <= Limit
    BY <1>2, <1>3, <1>7
  <1>9. ASSUME NEW t \in 0 .. MaxNow, t > w - Window
        PROVE  Cardinality(Within(H, t, w)) < Limit
    <2>1. Within(H, t, w) = Within(G, t, w)
      BY <1>2 DEF Within
    <2> QED
      BY <1>1, <1>9, <2>1 DEF Paced
  <1>10. ASSUME NEW t \in 0 .. MaxNow
         PROVE  Cardinality(Within(H, t, t + Window)) < 2 * Limit
    <2>1. CASE t > w - Window
      <3>1. Cardinality(Within(H, t, w)) < Limit
        BY <1>9, <2>1
      <3>2. t \in Int /\ w \in Int
        BY <1>2
      <3> HIDE DEF H, G
      <3> QED
        BY <1>5, <1>8, <3>1, <3>2, TwoWindows
    <2>2. CASE ~(t > w - Window)
      <3>1. ~(now < t + Window)
        BY <1>2, <2>2
      <3>2. Within(H, t, t + Window) = Within(G, t, t + Window)
        BY <3>1 DEF Within
      <3> QED
        BY <1>1, <3>2 DEF Paced
    <2> QED
      BY <2>1, <2>2
  <1>11. /\ \A x \in H : x.at < w + Window
         /\ \E x \in H : x.at = w
    BY <1>1, <1>4 DEF Paced
  <1>12. Of(s)' = H /\ w \in 0 .. now'
    BY <1>2
  <1> HIDE DEF H, G
  <1>13. Paced(s, w)'
    BY <1>8, <1>9, <1>10, <1>11, <1>12 DEF Paced
  <1> QED
    BY <1>12, <1>13 DEF RateOf

\* The account is given a session and a window with it.
LEMMA NewWindow ==
    ASSUME TypeInv, IsFiniteSet(granted), NEW s \in Subjects, RateOf(s), NEW g,
           g \notin Of(s), Of(s)' = Of(s) \cup {g}, g.at = now, now' = now,
           s \in DOMAIN windows => Over(windows[s], now),
           s \in DOMAIN windows', windows'[s] = [started |-> now, requests |-> 1]
    PROVE  RateOf(s)'
  <1> DEFINE G == Of(s)
             H == G \cup {g}
  <1>1. /\ now \in Nat /\ Window \in Nat \ {0} /\ Limit \in Nat \ {0} /\ MaxNow \in Nat
    BY Constants DEF TypeInv, KeysOK
  <1>2. /\ IsFiniteSet(G) /\ IsFiniteSet(H)
        /\ \A x \in H : x.at \in Int
        /\ \A x \in G : x.at \in Int
    BY <1>1, OfType, AddOne
  <1>3. \/ G = {}
        \/ \E w \in 0 .. now : Paced(s, w) /\ w + Window <= now
    <2>1. ASSUME NEW w \in 0 .. now, Paced(s, w)
          PROVE  w + Window <= now
      <3>1. now - w >= Window
        BY <2>1 DEF Paced, Over
      <3> QED
        BY <1>1, <3>1
    <2> QED
      BY <2>1 DEF RateOf
  <1>4. \A x \in G : x.at < now
    <2>1. ASSUME NEW w \in 0 .. now, Paced(s, w), w + Window <= now
          PROVE  \A x \in G : x.at < now
      BY <1>1, <1>2, <2>1 DEF Paced
    <2> QED
      BY <1>3, <2>1
  <1>5. Later(H, now) = {g}
    BY <1>1, <1>2, <1>4 DEF Later
  <1>6. Cardinality(Later(H, now)) = 1
    BY <1>5, FS_Singleton
  <1>7. ASSUME NEW t \in 0 .. MaxNow, t > now - Window
        PROVE  Cardinality(Within(H, t, now)) < Limit
    <2>1. Within(H, t, now) \subseteq G
      BY <1>1 DEF Within
    <2>2. CASE G = {}
      <3>1. Within(H, t, now) = {}
        BY <2>1, <2>2
      <3>2. Cardinality(Within(H, t, now)) = 0
        BY <3>1, FS_EmptySet
      <3> QED
        BY <3>2, Constants
    <2>3. ASSUME NEW w \in 0 .. now, Paced(s, w), w + Window <= now
          PROVE  Cardinality(Within(H, t, now)) < Limit
      <3>1. PICK first \in G : first.at = w
        BY <2>3 DEF Paced
      <3>2. w < t
        BY <1>1, <1>7, <2>3
      <3>3. Within(H, t, now) \subseteq Later(G, w) \ {first}
        BY <1>1, <1>2, <2>1, <3>1, <3>2 DEF Within, Later
      <3>4. first \in Later(G, w) /\ Later(G, w) \in SUBSET G
        BY <3>1 DEF Later
      <3>5. IsFiniteSet(Later(G, w))
        BY <1>2, <3>4, FS_Subset
      <3>6. /\ IsFiniteSet(Later(G, w) \ {first})
            /\ Cardinality(Later(G, w) \ {first}) = Cardinality(Later(G, w)) - 1
        BY <3>4, <3>5, FS_RemoveElement
      <3>7. /\ Cardinality(Within(H, t, now)) <= Cardinality(Later(G, w) \ {first})
            /\ IsFiniteSet(Within(H, t, now))
        BY <3>3, <3>6, FS_Subset
      <3>8. Cardinality(Within(H, t, now)) \in Nat /\ Cardinality(Later(G, w)) \in Nat
        BY <3>5, <3>7, FS_CardinalityType
      <3>9. Cardinality(Later(G, w)) <= Limit
        BY <2>3 DEF Paced
      <3> QED
        BY <1>1, <3>6, <3>7, <3>8, <3>9
    <2> QED
      BY <1>3, <2>2, <2>3
  <1>8. ASSUME NEW t \in 0 .. MaxNow
        PROVE  Cardinality(Within(H, t, t + Window)) < 2 * Limit
    <2>1. CASE t > now - Window
      <3>1. Cardinality(Within(H, t, now)) < Limit
        BY <1>7, <2>1
      <3>2. t \in Int /\ now \in Int /\ Cardinality(Later(H, now)) <= Limit
        BY <1>1, <1>6
      <3> HIDE DEF H, G
      <3> QED
        BY <1>2, <3>1, <3>2, TwoWindows
    <2>2. CASE ~(t > now - Window)
      <3>1. ~(now < t + Window)
        BY <1>1, <2>2
      <3>2. Within(H, t, t + Window) = Within(G, t, t + Window)
        BY <3>1 DEF Within
      <3>3. CASE G = {}
        <4>1. Within(H, t, t + Window) = {}
          BY <3>2, <3>3 DEF Within
        <4>2. Cardinality(Within(H, t, t + Window)) = 0
          BY <4>1, FS_EmptySet
        <4>3. 0 < 2 * Limit
          BY <1>1
        <4> QED
          BY <4>2, <4>3
      <3> QED
        BY <1>3, <3>2, <3>3 DEF Paced
    <2> QED
      BY <2>1, <2>2
  <1>9. /\ \A x \in H : x.at < now + Window
        /\ \E x \in H : x.at = now
    BY <1>1, <1>2, <1>4
  <1>10. Of(s)' = H /\ now \in 0 .. now
    BY <1>1
  <1>11. windows'[s].started = now /\ windows'[s].requests = 1 /\ 1 <= Limit
    BY <1>1
  <1> HIDE DEF H, G
  <1>12. Paced(s, now)'
    BY <1>6, <1>7, <1>8, <1>9, <1>10, <1>11 DEF Paced
  <1> QED
    BY <1>10, <1>12 DEF RateOf

\* A session that is given was not given before, and is counted; a request that
\* is refused, or fails earlier, gives none.
LEMMA ConcludeRate ==
    ASSUME TypeInv, LoginInv, RateInv, NEW t \in Tasks, Busy(t), NEW s \in Subjects,
           NEW k, NEW keys, Conclude(t, s, k, keys), UNCHANGED now
    PROVE  RateInv'
  <1> DEFINE g == [login |-> task[t].login, subject |-> s,
                   browser |-> task[t].browser, at |-> now]
             w == Checked(windows, s, now)
  <1>1. /\ Windows(windows) /\ now \in 0 .. MaxNow
        /\ IsFiniteSet(granted) /\ \A b \in Subjects : RateOf(b)
    BY DEF TypeInv, GrantsOK, KeysOK, RateInv
  <1>2. \/ granted' = granted /\ windows' = windows
        \/ granted' = granted /\ windows' = w /\ ~Allowed(windows, s, now)
        \/ granted' = granted \cup {g} /\ windows' = w /\ Allowed(windows, s, now)
    BY DEF Conclude
  <1>3. g \notin granted /\ g.subject = s /\ g.at = now
    BY DEF LoginInv, GivenOK
  <1>4. /\ s \in DOMAIN w
        /\ w[s] = IF s \in DOMAIN windows /\ ~Over(windows[s], now)
                  THEN IF windows[s].requests < Limit
                       THEN [windows[s] EXCEPT !.requests = windows[s].requests + 1]
                       ELSE windows[s]
                  ELSE [started |-> now, requests |-> 1]
        /\ Allowed(windows, s, now) <=>
             (s \in DOMAIN windows /\ ~Over(windows[s], now) =>
                windows[s].requests < Limit)
        /\ \A b \in Subjects \ {s} :
             /\ b \in DOMAIN w => b \in DOMAIN windows /\ w[b] = windows[b]
             /\ b \in DOMAIN windows /\ b \notin DOMAIN w => Over(windows[b], now)
    BY <1>1, CheckedEffect
  <1> HIDE DEF g, w
  <1>5. IsFiniteSet(granted')
    BY <1>1, <1>2, AddOne
  <1>6. ASSUME NEW b \in Subjects \ {s}
        PROVE  RateOf(b)'
    <2>1. Of(b)' = Of(b)
      BY <1>2, <1>3 DEF Of
    <2>2. /\ b \in DOMAIN windows' => b \in DOMAIN windows /\ windows'[b] = windows[b]
          /\ b \in DOMAIN windows /\ b \notin DOMAIN windows' => Over(windows[b], now)
      BY <1>2, <1>4
    <2> QED
      BY <1>1, <2>1, <2>2, OtherRate
  <1>7. RateOf(s)'
    <2>1. CASE granted' = granted /\ windows' = windows
      <3>1. Of(s)' = Of(s)
        BY <2>1 DEF Of
      <3> QED
        BY <1>1, <2>1, <3>1, OtherRate
    <2>2. CASE granted' = granted /\ windows' = w /\ ~Allowed(windows, s, now)
      <3>1. Of(s)' = Of(s)
        BY <2>2 DEF Of
      <3>2. s \in DOMAIN windows /\ windows'[s] = windows[s] /\ s \in DOMAIN windows'
        BY <1>4, <2>2
      <3> QED
        BY <1>1, <3>1, <3>2, OtherRate
    <2>3. CASE granted' = granted \cup {g} /\ windows' = w /\ Allowed(windows, s, now)
      <3>1. Of(s)' = Of(s) \cup {g} /\ g \notin Of(s)
        BY <1>3, <2>3 DEF Of
      <3>2. CASE s \in DOMAIN windows /\ ~Over(windows[s], now)
        <4>1. /\ windows[s].requests < Limit /\ s \in DOMAIN windows'
              /\ windows'[s] = [windows[s] EXCEPT !.requests = windows[s].requests + 1]
          BY <1>4, <2>3, <3>2
        <4> QED
          BY <1>1, <1>3, <3>1, <3>2, <4>1, SameWindow
      <3>3. CASE ~(s \in DOMAIN windows /\ ~Over(windows[s], now))
        <4>1. /\ s \in DOMAIN windows'
              /\ windows'[s] = [started |-> now, requests |-> 1]
          BY <1>4, <2>3, <3>3
        <4> QED
          BY <1>1, <1>3, <3>1, <3>3, <4>1, NewWindow
      <3> QED
        BY <3>2, <3>3
    <2> QED
      BY <1>2, <2>1, <2>2, <2>3
  <1> QED
    BY <1>5, <1>6, <1>7 DEF RateInv

LEMMA RateStep == TypeInv /\ LoginInv /\ RateInv /\ [Next]_vars => RateInv'
  <1> SUFFICES ASSUME TypeInv, LoginInv, RateInv, [Next]_vars PROVE RateInv'
    OBVIOUS
  <1>1. ASSUME UNCHANGED <<granted, windows>>, now' \in {now, now + 1}
        PROVE  RateInv'
    <2>1. ASSUME NEW s \in Subjects
          PROVE  RateOf(s)'
      <3>1. Of(s)' = Of(s)
        BY <1>1 DEF Of
      <3> QED
        BY <1>1, <3>1, OtherRate DEF RateInv
    <2> QED
      BY <1>1, <2>1 DEF RateInv
  <1>2. ASSUME NEW b \in Browsers, NEW l \in Logins,
               Start(b, l) \/ Refuse(b, l) \/ TooLate(b, l)
        PROVE  RateInv'
    BY <1>1, <1>2 DEF Start, Refuse, TooLate, grantVars
  <1>3. ASSUME NEW t \in Tasks,
               \/ \E b \in Browsers, l \in Logins : Accept(t, b, l)
               \/ KeysAnswered(t) \/ Fail(t) \/ Abandon(t)
        PROVE  RateInv'
    BY <1>1, <1>3 DEF Accept, KeysAnswered, Fail, Abandon, grantVars
  <1>4. ASSUME NEW t \in Tasks, NEW s \in Subjects, Exchange(t, s)
        PROVE  RateInv'
    BY <1>1, <1>4, ConcludeRate DEF Exchange, Busy, grantVars
  <1>5. ASSUME NEW t \in Tasks, StoreKeys(t)
        PROVE  RateInv'
    <2>1. Busy(t) /\ task[t].subject \in Subjects
      BY <1>5 DEF StoreKeys, Busy, TypeInv, HoldersOK
    <2> QED
      BY <1>5, <2>1, ConcludeRate DEF StoreKeys
  <1>6. CASE ChangeKey \/ Tick \/ UNCHANGED vars
    BY <1>1, <1>6 DEF ChangeKey, Tick, vars, grantVars
  <1> QED
    BY <1>2, <1>3, <1>4, <1>5, <1>6 DEF Next

\* An account is given fewer than two limits of sessions in any span as long as a
\* window (RateLimits::check, establish_browser_session), wherever the span falls
\* and whatever entries were pruned from the table in between.
THEOREM SessionsArePaced == Spec => []SessionRate
  <1>1. RateInv /\ TypeInv => SessionRate
    <2>1. ASSUME RateInv, NEW s \in Subjects, NEW t \in 0 .. MaxNow
          PROVE  Cardinality(GivenFrom(s, t)) < 2 * Limit
      <3>1. GivenFrom(s, t) = Within(Of(s), t, t + Window)
        BY DEF GivenFrom, Within, Of
      <3>2. CASE Of(s) = {}
        <4>1. Cardinality(GivenFrom(s, t)) = 0
          BY <3>1, <3>2, FS_EmptySet DEF Within
        <4>2. 0 < 2 * Limit
          BY Constants
        <4> QED
          BY <4>1, <4>2
      <3> QED
        BY <2>1, <3>1, <3>2 DEF RateInv, RateOf, Paced
    <2> QED
      BY <2>1 DEF SessionRate
  <1> QED
    BY InitType, TypeStep, InitLogins, LoginStep, InitRate, RateStep, <1>1, PTL DEF Spec
=============================================================================

----------------------------- MODULE RateLimits -----------------------------
(***************************************************************************)
(* The fixed windows of RateLimits (devsite-server/src/api.rs): the server *)
(* counts the requests of an account in one class in windows that begin    *)
(* with the first request after the last one ran out.  One class is        *)
(* modelled; the classes share the table but not the counters.             *)
(*                                                                         *)
(* `windows` is a function from the accounts that have an entry.           *)
(***************************************************************************)
EXTENDS Integers, FiniteSets

CONSTANTS
    Subjects,   \* accounts
    Limit,      \* RateClass::limit (12 sessions in the code)
    Window,     \* WINDOW_SECS (60 in the code)
    MaxWindows  \* entries the table holds before it is pruned (4096)

ASSUME RateAssumption ==
    /\ Limit \in Nat \ {0}
    /\ Window \in Nat \ {0}
    /\ MaxWindows \in Nat

\* Has this entry run out?
Over(w, now) == now - w.started >= Window

\* Mutant: the whole table goes when it is full.
PrunedAll(windows, now) ==
    [a \in {b \in DOMAIN windows : Cardinality(DOMAIN windows) <= MaxWindows}
        |-> windows[a]]

\* A table that has grown too large loses the entries that have run out.
Pruned(windows, now) ==
    [a \in {b \in DOMAIN windows :
              Cardinality(DOMAIN windows) > MaxWindows => ~Over(windows[b], now)}
        |-> windows[a]]

\* The entry a request of account a is counted in.
Current(windows, a, now) ==
    IF a \in DOMAIN windows /\ ~Over(windows[a], now)
    THEN windows[a]
    ELSE [started |-> now, requests |-> 0]

\* RateLimits::check answers whether the request may go on ...
Allowed(windows, a, now) ==
    Current(Pruned(windows, now), a, now).requests < Limit

\* ... and leaves this table behind.
Checked(windows, a, now) ==
    LET kept == Pruned(windows, now)
        w == Current(kept, a, now) IN
    [b \in DOMAIN kept \cup {a} |->
        IF b # a THEN kept[b]
        ELSE IF w.requests < Limit THEN [w EXCEPT !.requests = @ + 1] ELSE w]
=============================================================================

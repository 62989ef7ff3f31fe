----------------------------- MODULE Capability -----------------------------
(***************************************************************************)
(* The stream ticket of devsite: a capability minted by the control plane  *)
(* (devsite-server/src/issuer.rs), checked by the daemon that serves the   *)
(* resource (devsite-proto/src/capability.rs, devsite-daemon/src/verify.rs)*)
(* and remembered by its replay guard.                                     *)
(*                                                                         *)
(* Signatures are abstracted: a daemon is only ever shown members of the   *)
(* set of issued claims, which is what an unforgeable signature means.     *)
(* Keys, accounts, resources and nonces are members of small sets.  The    *)
(* only permission the code has, TcpConnect, is left out of the record.    *)
(***************************************************************************)
EXTENDS Integers

CONSTANTS
    Accounts,   \* accounts a capability can name as its viewer
    Services,   \* resources of kind service
    Endpoints,  \* endpoint keys of daemons
    Clients,    \* endpoint keys of connectors
    Nonces,     \* 16 byte nonces
    Lifetime,   \* DEFAULT_LIFETIME_SECS (180 in the code)
    Skew        \* MAX_CLOCK_SKEW_SECS (30 in the code)

ASSUME CapabilityAssumption ==
    /\ Lifetime \in Nat \ {0}
    /\ Skew \in Nat

\* A viewer and the resource it may reach: what the control plane authorises
\* and what an open stream is accounted under.
Pairs == Accounts \X Services

Claims ==
    [viewer : Accounts, resource : Services, audience : Endpoints,
     client_key : Clients, issued_at : Nat, expires_at : Nat, nonce : Nonces]

\* Mutant: the lifetime is taken from the issue time instead of added to it.
IssueBackwards(pair, audience, client_key, now, nonce) ==
    [viewer |-> pair[1], resource |-> pair[2], audience |-> audience,
     client_key |-> client_key, issued_at |-> now,
     expires_at |-> now - Lifetime, nonce |-> nonce]

\* Issuer::issue.  The nonce is drawn at random; the caller passes a fresh one.
Issue(pair, audience, client_key, now, nonce) ==
    [viewer |-> pair[1], resource |-> pair[2], audience |-> audience,
     client_key |-> client_key, issued_at |-> now,
     expires_at |-> now + Lifetime, nonce |-> nonce]

\* SignedCapability::verify_for.  A capability is still good in the very
\* second it expires (`now > expires_at` refuses).
VerifyFor(claims, audience, peer, clock) ==
    /\ claims.audience = audience
    /\ claims.client_key = peer
    /\ clock <= claims.expires_at
    /\ claims.issued_at <= clock + Skew

-----------------------------------------------------------------------------
(* ReplayGuard: a map from nonce to expiry, here the set of its entries.   *)

Entry(claims) == [nonce |-> claims.nonce, expiry |-> claims.expires_at]

Entries == [nonce : Nonces, expiry : Nat]

\* Mutant: a guard that keeps only entries that outlive the lifetime window.
RetainedTooFew(seen, clock) == {e \in seen : e.expiry > clock + 1}

\* seen.retain(|_, expiry| *expiry > now): an entry whose capability expires
\* this second is dropped although VerifyFor still accepts that capability.
Retained(seen, clock) == {e \in seen : e.expiry > clock}

\* seen.contains_key(&nonce), after the retain.
Replayed(seen, claims, clock) ==
    \E e \in Retained(seen, clock) : e.nonce = claims.nonce

\* seen.insert(nonce, expires_at), after the retain.
Recorded(seen, claims, clock) == Retained(seen, clock) \cup {Entry(claims)}
=============================================================================

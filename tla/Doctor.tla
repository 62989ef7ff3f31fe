------------------------------- MODULE Doctor -------------------------------
(***************************************************************************)
(* The commands that only report: `devsite doctor` and `devsite resources  *)
(* list` (devsite-cli/src/main.rs), as functions of the state of           *)
(* HostConfig.  A report is taken to see one state, so what it says may be *)
(* out of date when it is printed, but not mixed; the control plane is     *)
(* reached and speaks the same versions.  File permissions, the public half*)
(* of the key and visibilities are left out.                               *)
(*                                                                         *)
(* daemon_running says that the lock is held, which for a moment another   *)
(* report may do as well.                                                  *)
(***************************************************************************)
EXTENDS HostConfig

DaemonRunning == lock # None

Hosted == {n \in Names : file.services[n] # None}

\* Services of the config that the control plane does not list.
LocalOnly == {n \in Hosted : \A m \in Names : service[m] # file.services[n]}

LocalKey == IF identity \in Keys THEN identity ELSE None

Bound == credential[file.cred].key

BoundMatches == LocalKey # None /\ LocalKey = Bound

RegisteredMatches == registered = LocalKey

SignedIn == file.cred # None /\ Enrolled(file.cred)

-----------------------------------------------------------------------------
(* The checks of the doctor that can end in a failure, in its order: without*)
(* a server it stops early, and without a valid secret it asks nothing more.*)

ConfigReadable == file.whole

IdentityReadable ==
    identity # "torn" /\ (identity = None => file.cred = None)

SigningKeyMatches == file.cred # None => file.pinned = signingKey

CredentialValid == file.cred # None => SignedIn

CredentialBinding == SignedIn => BoundMatches

Registration ==
    SignedIn /\ registered # None /\ ~RegisteredMatches => ~DaemonRunning

Healthy ==
    /\ ConfigReadable
    /\ IdentityReadable
    /\ SigningKeyMatches
    /\ CredentialValid
    /\ CredentialBinding
    /\ Registration

(* What the doctor asks to be done.                                        *)

StartDaemon == ~DaemonRunning /\ Hosted # {}

Login == file.cred = None \/ ~SignedIn

VerifySigningKeyChange == file.cred # None /\ file.pinned # signingKey

RegisterThisEndpoint ==
    SignedIn /\ BoundMatches /\ ~RegisteredMatches /\ Hosted # {}

RemoveLocalOnly == SignedIn /\ LocalOnly # {}

NothingToDo ==
    /\ ~StartDaemon
    /\ ~Login
    /\ ~VerifySigningKeyChange
    /\ ~RegisterThisEndpoint
    /\ ~RemoveLocalOnly

\* resources list: what it says of the account's service of this name.
StateOf(n) ==
    CASE service[n] = None -> "absent"
      [] service[n] \notin {None, file.services[n]} -> "not_configured_here"
      [] service[n] # None /\ service[n] = file.services[n] ->
             IF DaemonRunning THEN "serving_here" ELSE "configured_here"

-----------------------------------------------------------------------------
(* Properties.                                                             *)

\* A healthy report that asks for nothing can be trusted: the daemon that
\* serves was registered with a secret that is still valid, for the key that
\* capabilities will name, and it checks them against the key they will be
\* signed with.  It kept all three from the day it was started, so this rests
\* on what revocation does to the registration and on what an enrolment
\* refuses.  The exception is a registration that was past its authentication
\* when its secret was revoked.
CleanBillServes ==
    Healthy /\ NothingToDo /\ Hosted # {} /\ ~history.raced =>
        \A p \in Procs : proc[p].at = "serving" =>
            /\ Enrolled(proc[p].copy.cred)
            /\ proc[p].key = registered
            /\ proc[p].copy.pinned = signingKey

\* README.md:221 "Adding or removing a service does not require a restart": a
\* service that is listed as serving here is served by a daemon that stays up,
\* under the id that is listed.
ListedIsServed ==
    \A p \in Procs, n \in Names :
        []<>(proc[p].at = "serving" /\ StateOf(n) = "serving_here" =>
                 proc[p].copy.services[n] = service[n])
=============================================================================

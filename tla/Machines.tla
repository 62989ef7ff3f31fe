------------------------------ MODULE Machines ------------------------------
(***************************************************************************)
(* Machine credentials and the daemon each account is reached at: the      *)
(* tables machine_credentials and daemons (devsite-server/src/db.rs) and   *)
(* the handlers of devsite-server/src/api.rs that enrol a machine, register*)
(* its daemon and revoke it.                                               *)
(*                                                                         *)
(* Concurrency.  enroll_machine and register_daemon take the database lock *)
(* twice: they look the credential up, release the lock, check rates and   *)
(* signatures, and lock again to write.  `handler` holds the calls that    *)
(* are between their two locks and what they read under the first one.     *)
(* Every other handler is one action.                                      *)
(*                                                                         *)
(* Secrets are abstracted: a caller who has the secret of a credential may *)
(* present it.  Enrolment replaces the hash, so the ticket authenticates   *)
(* while the credential is bound to no key and the machine secret after.   *)
(* A credential id is random and is never used again.                      *)
(***************************************************************************)
EXTENDS Integers, FiniteSets

CONSTANTS
    Accounts,
    Credentials,     \* ids of machine credentials
    Endpoints,       \* endpoint keys of machines
    Handlers,        \* slots for calls between their two locks (bound)
    NoAccount,
    NoKey,           \* SQL NULL, or no row in daemons
    MaxCredentials   \* MAX_MACHINE_CREDENTIALS (10 in the code)

ASSUME MachinesAssumption ==
    /\ NoAccount \notin Accounts
    /\ NoKey \notin Endpoints
    /\ MaxCredentials \in Nat

VARIABLES
    credential,   \* rows of machine_credentials, by id
    daemons,      \* table daemons: endpoint registered for an account
    handler,      \* calls between their two locks
    raced         \* history: registrations in flight when their key was revoked

machineVars == <<credential, daemons, handler, raced>>

CredentialRows ==
    [status : {"unused", "ticket", "enrolled", "revoked"},
     account : Accounts \cup {NoAccount}, key : Endpoints \cup {NoKey},
     broker : BOOLEAN]

Unused ==
    [status |-> "unused", account |-> NoAccount, key |-> NoKey, broker |-> FALSE]

Calls ==
    [op : {"enroll", "register"}, credential : Credentials,
     account : Accounts, key : Endpoints]

Free == [op |-> "none"]

MachineInit ==
    /\ credential = [c \in Credentials |-> Unused]
    /\ daemons = [a \in Accounts |-> NoKey]
    /\ handler = [h \in Handlers |-> Free]
    /\ raced = {}

\* The account's rows in machine_credentials, enrolled or not.
Held(a) ==
    {c \in Credentials :
        /\ credential[c].status \in {"ticket", "enrolled"}
        /\ credential[c].account = a}

-----------------------------------------------------------------------------
\* create_machine_credential: the dashboard hands out an enrolment ticket,
\* with or without the scope service_grants:issue.
CreateMachineCredential(c, a, broker) ==
    /\ credential[c].status = "unused"
    /\ Cardinality(Held(a)) < MaxCredentials
    /\ credential' = [credential EXCEPT ![c] =
           [status |-> "ticket", account |-> a, key |-> NoKey, broker |-> broker]]
    /\ UNCHANGED <<daemons, handler, raced>>

\* machine_enrollment, under the first lock of enroll_machine.
EnrollLookup(h, c, k) ==
    /\ handler[h] = Free
    /\ credential[c].status = "ticket"
    /\ handler' = [handler EXCEPT ![h] =
           [op |-> "enroll", credential |-> c,
            account |-> credential[c].account, key |-> k]]
    /\ UNCHANGED <<credential, daemons, raced>>

\* Mutant: the UPDATE does not ask that the credential is still a ticket.
EnrollableByIdOnly(c, k) ==
    /\ credential[c].status \in {"ticket", "enrolled"}
    /\ \A d \in Credentials :
         credential[d].status = "enrolled" => credential[d].key # k

\* The WHERE clause of the UPDATE, and the unique index on endpoint_id.
Enrollable(c, k) ==
    /\ credential[c].status = "ticket"
    /\ \A d \in Credentials :
         credential[d].status = "enrolled" => credential[d].key # k

\* Db::enroll_machine, under the second lock.  A row that no longer matches
\* answers 401, a key that is bound already violates the index and answers 500.
EnrollCommit(h) ==
    LET call == handler[h] IN
    /\ call.op = "enroll"
    /\ credential' =
           IF Enrollable(call.credential, call.key)
           THEN [credential EXCEPT ![call.credential].status = "enrolled",
                                   ![call.credential].key = call.key]
           ELSE credential
    /\ handler' = [handler EXCEPT ![h] = Free]
    /\ UNCHANGED <<daemons, raced>>

\* require_machine, under the first lock of register_daemon.
RegisterAuthenticated(h, c) ==
    /\ handler[h] = Free
    /\ credential[c].status = "enrolled"
    /\ handler' = [handler EXCEPT ![h] =
           [op |-> "register", credential |-> c,
            account |-> credential[c].account, key |-> credential[c].key]]
    /\ UNCHANGED <<credential, daemons, raced>>

\* Db::register_daemon, under the second lock: one row per account.
RegisterCommit(h) ==
    LET call == handler[h] IN
    /\ call.op = "register"
    /\ daemons' = [daemons EXCEPT ![call.account] = call.key]
    /\ handler' = [handler EXCEPT ![h] = Free]
    /\ UNCHANGED <<credential, raced>>

\* The call ends between its locks: over its rate, a proof that does not
\* verify, or the process dies.
Abandon(h) ==
    /\ handler[h] # Free
    /\ handler' = [handler EXCEPT ![h] = Free]
    /\ UNCHANGED <<credential, daemons, raced>>

\* Mutant: the row of the account goes, whichever endpoint it names.
UnregisteredForAccount(c) ==
    [daemons EXCEPT ![credential[c].account] = NoKey]

\* Mutant: the row is looked for after the credential was deleted.
UnregisteredTooLate(c) == daemons

\* DELETE FROM daemons where it names the endpoint of this credential.
Unregistered(c) ==
    [a \in Accounts |->
        IF a = credential[c].account /\ daemons[a] = credential[c].key
        THEN NoKey
        ELSE daemons[a]]

\* Registrations of this credential that are past authentication.
InFlight(c) ==
    {<<credential[c].account, handler[h].key>> :
        h \in {g \in Handlers :
                 handler[g].op = "register" /\ handler[g].credential = c}}

\* revoke_machine_credential.
RevokeMachineCredential(c) ==
    /\ credential[c].status \in {"ticket", "enrolled"}
    /\ daemons' = Unregistered(c)
    /\ credential' = [credential EXCEPT ![c].status = "revoked"]
    /\ raced' = raced \cup InFlight(c)
    /\ UNCHANGED handler

\* The two statements of Db::revoke_machine_credential are two transactions;
\* the second one may not happen.
RevokeCutShort(c) ==
    /\ credential[c].status \in {"ticket", "enrolled"}
    /\ daemons' = Unregistered(c)
    /\ UNCHANGED <<credential, handler, raced>>

MachineNext ==
    \/ \E c \in Credentials, a \in Accounts, broker \in BOOLEAN :
           CreateMachineCredential(c, a, broker)
    \/ \E h \in Handlers :
           \/ \E c \in Credentials, k \in Endpoints : EnrollLookup(h, c, k)
           \/ EnrollCommit(h)
           \/ \E c \in Credentials : RegisterAuthenticated(h, c)
           \/ RegisterCommit(h)
           \/ Abandon(h)
    \/ \E c \in Credentials : RevokeMachineCredential(c) \/ RevokeCutShort(c)

MachineSpec == MachineInit /\ [][MachineNext]_machineVars

-----------------------------------------------------------------------------
(* Properties.                                                             *)

\* Every variable keeps its type; a row has a key once a machine enrolled with
\* it, and what a registration read under its first lock stays true of the
\* credential, revoked or not.
MachineTypeOK ==
    /\ credential \in [Credentials -> CredentialRows]
    /\ daemons \in [Accounts -> Endpoints \cup {NoKey}]
    /\ handler \in [Handlers -> Calls \cup {Free}]
    /\ raced \subseteq Accounts \X Endpoints
    /\ \A c \in Credentials :
         /\ credential[c].status \in {"ticket", "enrolled"} =>
                credential[c].account \in Accounts
         /\ credential[c].status = "enrolled" => credential[c].key \in Endpoints
         /\ credential[c].status \in {"unused", "ticket"} => credential[c].key = NoKey
    /\ \A h \in Handlers : handler[h].op = "register" =>
         LET row == credential[handler[h].credential] IN
         /\ row.status \in {"enrolled", "revoked"}
         /\ row.account = handler[h].account
         /\ row.key = handler[h].key

\* However many callers looked the same ticket up, one of them enrols, and the
\* key it bound is never exchanged for another.
EnrolledForGood ==
    [][\A c \in Credentials :
         credential[c].status = "enrolled" =>
             /\ credential'[c].key = credential[c].key
             /\ credential'[c].account = credential[c].account]_machineVars

\* No two credentials answer for the same endpoint key, so a key names at most
\* one credential to revoke.
OneCredentialPerKey ==
    \A c, d \in Credentials :
        /\ credential[c].status = "enrolled"
        /\ credential[d].status = "enrolled"
        /\ credential[c].key = credential[d].key
        => c = d

Bound(a, k) ==
    \E c \in Credentials :
        /\ credential[c].status = "enrolled"
        /\ credential[c].account = a
        /\ credential[c].key = k

\* docs/tickets.md:41 "Revoking it stops later authenticated use, unregisters
\* its bound daemon": capabilities are addressed to the endpoint of an enrolled
\* credential of the account, except to one whose registration was past its
\* authentication when the credential was revoked, and so restored its row.
RegisteredIsBound ==
    \A a \in Accounts :
        \/ daemons[a] = NoKey
        \/ Bound(a, daemons[a])
        \/ <<a, daemons[a]>> \in raced

\* A revocation unregisters the daemon of the machine it revokes and never that
\* of another machine of the account, whichever of them registered last.
SiblingStaysRegistered ==
    [][\A a \in Accounts : \A c \in Credentials :
         /\ daemons[a] # NoKey
         /\ daemons'[a] = NoKey
         /\ credential'[c].status # credential[c].status
         => credential[c].key = daemons[a]]_machineVars
=============================================================================

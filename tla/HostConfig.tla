----------------------------- MODULE HostConfig -----------------------------
(***************************************************************************)
(* One config directory of the devsite command line (devsite-cli/src/      *)
(* main.rs, devsite-daemon/src/config.rs) and the rows the control plane   *)
(* keeps for its account: `devsite login`, `service host`, `service remove`*)
(* and `daemon run` are processes that share config.json, the endpoint key *)
(* and daemon.lock, and each changes the control plane and this machine in *)
(* separate steps.                                                         *)
(*                                                                         *)
(* A process is a slot of `proc`: which command it runs, where it is, and  *)
(* the copies it carries.  Files are not locked: save_config truncates and *)
(* then writes, a reader in between finds a torn file, and of two writers  *)
(* the later one lands on the content of the earlier one.  A process may   *)
(* die, or its request fail or lose its answer, between any two steps      *)
(* (Stop).                                                                 *)
(*                                                                         *)
(* Left out: links, folders, recipients, visibility and the target address *)
(* of a service.  A missing config.json is the default config, as          *)
(* load_config makes it.                                                   *)
(***************************************************************************)
EXTENDS Integers, FiniteSets

CONSTANTS
    Names,        \* names of services
    Ids,          \* resource ids
    Credentials,  \* machine credentials of the account
    Keys,         \* endpoint keys this machine can generate
    ForeignKey,   \* the endpoint key of another machine of the account
    SigningKeys,  \* keys the control plane can sign capabilities with
    Procs,        \* slots for processes (bound)
    None,         \* an absent id, credential, key or process
    LoginItem,    \* what a login changes, beside the names
    MaxCommands,  \* bound on the commands started
    MaxChanges    \* bound on the changes made elsewhere

\* A machine can make a key, an account has room for a credential, and the
\* control plane signs with some key.
ASSUME HostConfigAssumption ==
    /\ None \notin Ids \cup Credentials \cup Keys \cup SigningKeys \cup Procs
    /\ None \notin Names \cup {LoginItem}
    /\ ForeignKey \notin Keys \cup {None}
    /\ "torn" \notin Keys \cup {None}
    /\ LoginItem \notin Names
    /\ Keys # {} /\ Credentials # {} /\ SigningKeys # {}
    /\ MaxCommands \in Nat
    /\ MaxChanges \in Nat

VARIABLES
    service,     \* control plane: id of the account's service by name
    credential,  \* control plane: rows of machine_credentials
    registered,  \* control plane: the account's row in daemons
    signingKey,  \* control plane: the key it signs with
    file,        \* config.json
    identity,    \* devsite-endpoint.key: a key, None or "torn"
    lock,        \* the process that holds daemon.lock
    proc,        \* processes by slot
    history,     \* [excused, raced, forked], see Properties
    spent        \* [commands, changes] so far (bound)

remoteVars == <<service, credential, registered, signingKey>>
localVars == <<file, identity, lock>>
vars == <<remoteVars, localVars, proc, history, spent>>

\* Ids, keys, secrets and slots are interchangeable: which one is taken of those
\* that are free makes no difference.
Any(S) == CHOOSE x \in S : TRUE

NoServices == [n \in Names |-> None]

\* A half written config.json; its other fields are those of the default
\* config, which is what the doctor goes on with.
Torn == [whole |-> FALSE, cred |-> None, pinned |-> None, services |-> NoServices]

Default == [Torn EXCEPT !.whole = TRUE]

Idle ==
    [cmd |-> "none", at |-> "idle", item |-> None, id |-> None, key |-> None,
     copy |-> Default, rival |-> FALSE, touched |-> {}]

\* A machine that has never run devsite, or one that has logged in.
Init ==
    /\ service = NoServices
    /\ signingKey = Any(SigningKeys)
    /\ \/ /\ credential = [c \in Credentials |-> [status |-> "unused", key |-> None]]
          /\ file = Default
          /\ identity = None
       \/ /\ credential = [c \in Credentials |->
                IF c = Any(Credentials)
                THEN [status |-> "enrolled", key |-> Any(Keys)]
                ELSE [status |-> "unused", key |-> None]]
          /\ file = [Default EXCEPT !.cred = Any(Credentials),
                                    !.pinned = signingKey]
          /\ identity = Any(Keys)
    /\ registered = None
    /\ lock = None
    /\ proc = [p \in Procs |-> Idle]
    /\ history = [excused |-> {}, raced |-> FALSE, forked |-> FALSE]
    /\ spent = [commands |-> 0, changes |-> 0]

-----------------------------------------------------------------------------
(* Steps that several commands share.                                      *)

\* Processes other than p that are working on the same item.
Rivals(p, item) == {q \in Procs \ {p} : proc[q].item = item}

\* A command begins, in any free slot.  One that works on an item another one
\* is working on is a rival of it, and the other way round.
Begin(p, r) ==
    /\ proc[p] = Idle
    /\ p = Any({q \in Procs : proc[q] = Idle})
    /\ spent.commands < MaxCommands
    /\ spent' = [spent EXCEPT !.commands = @ + 1]
    /\ LET rivals == IF r.item = None THEN {} ELSE Rivals(p, r.item) IN
       proc' = [q \in Procs |->
           IF q = p THEN [r EXCEPT !.rival = rivals # {}]
           ELSE [proc[q] EXCEPT !.rival = @ \/ q \in rivals]]

Goto(p, at) == proc' = [proc EXCEPT ![p].at = at]

Unlocked(p) == IF lock = p THEN None ELSE lock

\* The remote half of a command is done and the local half is not.
Halfway(p) ==
    /\ proc[p].cmd \in {"host", "remove", "login"}
    /\ proc[p].at \in {"loading", "confirming", "truncating", "writing"}

\* The process is killed, or a request fails or its answer is lost, or the
\* command gives up.  The lock goes with the process, a torn file stays.
Stop(p) ==
    /\ proc[p] # Idle
    /\ proc' = [proc EXCEPT ![p] = Idle]
    /\ lock' = Unlocked(p)
    /\ history' = IF Halfway(p)
                  THEN [history EXCEPT !.excused = @ \cup {proc[p].item}]
                  ELSE history
    /\ UNCHANGED <<remoteVars, file, identity, spent>>

Enrolled(c) == c # None /\ credential[c].status = "enrolled"

\* Another process saved after this one loaded: what it changed is not in the
\* copy this one will save.
Touch(p) ==
    [q \in Procs |->
        IF q = p THEN Idle
        ELSE IF proc[q].at \in {"listing", "deleting", "truncating", "writing"}
             THEN [proc[q] EXCEPT !.touched = @ \cup {proc[p].item}]
             ELSE proc[q]]

Truncate(p) ==
    /\ proc[p].at = "truncating"
    /\ file' = Torn
    /\ Goto(p, "writing")
    /\ UNCHANGED <<remoteVars, identity, lock, history, spent>>

\* write_private: the bytes land at the start of the file.  When another
\* process has written since the truncation, its tail may stick out behind.
\* What host does after it, daemon_running, is the command ProbeStart.
Write(p) ==
    LET r == proc[p]
        settled == IF r.rival THEN {} ELSE {r.item} IN
    /\ r.at = "writing"
    /\ \/ file' = r.copy
       \/ file.whole /\ file' = Torn
    /\ proc' = Touch(p)
    /\ history' = [history EXCEPT !.excused =
           (@ \ settled) \cup (r.touched \ settled)
               \cup (IF r.rival THEN {r.item} ELSE {})]
    /\ UNCHANGED <<remoteVars, identity, lock, spent>>

-----------------------------------------------------------------------------
(* load_or_create_identity, called by login and by daemon run.             *)

AfterIdentity(p) == IF proc[p].cmd = "login" THEN "enrolling" ELSE "proving"

\* The key exists: it is read, and a torn one is refused for ever (Stop).
ReadIdentity(p) ==
    /\ proc[p].at = "identity"
    /\ identity \in Keys
    /\ proc' = [proc EXCEPT ![p].key = identity, ![p].at = AfterIdentity(p)]
    /\ UNCHANGED <<remoteVars, localVars, history, spent>>

FreshKeys ==
    {k \in Keys : /\ \A q \in Procs : proc[q].key # k
                  /\ \A c \in Credentials : credential[c].key # k}

\* Mutant: a key that exists is not used.
GenerateAlways(p) ==
    /\ proc[p].at = "identity"
    /\ FreshKeys # {}
    /\ proc' = [proc EXCEPT ![p].key = Any(FreshKeys), ![p].at = "generated"]
    /\ history' = [history EXCEPT !.forked = @ \/
           \E q \in Procs : proc[q].at \in {"generated", "keying"}]
    /\ UNCHANGED <<remoteVars, localVars, spent>>

\* path.exists() is false: a fresh key is generated.  Two processes that are
\* here at once will both write theirs.
GenerateIdentity(p) ==
    /\ proc[p].at = "identity"
    /\ identity = None
    /\ FreshKeys # {}
    /\ proc' = [proc EXCEPT ![p].key = Any(FreshKeys), ![p].at = "generated"]
    /\ history' = [history EXCEPT !.forked = @ \/
           \E q \in Procs : proc[q].at \in {"generated", "keying"}]
    /\ UNCHANGED <<remoteVars, localVars, spent>>

TruncateIdentity(p) ==
    /\ proc[p].at = "generated"
    /\ identity' = "torn"
    /\ Goto(p, "keying")
    /\ UNCHANGED <<remoteVars, file, lock, history, spent>>

WriteIdentity(p) ==
    /\ proc[p].at = "keying"
    /\ identity' = proc[p].key
    /\ Goto(p, AfterIdentity(p))
    /\ UNCHANGED <<remoteVars, file, lock, history, spent>>

Identity(p) ==
    ReadIdentity(p) \/ GenerateIdentity(p) \/ TruncateIdentity(p) \/ WriteIdentity(p)

-----------------------------------------------------------------------------
(* devsite service host.                                                   *)

\* load_authenticated.
HostStart(p, n) ==
    /\ file.whole /\ file.cred # None
    /\ Begin(p, [Idle EXCEPT !.cmd = "host", !.at = "posting", !.item = n,
                             !.copy = file])
    /\ UNCHANGED <<remoteVars, localVars, history>>

FreshIds ==
    {i \in Ids : /\ \A n \in Names : service[n] # i /\ file.services[n] # i
                 /\ \A q \in Procs :
                      proc[q].id # i /\ \A n \in Names : proc[q].copy.services[n] # i}

\* POST /api/resources: a service of that name keeps its id.
HostPost(p) ==
    LET r == proc[p] IN
    /\ r.cmd = "host" /\ r.at = "posting"
    /\ Enrolled(r.copy.cred)
    /\ \E i \in Ids :
         /\ i = IF service[r.item] = None THEN Any(FreshIds) ELSE service[r.item]
         /\ service' = [service EXCEPT ![r.item] = i]
         /\ proc' = [proc EXCEPT ![p].id = i, ![p].at = "loading"]
    /\ UNCHANGED <<credential, registered, signingKey, localVars, history, spent>>

Mapped(config, n, i) == [config EXCEPT !.services[n] = i]

\* Mutant: the config that was loaded before the request is edited.
HostEditsItsFirstCopy(p) ==
    LET r == proc[p] IN
    /\ r.cmd = "host" /\ r.at = "loading"
    /\ file.whole
    /\ proc' = [proc EXCEPT ![p].copy = Mapped(r.copy, r.item, r.id),
                            ![p].at = "truncating"]
    /\ UNCHANGED <<remoteVars, localVars, history, spent>>

\* The config is loaded again and edited.
HostLoad(p) ==
    LET r == proc[p] IN
    /\ r.cmd = "host" /\ r.at = "loading"
    /\ file.whole
    /\ proc' = [proc EXCEPT ![p].copy = Mapped(file, r.item, r.id),
                            ![p].at = "truncating"]
    /\ UNCHANGED <<remoteVars, localVars, history, spent>>

-----------------------------------------------------------------------------
(* devsite service remove.                                                 *)

\* The copy that will be saved is loaded before the two requests.
RemoveStart(p, n) ==
    /\ file.whole /\ file.cred # None
    /\ Begin(p, [Idle EXCEPT !.cmd = "remove", !.at = "listing", !.item = n,
                             !.copy = file])
    /\ UNCHANGED <<remoteVars, localVars, history>>

\* GET /api/resources; a name that is known on neither side is an error.
RemoveList(p) ==
    LET r == proc[p] IN
    /\ r.cmd = "remove" /\ r.at = "listing"
    /\ Enrolled(r.copy.cred)
    /\ service[r.item] # None \/ r.copy.services[r.item] # None
    /\ proc' = [proc EXCEPT ![p].id = service[r.item], ![p].at = "deleting"]
    /\ UNCHANGED <<remoteVars, localVars, history, spent>>

\* DELETE /api/resources/{id}, when there is one to delete; a row that went
\* meanwhile answers 404 and ends the command.
RemoveDelete(p) ==
    LET r == proc[p] IN
    /\ r.cmd = "remove" /\ r.at = "deleting"
    /\ r.id = None \/ (Enrolled(r.copy.cred) /\ service[r.item] = r.id)
    /\ service' = [service EXCEPT ![r.item] = IF r.id = None THEN @ ELSE None]
    /\ proc' = [proc EXCEPT ![p].copy = Mapped(@, r.item, None),
                            ![p].at = "truncating"]
    /\ UNCHANGED <<credential, registered, signingKey, localVars, history, spent>>

-----------------------------------------------------------------------------
(* devsite login.                                                          *)

\* GET /api/config and /api/pubkey.  The ticket is pasted from the dashboard.
LoginStart(p, c) ==
    /\ credential[c].status = "ticket"
    /\ Begin(p, [Idle EXCEPT !.cmd = "login", !.at = "identity",
                             !.item = LoginItem,
                             !.copy.cred = c, !.copy.pinned = signingKey])
    /\ UNCHANGED <<remoteVars, localVars, history>>

\* PUT /api/machine/enroll: the ticket becomes the secret of this key.  The
\* unique index refuses a key that is bound already, and the ticket lives on.
LoginEnroll(p) ==
    LET r == proc[p] IN
    /\ r.cmd = "login" /\ r.at = "enrolling"
    /\ credential[r.copy.cred].status = "ticket"
    /\ \A d \in Credentials :
         credential[d].status = "enrolled" => credential[d].key # r.key
    /\ credential' = [credential EXCEPT ![r.copy.cred] =
           [status |-> "enrolled", key |-> r.key]]
    /\ Goto(p, "confirming")
    /\ UNCHANGED <<service, registered, signingKey, localVars, history, spent>>

\* GET /api/me with the new secret, then the config is loaded and edited.  A
\* torn config loses the secret: the ticket is spent (Stop).
LoginConfirm(p) ==
    LET r == proc[p] IN
    /\ r.cmd = "login" /\ r.at = "confirming"
    /\ Enrolled(r.copy.cred)
    /\ file.whole
    /\ proc' = [proc EXCEPT
           ![p].copy = [file EXCEPT !.cred = r.copy.cred, !.pinned = r.copy.pinned],
           ![p].at = "truncating"]
    /\ UNCHANGED <<remoteVars, localVars, history, spent>>

-----------------------------------------------------------------------------
(* devsite daemon run.                                                     *)

\* load_authenticated: credential, pinned key and first services of the
\* daemon are those of now, whatever a login saves later.
DaemonStart(p) ==
    /\ file.whole /\ file.cred # None
    /\ Begin(p, [Idle EXCEPT !.cmd = "daemon", !.at = "locking", !.copy = file])
    /\ UNCHANGED <<remoteVars, localVars, history>>

\* Mutant: the lock is opened but not taken.
DaemonOpensLock(p) ==
    /\ proc[p].cmd = "daemon" /\ proc[p].at = "locking"
    /\ lock' = p
    /\ Goto(p, "identity")
    /\ UNCHANGED <<remoteVars, file, identity, history, spent>>

\* try_daemon_lock.
DaemonLock(p) ==
    /\ proc[p].cmd = "daemon" /\ proc[p].at = "locking"
    /\ lock = None
    /\ lock' = p
    /\ Goto(p, "identity")
    /\ UNCHANGED <<remoteVars, file, identity, history, spent>>

\* PUT /api/daemon, first lock of the handler: the secret, and the proof made
\* with this machine's key, must be those of one credential.
DaemonProve(p) ==
    LET r == proc[p] IN
    /\ r.cmd = "daemon" /\ r.at = "proving"
    /\ Enrolled(r.copy.cred)
    /\ credential[r.copy.cred].key = r.key
    /\ Goto(p, "registering")
    /\ UNCHANGED <<remoteVars, localVars, history, spent>>

\* Second lock: the row of the account is written, and the daemon serves.
DaemonRegister(p) ==
    /\ proc[p].cmd = "daemon" /\ proc[p].at = "registering"
    /\ registered' = proc[p].key
    /\ Goto(p, "serving")
    /\ UNCHANGED <<service, credential, signingKey, localVars, history, spent>>

\* Mutant: a changed service keeps its first mapping.
ReloadAddsOnly(p) ==
    /\ proc[p].at = "serving"
    /\ file.whole
    /\ proc' = [proc EXCEPT ![p].copy.services =
           [n \in Names |-> IF @[n] = None THEN file.services[n] ELSE @[n]]]
    /\ UNCHANGED <<remoteVars, localVars, history, spent>>

\* reload_config: the services of a readable file, and nothing else of it.
Reload(p) ==
    /\ proc[p].at = "serving"
    /\ file.whole
    /\ proc' = [proc EXCEPT ![p].copy.services = file.services]
    /\ UNCHANGED <<remoteVars, localVars, history, spent>>

-----------------------------------------------------------------------------
(* daemon_running, as every command that reports on the daemon asks it: the *)
(* lock is taken for a moment to see whether it is free.                   *)

ProbeStart(p) ==
    /\ lock = None
    /\ Begin(p, [Idle EXCEPT !.cmd = "probe", !.at = "probing"])
    /\ lock' = p
    /\ UNCHANGED <<remoteVars, file, identity, history>>

-----------------------------------------------------------------------------
(* What happens elsewhere: the dashboard, another machine, the operator.   *)

Elsewhere ==
    /\ spent.changes < MaxChanges
    /\ spent' = [spent EXCEPT !.changes = @ + 1]
    /\ UNCHANGED localVars

CreateTicket(c) ==
    /\ Elsewhere
    /\ credential[c].status = "unused"
    /\ c = Any({d \in Credentials : credential[d].status = "unused"})
    /\ credential' = [credential EXCEPT ![c].status = "ticket"]
    /\ UNCHANGED <<service, registered, signingKey, proc, history>>

\* Mutant: revoking a machine leaves its daemon registered.
RevokeKeepsDaemon(c) ==
    /\ Elsewhere
    /\ credential[c].status \in {"ticket", "enrolled"}
    /\ credential' = [credential EXCEPT ![c].status = "revoked"]
    /\ UNCHANGED <<service, registered, signingKey, proc, history>>

\* revoke_machine_credential; see Machines for the races inside it.
Revoke(c) ==
    /\ Elsewhere
    /\ credential[c].status \in {"ticket", "enrolled"}
    /\ credential' = [credential EXCEPT ![c].status = "revoked"]
    /\ registered' = IF registered # None /\ registered = credential[c].key
                     THEN None ELSE registered
    /\ history' = [history EXCEPT !.raced = @ \/
           \E p \in Procs : proc[p].at = "registering" /\ proc[p].copy.cred = c]
    /\ UNCHANGED <<service, signingKey, proc>>

\* A service is deleted on the profile page or from another machine.
DeleteElsewhere(n) ==
    /\ Elsewhere
    /\ service[n] # None
    /\ service' = [service EXCEPT ![n] = None]
    /\ history' = [history EXCEPT !.excused = @ \cup {n}]
    /\ proc' = [p \in Procs |->
           IF proc[p].item = n THEN [proc[p] EXCEPT !.rival = TRUE] ELSE proc[p]]
    /\ UNCHANGED <<credential, registered, signingKey>>

RegisterElsewhere ==
    /\ Elsewhere
    /\ registered' = ForeignKey
    /\ UNCHANGED <<service, credential, signingKey, proc, history>>

RotateSigningKey(k) ==
    /\ Elsewhere
    /\ k # signingKey
    /\ signingKey' = k
    /\ UNCHANGED <<service, credential, registered, proc, history>>

-----------------------------------------------------------------------------
Process(p) ==
    \/ \E n \in Names : HostStart(p, n) \/ RemoveStart(p, n)
    \/ \E c \in Credentials : LoginStart(p, c)
    \/ DaemonStart(p) \/ ProbeStart(p)
    \/ HostPost(p) \/ HostLoad(p)
    \/ RemoveList(p) \/ RemoveDelete(p)
    \/ Identity(p) \/ LoginEnroll(p) \/ LoginConfirm(p)
    \/ DaemonLock(p) \/ DaemonProve(p) \/ DaemonRegister(p) \/ Reload(p)
    \/ Truncate(p) \/ Write(p) \/ Stop(p)

Outside ==
    \/ \E c \in Credentials : CreateTicket(c) \/ Revoke(c)
    \/ \E n \in Names : DeleteElsewhere(n)
    \/ RegisterElsewhere
    \/ \E k \in SigningKeys : RotateSigningKey(k)

Next == (\E p \in Procs : Process(p)) \/ Outside

\* A daemon that serves reloads its config every two seconds.
Fairness == \A p \in Procs : WF_vars(Reload(p))

Spec == Init /\ [][Next]_vars /\ Fairness

-----------------------------------------------------------------------------
(* Properties.                                                             *)

Configs ==
    [whole : BOOLEAN, cred : Credentials \cup {None},
     pinned : SigningKeys \cup {None}, services : [Names -> Ids \cup {None}]]

Processes ==
    [cmd : {"none", "host", "remove", "login", "daemon", "probe"},
     at : {"idle", "posting", "loading", "listing", "deleting", "identity",
           "generated", "keying", "enrolling", "confirming", "locking",
           "proving", "registering", "serving", "probing", "truncating",
           "writing"},
     item : Names \cup {LoginItem, None}, id : Ids \cup {None},
     key : Keys \cup {None}, copy : Configs, rival : BOOLEAN,
     touched : SUBSET (Names \cup {LoginItem})]

\* Every variable keeps its type, and a serving daemon holds the lock.
TypeOK ==
    /\ service \in [Names -> Ids \cup {None}]
    /\ credential \in [Credentials ->
           [status : {"unused", "ticket", "enrolled", "revoked"},
            key : Keys \cup {None}]]
    /\ registered \in Keys \cup {ForeignKey, None}
    /\ signingKey \in SigningKeys
    /\ file \in Configs
    /\ identity \in Keys \cup {None, "torn"}
    /\ lock \in Procs \cup {None}
    /\ proc \in [Procs -> Processes]
    /\ \A p \in Procs : proc[p].at = "serving" => lock = p
    /\ history \in [excused : SUBSET (Names \cup {LoginItem}),
                    raced : BOOLEAN, forked : BOOLEAN]
    /\ spent \in [commands : 0 .. MaxCommands, changes : 0 .. MaxChanges]

\* No command on the item is under way, and the last one that finished had it
\* to itself.  An item is excused from when a command on it is cut between its
\* remote and its local half, when two commands on it overlap, when it is
\* deleted elsewhere, or when a process that loaded the config before it was
\* saved saves after it, until a command on it runs from start to end again.
AtRest(item) ==
    /\ file.whole
    /\ item \notin history.excused
    /\ \A p \in Procs : proc[p].item # item

\* main.rs:973 "Both halves matter and in this order": what this machine maps
\* a name to is the service the control plane knows by that name, after any
\* commands on other names that ran at the same time.
LocalMatchesRemote ==
    \A n \in Names : AtRest(n) => file.services[n] = service[n]

\* The machine's config holds the secret that was issued to its key: no other
\* command writes an earlier secret back, or drops it, unless it had loaded the
\* config before the login saved.
SecretIsHeld ==
    AtRest(LoginItem) =>
        \A c \in Credentials :
            /\ credential[c].status = "enrolled"
            /\ credential[c].key = identity
            => file.cred = c

\* The secret in the config was issued to the endpoint key on this disk, unless
\* two processes created that key at the same time: without this no daemon can
\* be started, because its proof does not fit its credential.
SecretFitsIdentity ==
    file.cred # None /\ Enrolled(file.cred) /\ ~history.forked =>
        credential[file.cred].key = identity
=============================================================================

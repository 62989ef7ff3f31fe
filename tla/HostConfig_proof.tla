-------------------------- MODULE HostConfig_proof --------------------------
(***************************************************************************)
(* Proofs about HostConfig and Doctor: the types, the agreement of the     *)
(* config with the control plane, the fit of secret and endpoint key, and  *)
(* the clean bill of the doctor, for every number of processes.            *)
(*                                                                         *)
(* First come the effects of the steps: what a step of one process does to *)
(* its own slot and to the others.  Then the inductive invariant, in       *)
(* layers: TypeInv (types, which command is where, the lock), KeyInv (the  *)
(* endpoint key and the credentials), MatchInv (config against control     *)
(* plane) and ServeInv (the daemon that serves).                           *)
(***************************************************************************)
EXTENDS Doctor, TLAPS

-----------------------------------------------------------------------------
(* Types, places and the lock.                                             *)

Places ==
    {"idle", "posting", "loading", "listing", "deleting", "identity",
     "generated", "keying", "enrolling", "confirming", "locking",
     "proving", "registering", "serving", "probing", "truncating", "writing"}

\* Where each command can be, and what it works on.
StepOK(r) ==
    \/ /\ r.cmd = "none" /\ r.at = "idle" /\ r.item = None
       /\ r.key = None /\ r.copy.cred = None
    \/ /\ r.cmd = "host" /\ r.item \in Names
       /\ r.at \in {"posting", "loading", "truncating", "writing"}
       /\ r.key = None
    \/ /\ r.cmd = "remove" /\ r.item \in Names
       /\ r.at \in {"listing", "deleting", "truncating", "writing"}
       /\ r.key = None
    \/ /\ r.cmd = "login" /\ r.item = LoginItem
       /\ r.at \in {"identity", "generated", "keying", "enrolling",
                    "confirming", "truncating", "writing"}
       /\ r.copy.cred \in Credentials
    \/ /\ r.cmd = "daemon" /\ r.item = None
       /\ r.at \in {"locking", "identity", "generated", "keying", "proving",
                    "registering", "serving"}
       /\ r.copy.cred \in Credentials
    \/ /\ r.cmd = "probe" /\ r.at = "probing" /\ r.item = None
       /\ r.key = None /\ r.copy.cred = None

StepInv == \A p \in Procs : StepOK(proc[p])

\* daemon.lock is held by every daemon that is past taking it, and by a probe.
Holder(r) == (r.cmd = "daemon" /\ r.at # "locking") \/ r.cmd = "probe"

LockInv == \A p \in Procs : Holder(proc[p]) => lock = p

TypeInv == TypeOK /\ StepInv /\ LockInv

\* What the type says of one slot.
LEMMA Fields ==
    ASSUME TypeInv, NEW p \in Procs
    PROVE  /\ proc[p] \in Processes
           /\ proc[p].cmd \in {"none", "host", "remove", "login", "daemon", "probe"}
           /\ proc[p].at \in Places
           /\ proc[p].item \in Names \cup {LoginItem, None}
           /\ proc[p].id \in Ids \cup {None}
           /\ proc[p].key \in Keys \cup {None}
           /\ proc[p].copy \in Configs
           /\ proc[p].rival \in BOOLEAN
           /\ proc[p].touched \in SUBSET (Names \cup {LoginItem})
<1>1. proc[p] \in Processes
    BY DEF TypeInv, TypeOK
<1> QED
    BY <1>1 DEF Processes, Places

\* What the type says of one config.
LEMMA ConfigFields ==
    ASSUME NEW a \in Configs
    PROVE  /\ a.whole \in BOOLEAN
           /\ a.cred \in Credentials \cup {None}
           /\ a.pinned \in SigningKeys \cup {None}
           /\ a.services \in [Names -> Ids \cup {None}]
BY DEF Configs

\* The item of a command by where it is.
LEMMA Items ==
    ASSUME TypeInv, NEW p \in Procs
    PROVE  /\ StepOK(proc[p])
           /\ proc[p].cmd \in {"host", "remove"} => proc[p].item \in Names
           /\ proc[p].cmd = "login" => proc[p].item = LoginItem
           /\ proc[p].cmd \in {"none", "daemon", "probe"} => proc[p].item = None
           /\ proc[p].at \in {"truncating", "writing"} =>
                 /\ proc[p].cmd \in {"host", "remove", "login"}
                 /\ proc[p].item \in Names \cup {LoginItem}
<1>1. StepOK(proc[p])
    BY DEF TypeInv, StepInv
<1> QED
    BY <1>1 DEF StepOK

-----------------------------------------------------------------------------
(* Effects of the steps.                                                   *)

\* The config that a missing file stands for, and a torn one.
LEMMA Defaults ==
    /\ Torn \in Configs /\ ~Torn.whole /\ Torn.cred = None
    /\ Torn.services = NoServices
    /\ Default \in Configs /\ Default.whole /\ Default.cred = None
    /\ Default.services = NoServices
    /\ Idle \in Processes
    /\ Idle.cmd = "none" /\ Idle.at = "idle" /\ Idle.item = None
    /\ Idle.id = None /\ Idle.key = None /\ Idle.copy = Default
    /\ Idle.rival = FALSE /\ Idle.touched = {}
<1>1. /\ Torn \in Configs /\ ~Torn.whole /\ Torn.cred = None
      /\ Torn.services = NoServices
    BY DEF Torn, Configs, NoServices
<1>2. /\ Default \in Configs /\ Default.whole /\ Default.cred = None
      /\ Default.services = NoServices
    BY DEF Default, Torn, Configs, NoServices
<1> QED
    BY <1>1, <1>2 DEF Idle, Processes

\* A config with a mapping changed.
LEMMA MappedConfig ==
    ASSUME NEW a \in Configs, NEW n \in Names, NEW i \in Ids \cup {None}
    PROVE  /\ Mapped(a, n, i) \in Configs
           /\ Mapped(a, n, i).whole = a.whole
           /\ Mapped(a, n, i).cred = a.cred
           /\ Mapped(a, n, i).pinned = a.pinned
           /\ Mapped(a, n, i).services[n] = i
           /\ \A m \in Names : m # n => Mapped(a, n, i).services[m] = a.services[m]
<1> DEFINE s == [a.services EXCEPT ![n] = i]
<1>1. Mapped(a, n, i) = [a EXCEPT !.services = s]
    BY DEF Mapped, Configs
<1>2. /\ s \in [Names -> Ids \cup {None}] /\ s[n] = i
      /\ \A m \in Names : m # n => s[m] = a.services[m]
    BY DEF Configs
<1> HIDE DEF s
<1> QED
    BY <1>1, <1>2 DEF Configs

\* The edits of a config that a reload and a login make.
LEMMA EditedConfig ==
    ASSUME NEW a \in Configs, NEW b \in Configs
    PROVE  /\ [a EXCEPT !.services = b.services] \in Configs
           /\ [a EXCEPT !.services = b.services].cred = a.cred
           /\ [a EXCEPT !.services = b.services].pinned = a.pinned
           /\ [a EXCEPT !.cred = b.cred, !.pinned = b.pinned] \in Configs
           /\ [a EXCEPT !.cred = b.cred, !.pinned = b.pinned].cred = b.cred
           /\ [a EXCEPT !.cred = b.cred, !.pinned = b.pinned].pinned = b.pinned
           /\ [a EXCEPT !.cred = b.cred, !.pinned = b.pinned].services = a.services
BY DEF Configs

\* The config a login starts with.
LEMMA EnrolledConfig ==
    ASSUME NEW c \in Credentials, NEW k \in SigningKeys
    PROVE  /\ [Default EXCEPT !.cred = c, !.pinned = k].cred = c
           /\ [Default EXCEPT !.cred = c, !.pinned = k].pinned = k
BY Defaults DEF Configs

\* What a step of p may do to the other slots.
Aside(p) ==
    \A q \in Procs \ {p} :
        /\ proc'[q].cmd = proc[q].cmd
        /\ proc'[q].at = proc[q].at
        /\ proc'[q].item = proc[q].item
        /\ proc'[q].id = proc[q].id
        /\ proc'[q].key = proc[q].key
        /\ proc'[q].copy = proc[q].copy
        /\ proc[q].rival => proc'[q].rival
        /\ proc[q].touched \subseteq proc'[q].touched

\* A step of p that leaves every other slot as it was, and of its own slot
\* keeps the command, the item and what the others have done to it.
Moves(p, at, id, key, copy) ==
    /\ proc' \in [Procs -> Processes]
    /\ \A q \in Procs \ {p} : proc'[q] = proc[q]
    /\ proc'[p].cmd = proc[p].cmd
    /\ proc'[p].at = at
    /\ proc'[p].item = proc[p].item
    /\ proc'[p].id = id
    /\ proc'[p].key = key
    /\ proc'[p].copy = copy
    /\ proc'[p].rival = proc[p].rival
    /\ proc'[p].touched = proc[p].touched
    /\ Aside(p)

LEMMA Moving ==
    ASSUME TypeInv, NEW p \in Procs, NEW at \in Places, NEW id \in Ids \cup {None},
           NEW key \in Keys \cup {None}, NEW copy \in Configs,
           proc' = [proc EXCEPT ![p] =
               [proc[p] EXCEPT !.at = at, !.id = id, !.key = key, !.copy = copy]]
    PROVE  Moves(p, at, id, key, copy)
<1> DEFINE r == [proc[p] EXCEPT !.at = at, !.id = id, !.key = key, !.copy = copy]
<1>1. /\ r \in Processes
      /\ r.cmd = proc[p].cmd /\ r.at = at /\ r.item = proc[p].item /\ r.id = id
      /\ r.key = key /\ r.copy = copy /\ r.rival = proc[p].rival
      /\ r.touched = proc[p].touched
    <2>1. proc[p] \in Processes
        BY Fields
    <2>2. Processes =
            [cmd : {"none", "host", "remove", "login", "daemon", "probe"},
             at : Places, item : Names \cup {LoginItem, None},
             id : Ids \cup {None}, key : Keys \cup {None}, copy : Configs,
             rival : BOOLEAN, touched : SUBSET (Names \cup {LoginItem})]
        BY DEF Processes, Places
    <2>3. r \in Processes
        BY <2>1, <2>2
    <2>4. /\ r.cmd = proc[p].cmd /\ r.at = at /\ r.item = proc[p].item /\ r.id = id
          /\ r.key = key /\ r.copy = copy /\ r.rival = proc[p].rival
          /\ r.touched = proc[p].touched
        BY <2>1, <2>2
    <2> QED
        BY <2>3, <2>4
<1>2. proc' = [proc EXCEPT ![p] = r]
    OBVIOUS
<1>3. proc \in [Procs -> Processes]
    BY DEF TypeInv, TypeOK
<1> HIDE DEF r
<1>4. proc' \in [Procs -> Processes] /\ proc'[p] = r
    BY <1>1, <1>2, <1>3
<1>5. \A q \in Procs \ {p} : proc'[q] = proc[q]
    BY <1>2, <1>3
<1> QED
    BY <1>1, <1>4, <1>5 DEF Moves, Aside

LEMMA HostPostMoves ==
    ASSUME TypeInv, NEW p \in Procs, HostPost(p)
    PROVE  \E i \in Ids :
             /\ service[proc[p].item] # None => i = service[proc[p].item]
             /\ service' = [service EXCEPT ![proc[p].item] = i]
             /\ Moves(p, "loading", i, proc[p].key, proc[p].copy)
<1>0. proc[p].item \in Names
    BY Items DEF HostPost
<1>1. PICK i \in Ids :
        /\ i = IF service[proc[p].item] = None THEN Any(FreshIds) ELSE service[proc[p].item]
        /\ service' = [service EXCEPT ![proc[p].item] = i]
        /\ proc' = [proc EXCEPT ![p].id = i, ![p].at = "loading"]
    BY DEF HostPost
<1>2. proc' = [proc EXCEPT ![p] = [proc[p] EXCEPT !.at = "loading", !.id = i,
                                      !.key = proc[p].key, !.copy = proc[p].copy]]
    <2>1. proc[p] \in Processes
        BY Fields
    <2>2. [proc[p] EXCEPT !.id = i, !.at = "loading"]
            = [proc[p] EXCEPT !.at = "loading", !.id = i,
                              !.key = proc[p].key, !.copy = proc[p].copy]
        BY <2>1 DEF Processes
    <2>3. proc' = [proc EXCEPT ![p] = [proc[p] EXCEPT !.id = i, !.at = "loading"]]
        BY <1>1
    <2> QED
        BY <2>2, <2>3
<1>3. Moves(p, "loading", i, proc[p].key, proc[p].copy)
    BY <1>2, Moving, Fields DEF Places
<1> QED
    BY <1>0, <1>1, <1>3

LEMMA TruncateMoves ==
    ASSUME TypeInv, NEW p \in Procs, Truncate(p)
    PROVE  Moves(p, "writing", proc[p].id, proc[p].key, proc[p].copy)
<1>1. proc' = [proc EXCEPT ![p] = [proc[p] EXCEPT !.at = "writing", !.id = proc[p].id,
                                      !.key = proc[p].key, !.copy = proc[p].copy]]
    BY Fields DEF Truncate, TypeInv, TypeOK, Processes, Goto
<1>2. "writing" \in Places /\ proc[p].id \in Ids \cup {None} /\ proc[p].key \in Keys \cup {None}
    BY Fields DEF Truncate, TypeInv, TypeOK, Places, Goto
<1>3. proc[p].copy \in Configs
    BY Fields
<1> QED
    BY <1>1, <1>2, <1>3, Moving

LEMMA ReadIdentityMoves ==
    ASSUME TypeInv, NEW p \in Procs, ReadIdentity(p)
    PROVE  Moves(p, AfterIdentity(p), proc[p].id, identity, proc[p].copy)
<1>1. proc' = [proc EXCEPT ![p] = [proc[p] EXCEPT !.at = AfterIdentity(p), !.id = proc[p].id,
                                      !.key = identity, !.copy = proc[p].copy]]
    BY Fields DEF ReadIdentity, TypeInv, TypeOK, Processes, AfterIdentity
<1>2. AfterIdentity(p) \in Places /\ proc[p].id \in Ids \cup {None} /\ identity \in Keys \cup {None}
    BY Fields DEF ReadIdentity, TypeInv, TypeOK, Places, AfterIdentity
<1>3. proc[p].copy \in Configs
    BY Fields
<1> QED
    BY <1>1, <1>2, <1>3, Moving

LEMMA TruncateIdentityMoves ==
    ASSUME TypeInv, NEW p \in Procs, TruncateIdentity(p)
    PROVE  Moves(p, "keying", proc[p].id, proc[p].key, proc[p].copy)
<1>1. proc' = [proc EXCEPT ![p] = [proc[p] EXCEPT !.at = "keying", !.id = proc[p].id,
                                      !.key = proc[p].key, !.copy = proc[p].copy]]
    BY Fields DEF TruncateIdentity, TypeInv, TypeOK, Processes, Goto
<1>2. "keying" \in Places /\ proc[p].id \in Ids \cup {None} /\ proc[p].key \in Keys \cup {None}
    BY Fields DEF TruncateIdentity, TypeInv, TypeOK, Places, Goto
<1>3. proc[p].copy \in Configs
    BY Fields
<1> QED
    BY <1>1, <1>2, <1>3, Moving

LEMMA WriteIdentityMoves ==
    ASSUME TypeInv, NEW p \in Procs, WriteIdentity(p)
    PROVE  Moves(p, AfterIdentity(p), proc[p].id, proc[p].key, proc[p].copy)
<1>1. proc' = [proc EXCEPT ![p] = [proc[p] EXCEPT !.at = AfterIdentity(p), !.id = proc[p].id,
                                      !.key = proc[p].key, !.copy = proc[p].copy]]
    BY Fields
        DEF WriteIdentity, TypeInv, TypeOK, Processes, Goto, AfterIdentity
<1>2. AfterIdentity(p) \in Places /\ proc[p].id \in Ids \cup {None} /\ proc[p].key \in Keys \cup {None}
    BY Fields DEF WriteIdentity, TypeInv, TypeOK, Places, Goto, AfterIdentity
<1>3. proc[p].copy \in Configs
    BY Fields
<1> QED
    BY <1>1, <1>2, <1>3, Moving

LEMMA HostLoadMoves ==
    ASSUME TypeInv, NEW p \in Procs, HostLoad(p)
    PROVE  Moves(p, "truncating", proc[p].id, proc[p].key, Mapped(file, proc[p].item, proc[p].id))
<1>0. proc[p].item \in Names
    BY Items DEF HostLoad
<1>1. proc' = [proc EXCEPT ![p] = [proc[p] EXCEPT !.at = "truncating", !.id = proc[p].id,
                                      !.key = proc[p].key, !.copy = Mapped(file, proc[p].item, proc[p].id)]]
    BY <1>0, Fields DEF HostLoad, TypeInv, TypeOK, Processes
<1>2. "truncating" \in Places /\ proc[p].id \in Ids \cup {None} /\ proc[p].key \in Keys \cup {None}
    BY <1>0, Fields DEF HostLoad, TypeInv, TypeOK, Places
<1>3. Mapped(file, proc[p].item, proc[p].id) \in Configs
    BY <1>0, Fields, MappedConfig DEF TypeInv, TypeOK
<1> QED
    BY <1>0, <1>1, <1>2, <1>3, Moving

LEMMA RemoveListMoves ==
    ASSUME TypeInv, NEW p \in Procs, RemoveList(p)
    PROVE  Moves(p, "deleting", service[proc[p].item], proc[p].key, proc[p].copy)
<1>0. proc[p].item \in Names
    BY Items DEF RemoveList
<1>1. proc' = [proc EXCEPT ![p] = [proc[p] EXCEPT !.at = "deleting", !.id = service[proc[p].item],
                                      !.key = proc[p].key, !.copy = proc[p].copy]]
    BY <1>0, Fields DEF RemoveList, TypeInv, TypeOK, Processes
<1>2. "deleting" \in Places /\ service[proc[p].item] \in Ids \cup {None} /\ proc[p].key \in Keys \cup {None}
    BY <1>0, Fields DEF RemoveList, TypeInv, TypeOK, Places
<1>3. proc[p].copy \in Configs
    BY <1>0, Fields
<1> QED
    BY <1>0, <1>1, <1>2, <1>3, Moving

LEMMA RemoveDeleteMoves ==
    ASSUME TypeInv, NEW p \in Procs, RemoveDelete(p)
    PROVE  Moves(p, "truncating", proc[p].id, proc[p].key, Mapped(proc[p].copy, proc[p].item, None))
<1>0. proc[p].item \in Names
    BY Items DEF RemoveDelete
<1>1. proc' = [proc EXCEPT ![p] = [proc[p] EXCEPT !.at = "truncating", !.id = proc[p].id,
                                      !.key = proc[p].key, !.copy = Mapped(proc[p].copy, proc[p].item, None)]]
    BY <1>0, Fields DEF RemoveDelete, TypeInv, TypeOK, Processes
<1>2. "truncating" \in Places /\ proc[p].id \in Ids \cup {None} /\ proc[p].key \in Keys \cup {None}
    BY <1>0, Fields DEF RemoveDelete, TypeInv, TypeOK, Places
<1>3. Mapped(proc[p].copy, proc[p].item, None) \in Configs
    BY <1>0, Fields, MappedConfig
<1> QED
    BY <1>0, <1>1, <1>2, <1>3, Moving

LEMMA LoginEnrollMoves ==
    ASSUME TypeInv, NEW p \in Procs, LoginEnroll(p)
    PROVE  Moves(p, "confirming", proc[p].id, proc[p].key, proc[p].copy)
<1>1. proc' = [proc EXCEPT ![p] = [proc[p] EXCEPT !.at = "confirming", !.id = proc[p].id,
                                      !.key = proc[p].key, !.copy = proc[p].copy]]
    BY Fields DEF LoginEnroll, TypeInv, TypeOK, Processes, Goto
<1>2. "confirming" \in Places /\ proc[p].id \in Ids \cup {None} /\ proc[p].key \in Keys \cup {None}
    BY Fields DEF LoginEnroll, TypeInv, TypeOK, Places, Goto
<1>3. proc[p].copy \in Configs
    BY Fields
<1> QED
    BY <1>1, <1>2, <1>3, Moving

LEMMA LoginConfirmMoves ==
    ASSUME TypeInv, NEW p \in Procs, LoginConfirm(p)
    PROVE  Moves(p, "truncating", proc[p].id, proc[p].key, [file EXCEPT !.cred = proc[p].copy.cred, !.pinned = proc[p].copy.pinned])
<1>1. proc' = [proc EXCEPT ![p] = [proc[p] EXCEPT !.at = "truncating", !.id = proc[p].id,
                                      !.key = proc[p].key, !.copy = [file EXCEPT !.cred = proc[p].copy.cred, !.pinned = proc[p].copy.pinned]]]
    BY Fields DEF LoginConfirm, TypeInv, TypeOK, Processes
<1>2. "truncating" \in Places /\ proc[p].id \in Ids \cup {None} /\ proc[p].key \in Keys \cup {None}
    BY Fields DEF LoginConfirm, TypeInv, TypeOK, Places
<1>3. [file EXCEPT !.cred = proc[p].copy.cred, !.pinned = proc[p].copy.pinned] \in Configs
    BY Fields, ConfigFields DEF TypeInv, TypeOK, Configs
<1> QED
    BY <1>1, <1>2, <1>3, Moving

LEMMA DaemonLockMoves ==
    ASSUME TypeInv, NEW p \in Procs, DaemonLock(p)
    PROVE  Moves(p, "identity", proc[p].id, proc[p].key, proc[p].copy)
<1>1. proc' = [proc EXCEPT ![p] = [proc[p] EXCEPT !.at = "identity", !.id = proc[p].id,
                                      !.key = proc[p].key, !.copy = proc[p].copy]]
    BY Fields DEF DaemonLock, TypeInv, TypeOK, Processes, Goto
<1>2. "identity" \in Places /\ proc[p].id \in Ids \cup {None} /\ proc[p].key \in Keys \cup {None}
    BY Fields DEF DaemonLock, TypeInv, TypeOK, Places, Goto
<1>3. proc[p].copy \in Configs
    BY Fields
<1> QED
    BY <1>1, <1>2, <1>3, Moving

LEMMA DaemonProveMoves ==
    ASSUME TypeInv, NEW p \in Procs, DaemonProve(p)
    PROVE  Moves(p, "registering", proc[p].id, proc[p].key, proc[p].copy)
<1>1. proc' = [proc EXCEPT ![p] = [proc[p] EXCEPT !.at = "registering", !.id = proc[p].id,
                                      !.key = proc[p].key, !.copy = proc[p].copy]]
    BY Fields DEF DaemonProve, TypeInv, TypeOK, Processes, Goto
<1>2. "registering" \in Places /\ proc[p].id \in Ids \cup {None} /\ proc[p].key \in Keys \cup {None}
    BY Fields DEF DaemonProve, TypeInv, TypeOK, Places, Goto
<1>3. proc[p].copy \in Configs
    BY Fields
<1> QED
    BY <1>1, <1>2, <1>3, Moving

LEMMA DaemonRegisterMoves ==
    ASSUME TypeInv, NEW p \in Procs, DaemonRegister(p)
    PROVE  Moves(p, "serving", proc[p].id, proc[p].key, proc[p].copy)
<1>1. proc' = [proc EXCEPT ![p] = [proc[p] EXCEPT !.at = "serving", !.id = proc[p].id,
                                      !.key = proc[p].key, !.copy = proc[p].copy]]
    BY Fields DEF DaemonRegister, TypeInv, TypeOK, Processes, Goto
<1>2. "serving" \in Places /\ proc[p].id \in Ids \cup {None} /\ proc[p].key \in Keys \cup {None}
    BY Fields DEF DaemonRegister, TypeInv, TypeOK, Places, Goto
<1>3. proc[p].copy \in Configs
    BY Fields
<1> QED
    BY <1>1, <1>2, <1>3, Moving

LEMMA ReloadMoves ==
    ASSUME TypeInv, NEW p \in Procs, Reload(p)
    PROVE  Moves(p, "serving", proc[p].id, proc[p].key, [proc[p].copy EXCEPT !.services = file.services])
<1>1. proc' = [proc EXCEPT ![p] = [proc[p] EXCEPT !.at = "serving", !.id = proc[p].id,
                                      !.key = proc[p].key, !.copy = [proc[p].copy EXCEPT !.services = file.services]]]
    <2> DEFINE c == [proc[p].copy EXCEPT !.services = file.services]
    <2>1. proc' = [proc EXCEPT ![p] = [proc[p] EXCEPT !.copy = c]]
        BY DEF Reload
    <2>2. proc[p].at = "serving"
        BY DEF Reload
    <2> HIDE DEF c
    <2>3. [proc[p] EXCEPT !.copy = c]
            = [proc[p] EXCEPT !.at = "serving", !.id = proc[p].id,
                              !.key = proc[p].key, !.copy = c]
        BY <2>2, Fields DEF Processes
    <2>4. proc' = [proc EXCEPT ![p] = [proc[p] EXCEPT !.at = "serving",
                  !.id = proc[p].id, !.key = proc[p].key, !.copy = c]]
        BY <2>1, <2>3
    <2> QED
        BY <2>4 DEF c
<1>2. "serving" \in Places /\ proc[p].id \in Ids \cup {None} /\ proc[p].key \in Keys \cup {None}
    BY Fields DEF Reload, TypeInv, TypeOK, Places
<1>3. [proc[p].copy EXCEPT !.services = file.services] \in Configs
    BY Fields, ConfigFields DEF TypeInv, TypeOK, Configs
<1> QED
    BY <1>1, <1>2, <1>3, Moving

LEMMA GenerateIdentityMoves ==
    ASSUME TypeInv, NEW p \in Procs, GenerateIdentity(p)
    PROVE  \E k \in FreshKeys : Moves(p, "generated", proc[p].id, k, proc[p].copy)
<1> DEFINE k == Any(FreshKeys)
<1>1. k \in FreshKeys
    BY DEF GenerateIdentity, Any
<1>2. k \in Keys
    BY <1>1 DEF FreshKeys
<1>3. proc' = [proc EXCEPT ![p].key = k, ![p].at = "generated"]
    BY DEF GenerateIdentity
<1> HIDE DEF k
<1>4. proc' = [proc EXCEPT ![p] = [proc[p] EXCEPT !.at = "generated",
                  !.id = proc[p].id, !.key = k, !.copy = proc[p].copy]]
    BY <1>3, Fields DEF TypeInv, TypeOK, Processes
<1>5. Moves(p, "generated", proc[p].id, k, proc[p].copy)
    BY <1>2, <1>4, Moving, Fields DEF Places
<1> QED
    BY <1>1, <1>5

\* A step of p that starts a command: the slots that work on the same item
\* become rivals of each other.
Begins(p, cmd, at, item, copy) ==
    /\ proc' \in [Procs -> Processes]
    /\ proc[p] = Idle
    /\ proc'[p].cmd = cmd
    /\ proc'[p].at = at
    /\ proc'[p].item = item
    /\ proc'[p].id = None
    /\ proc'[p].key = None
    /\ proc'[p].copy = copy
    /\ proc'[p].touched = {}
    /\ item # None =>
         \A q \in Procs \ {p} :
             proc[q].item = item => proc'[q].rival /\ proc'[p].rival
    /\ Aside(p)

LEMMA Beginning ==
    ASSUME TypeInv, NEW p \in Procs, NEW r \in Processes, Begin(p, r),
           r.id = None, r.key = None, r.touched = {}
    PROVE  Begins(p, r.cmd, r.at, r.item, r.copy)
<1> DEFINE rivals == IF r.item = None THEN {} ELSE Rivals(p, r.item)
           b == rivals # {}
           mine == [r EXCEPT !.rival = b]
           flag(q) == proc[q].rival \/ q \in rivals
           other(q) == [proc[q] EXCEPT !.rival = flag(q)]
<1>1. /\ proc[p] = Idle
      /\ proc' = [q \in Procs |-> IF q = p THEN mine ELSE other(q)]
    BY DEF Begin
<1>2. /\ mine \in Processes /\ mine.cmd = r.cmd /\ mine.at = r.at
      /\ mine.item = r.item /\ mine.id = None /\ mine.key = None
      /\ mine.copy = r.copy /\ mine.touched = {} /\ (mine.rival <=> b)
    <2>1. b \in BOOLEAN
        OBVIOUS
    <2> HIDE DEF b
    <2> QED
        BY <2>1 DEF Processes
<1>3. ASSUME NEW q \in Procs
      PROVE  /\ other(q) \in Processes /\ other(q).cmd = proc[q].cmd
             /\ other(q).at = proc[q].at /\ other(q).item = proc[q].item
             /\ other(q).id = proc[q].id /\ other(q).key = proc[q].key
             /\ other(q).copy = proc[q].copy
             /\ other(q).touched = proc[q].touched
             /\ (other(q).rival <=> flag(q))
    <2>1. flag(q) \in BOOLEAN
        BY Fields
    <2> HIDE DEF flag
    <2> QED
        BY <2>1, Fields DEF Processes
<1>4. r.item # None => \A q \in Procs \ {p} :
            proc[q].item = r.item => b /\ flag(q)
    BY DEF Rivals
<1>5. \A q \in Procs \ {p} : proc[q].rival => flag(q)
    OBVIOUS
<1> HIDE DEF mine, other, b, flag, rivals
<1>6. proc'[p] = mine /\ \A q \in Procs \ {p} : proc'[q] = other(q)
    BY <1>1
<1>7. proc' \in [Procs -> Processes]
    BY <1>1, <1>2, <1>3
<1>8. Aside(p)
    BY <1>3, <1>5, <1>6 DEF Aside
<1> QED
    BY <1>1, <1>2, <1>3, <1>4, <1>6, <1>7, <1>8 DEF Begins

LEMMA HostStartBegins ==
    ASSUME TypeInv, NEW p \in Procs, NEW n \in Names, HostStart(p, n)
    PROVE  Begins(p, "host", "posting", n, file)
<1> DEFINE copy == file
           r == [Idle EXCEPT !.cmd = "host", !.at = "posting", !.item = n, !.copy = copy]
<1>1. Begin(p, r)
    BY DEF HostStart
<1>2. copy \in Configs
    BY DEF TypeInv, TypeOK
<1> HIDE DEF copy
<1>3. /\ r \in Processes /\ r.cmd = "host" /\ r.at = "posting" /\ r.item = n
      /\ r.id = None /\ r.key = None /\ r.copy = copy /\ r.touched = {}
    BY <1>2, Defaults DEF Processes
<1> HIDE DEF r
<1>4. Begins(p, r.cmd, r.at, r.item, r.copy)
    BY <1>1, <1>3, Beginning
<1>5. Begins(p, "host", "posting", n, copy)
    BY <1>3, <1>4
<1> QED
    BY <1>5 DEF copy

LEMMA RemoveStartBegins ==
    ASSUME TypeInv, NEW p \in Procs, NEW n \in Names, RemoveStart(p, n)
    PROVE  Begins(p, "remove", "listing", n, file)
<1> DEFINE copy == file
           r == [Idle EXCEPT !.cmd = "remove", !.at = "listing", !.item = n, !.copy = copy]
<1>1. Begin(p, r)
    BY DEF RemoveStart
<1>2. copy \in Configs
    BY DEF TypeInv, TypeOK
<1> HIDE DEF copy
<1>3. /\ r \in Processes /\ r.cmd = "remove" /\ r.at = "listing" /\ r.item = n
      /\ r.id = None /\ r.key = None /\ r.copy = copy /\ r.touched = {}
    BY <1>2, Defaults DEF Processes
<1> HIDE DEF r
<1>4. Begins(p, r.cmd, r.at, r.item, r.copy)
    BY <1>1, <1>3, Beginning
<1>5. Begins(p, "remove", "listing", n, copy)
    BY <1>3, <1>4
<1> QED
    BY <1>5 DEF copy

LEMMA LoginStartBegins ==
    ASSUME TypeInv, NEW p \in Procs, NEW c \in Credentials, LoginStart(p, c)
    PROVE  Begins(p, "login", "identity", LoginItem, [Default EXCEPT !.cred = c, !.pinned = signingKey])
<1> DEFINE copy == [Default EXCEPT !.cred = c, !.pinned = signingKey]
           r == [Idle EXCEPT !.cmd = "login", !.at = "identity",
                            !.item = LoginItem, !.copy = copy]
<1>1. Begin(p, r)
    <2> DEFINE l == [Idle EXCEPT !.cmd = "login", !.at = "identity",
                                 !.item = LoginItem,
                                 !.copy.cred = c, !.copy.pinned = signingKey]
    <2>1. Begin(p, l)
        BY DEF LoginStart
    <2>2. l = r
        BY DEF Idle, Default, Torn
    <2> QED
        BY <2>1, <2>2
<1>2. copy \in Configs
    BY Defaults DEF TypeInv, TypeOK, Configs
<1> HIDE DEF copy
<1>3. /\ r \in Processes /\ r.cmd = "login" /\ r.at = "identity" /\ r.item = LoginItem
      /\ r.id = None /\ r.key = None /\ r.copy = copy /\ r.touched = {}
    BY <1>2, Defaults DEF Processes
<1> HIDE DEF r
<1>4. Begins(p, r.cmd, r.at, r.item, r.copy)
    BY <1>1, <1>3, Beginning
<1>5. Begins(p, "login", "identity", LoginItem, copy)
    BY <1>3, <1>4
<1> QED
    BY <1>5 DEF copy

LEMMA DaemonStartBegins ==
    ASSUME TypeInv, NEW p \in Procs, DaemonStart(p)
    PROVE  Begins(p, "daemon", "locking", None, file)
<1> DEFINE copy == file
           r == [Idle EXCEPT !.cmd = "daemon", !.at = "locking", !.copy = copy]
<1>1. Begin(p, r)
    BY DEF DaemonStart
<1>2. copy \in Configs
    BY DEF TypeInv, TypeOK
<1> HIDE DEF copy
<1>3. /\ r \in Processes /\ r.cmd = "daemon" /\ r.at = "locking" /\ r.item = None
      /\ r.id = None /\ r.key = None /\ r.copy = copy /\ r.touched = {}
    BY <1>2, Defaults DEF Processes
<1> HIDE DEF r
<1>4. Begins(p, r.cmd, r.at, r.item, r.copy)
    BY <1>1, <1>3, Beginning
<1>5. Begins(p, "daemon", "locking", None, copy)
    BY <1>3, <1>4
<1> QED
    BY <1>5 DEF copy

LEMMA ProbeStartBegins ==
    ASSUME TypeInv, NEW p \in Procs, ProbeStart(p)
    PROVE  Begins(p, "probe", "probing", None, Default)
<1> DEFINE copy == Default
           r == [Idle EXCEPT !.cmd = "probe", !.at = "probing"]
<1>1. Begin(p, r)
    BY DEF ProbeStart
<1>2. copy \in Configs
    BY Defaults
<1> HIDE DEF copy
<1>3. /\ r \in Processes /\ r.cmd = "probe" /\ r.at = "probing" /\ r.item = None
      /\ r.id = None /\ r.key = None /\ r.copy = copy /\ r.touched = {}
    BY <1>2, Defaults DEF Processes, copy
<1> HIDE DEF r
<1>4. Begins(p, r.cmd, r.at, r.item, r.copy)
    BY <1>1, <1>3, Beginning
<1>5. Begins(p, "probe", "probing", None, copy)
    BY <1>3, <1>4
<1> QED
    BY <1>5 DEF copy

\* The slot of a process that ends is free again.
Ends(p) ==
    /\ proc' \in [Procs -> Processes]
    /\ proc'[p] = Idle
    /\ Aside(p)

LEMMA StopEnds ==
    ASSUME TypeInv, NEW p \in Procs, Stop(p)
    PROVE  Ends(p)
<1>1. proc \in [Procs -> Processes] /\ Idle \in Processes
    BY Defaults DEF TypeInv, TypeOK
<1>2. proc' = [proc EXCEPT ![p] = Idle]
    BY DEF Stop
<1>3. \A q \in Procs \ {p} : proc'[q] = proc[q]
    BY <1>1, <1>2
<1> QED
    BY <1>1, <1>2, <1>3 DEF Ends, Aside

\* A slot whose copy is going to be saved.
Saving(r) == r.at \in {"listing", "deleting", "truncating", "writing"}

\* Those that will save an older config than the one p has just saved know.
LEMMA WriteEnds ==
    ASSUME TypeInv, NEW p \in Procs, Write(p)
    PROVE  /\ Ends(p)
           /\ \A q \in Procs \ {p} : Saving(proc[q]) =>
                 proc[p].item \in proc'[q].touched
<1> DEFINE touched(q) == proc[q].touched \cup {proc[p].item}
           other(q) == [proc[q] EXCEPT !.touched = touched(q)]
<1>0. proc[p].item \in Names \cup {LoginItem}
    BY Items DEF Write
<1>1. proc' = [q \in Procs |->
            IF q = p THEN Idle ELSE IF Saving(proc[q]) THEN other(q) ELSE proc[q]]
    BY DEF Write, Touch, Saving
<1>2. ASSUME NEW q \in Procs
      PROVE  /\ other(q) \in Processes /\ other(q).cmd = proc[q].cmd
             /\ other(q).at = proc[q].at /\ other(q).item = proc[q].item
             /\ other(q).id = proc[q].id /\ other(q).key = proc[q].key
             /\ other(q).copy = proc[q].copy /\ other(q).rival = proc[q].rival
             /\ other(q).touched = touched(q)
    <2>1. touched(q) \in SUBSET (Names \cup {LoginItem})
        BY <1>0, Fields
    <2> HIDE DEF touched
    <2> QED
        BY <2>1, Fields DEF Processes
<1>3. \A q \in Procs : /\ proc[q].touched \subseteq touched(q)
                        /\ proc[p].item \in touched(q)
                        /\ proc[q] \in Processes
    BY Fields
<1> HIDE DEF touched, other
<1>4. Aside(p)
    BY <1>1, <1>2, <1>3 DEF Aside
<1>5. Ends(p)
    BY <1>1, <1>2, <1>3, <1>4, Defaults DEF Ends
<1>6. \A q \in Procs \ {p} : Saving(proc[q]) => proc[p].item \in proc'[q].touched
    BY <1>1, <1>2, <1>3
<1> QED
    BY <1>5, <1>6

\* A deletion elsewhere disturbs the commands on that name, and moves none.
LEMMA DeleteDisturbs ==
    ASSUME TypeInv, NEW n \in Names, DeleteElsewhere(n)
    PROVE  /\ proc' \in [Procs -> Processes]
           /\ \A q \in Procs :
                /\ proc'[q].cmd = proc[q].cmd
                /\ proc'[q].at = proc[q].at
                /\ proc'[q].item = proc[q].item
                /\ proc'[q].id = proc[q].id
                /\ proc'[q].key = proc[q].key
                /\ proc'[q].copy = proc[q].copy
                /\ proc'[q].touched = proc[q].touched
                /\ proc[q].rival => proc'[q].rival
                /\ proc[q].item = n => proc'[q].rival
<1>1. proc' = [q \in Procs |-> IF proc[q].item = n
                THEN [proc[q] EXCEPT !.rival = TRUE] ELSE proc[q]]
    BY DEF DeleteElsewhere
<1>2. ASSUME NEW q \in Procs
      PROVE  LET r == [proc[q] EXCEPT !.rival = TRUE] IN
             /\ r \in Processes /\ r.cmd = proc[q].cmd /\ r.at = proc[q].at
             /\ r.item = proc[q].item /\ r.id = proc[q].id /\ r.key = proc[q].key
             /\ r.copy = proc[q].copy /\ r.touched = proc[q].touched /\ r.rival
    BY Fields DEF Processes
<1> QED
    BY <1>1, <1>2, Fields

-----------------------------------------------------------------------------
(* Types, places and the lock are kept.                                    *)

\* TypeOK without what it says of the slots.
Stored ==
    /\ service \in [Names -> Ids \cup {None}]
    /\ credential \in [Credentials ->
           [status : {"unused", "ticket", "enrolled", "revoked"},
            key : Keys \cup {None}]]
    /\ registered \in Keys \cup {ForeignKey, None}
    /\ signingKey \in SigningKeys
    /\ file \in Configs
    /\ identity \in Keys \cup {None, "torn"}
    /\ lock \in Procs \cup {None}
    /\ history \in [excused : SUBSET (Names \cup {LoginItem}),
                    raced : BOOLEAN, forked : BOOLEAN]
    /\ spent \in [commands : 0 .. MaxCommands, changes : 0 .. MaxChanges]

\* What the steps store keeps its type.
LEMMA StoredKept ==
    ASSUME TypeInv, [Next]_vars
    PROVE  Stored'
<1>1. ASSUME NEW p \in Procs, NEW n \in Names, HostStart(p, n)
      PROVE  Stored'
    <2>1. /\ spent.commands < MaxCommands
          /\ spent' = [spent EXCEPT !.commands = @ + 1]
        BY <1>1 DEF HostStart, Begin
    <2>2. UNCHANGED <<remoteVars, localVars, history>>
        BY <1>1 DEF HostStart
    <2>3. spent' \in [commands : 0 .. MaxCommands, changes : 0 .. MaxChanges]
        BY <1>1, <2>1, HostConfigAssumption DEF TypeInv, TypeOK
    <2> QED
        BY <1>1, <2>2, <2>3 DEF Stored, TypeInv, TypeOK, remoteVars, localVars
<1>2. ASSUME NEW p \in Procs, NEW n \in Names, RemoveStart(p, n)
      PROVE  Stored'
    <2>1. /\ spent.commands < MaxCommands
          /\ spent' = [spent EXCEPT !.commands = @ + 1]
        BY <1>2 DEF RemoveStart, Begin
    <2>2. UNCHANGED <<remoteVars, localVars, history>>
        BY <1>2 DEF RemoveStart
    <2>3. spent' \in [commands : 0 .. MaxCommands, changes : 0 .. MaxChanges]
        BY <1>2, <2>1, HostConfigAssumption DEF TypeInv, TypeOK
    <2> QED
        BY <1>2, <2>2, <2>3 DEF Stored, TypeInv, TypeOK, remoteVars, localVars
<1>3. ASSUME NEW p \in Procs, NEW c \in Credentials, LoginStart(p, c)
      PROVE  Stored'
    <2>1. /\ spent.commands < MaxCommands
          /\ spent' = [spent EXCEPT !.commands = @ + 1]
        BY <1>3 DEF LoginStart, Begin
    <2>2. UNCHANGED <<remoteVars, localVars, history>>
        BY <1>3 DEF LoginStart
    <2>3. spent' \in [commands : 0 .. MaxCommands, changes : 0 .. MaxChanges]
        BY <1>3, <2>1, HostConfigAssumption DEF TypeInv, TypeOK
    <2> QED
        BY <1>3, <2>2, <2>3 DEF Stored, TypeInv, TypeOK, remoteVars, localVars
<1>4. ASSUME NEW p \in Procs, DaemonStart(p)
      PROVE  Stored'
    <2>1. /\ spent.commands < MaxCommands
          /\ spent' = [spent EXCEPT !.commands = @ + 1]
        BY <1>4 DEF DaemonStart, Begin
    <2>2. UNCHANGED <<remoteVars, localVars, history>>
        BY <1>4 DEF DaemonStart
    <2>3. spent' \in [commands : 0 .. MaxCommands, changes : 0 .. MaxChanges]
        BY <1>4, <2>1, HostConfigAssumption DEF TypeInv, TypeOK
    <2> QED
        BY <1>4, <2>2, <2>3 DEF Stored, TypeInv, TypeOK, remoteVars, localVars
<1>5. ASSUME NEW p \in Procs, ProbeStart(p)
      PROVE  Stored'
    <2>1. /\ spent.commands < MaxCommands
          /\ spent' = [spent EXCEPT !.commands = @ + 1]
        BY <1>5 DEF ProbeStart, Begin
    <2>2. lock' = p /\ UNCHANGED <<remoteVars, file, identity, history>>
        BY <1>5 DEF ProbeStart
    <2>3. spent' \in [commands : 0 .. MaxCommands, changes : 0 .. MaxChanges]
        BY <1>5, <2>1, HostConfigAssumption DEF TypeInv, TypeOK
    <2> QED
        BY <1>5, <2>2, <2>3 DEF Stored, TypeInv, TypeOK, remoteVars, localVars
<1>6. ASSUME NEW p \in Procs, HostPost(p)
      PROVE  Stored'
    <2>1. proc[p].item \in Names
        BY <1>6, Items DEF HostPost
    <2>2. PICK i \in Ids : service' = [service EXCEPT ![proc[p].item] = i]
        BY <1>6, HostPostMoves
    <2> QED
        BY <1>6, <2>1, <2>2 DEF HostPost, Stored, TypeInv, TypeOK, localVars
<1>7. ASSUME NEW p \in Procs, HostLoad(p)
      PROVE  Stored'
    BY <1>7, HostConfigAssumption
        DEF HostLoad, Stored, TypeInv, TypeOK, remoteVars, localVars
<1>8. ASSUME NEW p \in Procs, RemoveList(p)
      PROVE  Stored'
    BY <1>8, HostConfigAssumption
        DEF RemoveList, Stored, TypeInv, TypeOK, remoteVars, localVars
<1>9. ASSUME NEW p \in Procs, RemoveDelete(p)
      PROVE  Stored'
    <2>1. proc[p].item \in Names
        BY <1>9, Items DEF RemoveDelete
    <2> QED
        BY <1>9, <2>1 DEF RemoveDelete, Stored, TypeInv, TypeOK, localVars
<1>10. ASSUME NEW p \in Procs, ReadIdentity(p)
      PROVE  Stored'
    BY <1>10, HostConfigAssumption
        DEF ReadIdentity, Stored, TypeInv, TypeOK, remoteVars, localVars
<1>11. ASSUME NEW p \in Procs, GenerateIdentity(p)
      PROVE  Stored'
    <2> DEFINE b == history.forked \/ \E q \in Procs : proc[q].at \in {"generated", "keying"}
    <2>1. history' = [history EXCEPT !.forked = b]
        BY <1>11 DEF GenerateIdentity
    <2>2. b \in BOOLEAN
        BY <1>11 DEF TypeInv, TypeOK
    <2> HIDE DEF b
    <2>3. history' \in [excused : SUBSET (Names \cup {LoginItem}),
                        raced : BOOLEAN, forked : BOOLEAN]
        BY <1>11, <2>1, <2>2 DEF TypeInv, TypeOK
    <2> QED
        BY <1>11, <2>3, HostConfigAssumption
        DEF GenerateIdentity, Stored, TypeInv, TypeOK, remoteVars, localVars
<1>12. ASSUME NEW p \in Procs, TruncateIdentity(p)
      PROVE  Stored'
    BY <1>12, HostConfigAssumption
        DEF TruncateIdentity, Stored, TypeInv, TypeOK, remoteVars, localVars
<1>13. ASSUME NEW p \in Procs, WriteIdentity(p)
      PROVE  Stored'
    BY <1>13, HostConfigAssumption, Fields, Items
        DEF WriteIdentity, Stored, TypeInv, TypeOK, remoteVars, localVars
<1>14. ASSUME NEW p \in Procs, LoginEnroll(p)
      PROVE  Stored'
    BY <1>14, HostConfigAssumption, Fields, Items
        DEF LoginEnroll, Stored, TypeInv, TypeOK, remoteVars, localVars
<1>15. ASSUME NEW p \in Procs, LoginConfirm(p)
      PROVE  Stored'
    BY <1>15, HostConfigAssumption
        DEF LoginConfirm, Stored, TypeInv, TypeOK, remoteVars, localVars
<1>16. ASSUME NEW p \in Procs, DaemonLock(p)
      PROVE  Stored'
    BY <1>16, HostConfigAssumption
        DEF DaemonLock, Stored, TypeInv, TypeOK, remoteVars, localVars,
            Unlocked, Halfway
<1>17. ASSUME NEW p \in Procs, DaemonProve(p)
      PROVE  Stored'
    BY <1>17, HostConfigAssumption
        DEF DaemonProve, Stored, TypeInv, TypeOK, remoteVars, localVars
<1>18. ASSUME NEW p \in Procs, DaemonRegister(p)
      PROVE  Stored'
    BY <1>18, HostConfigAssumption, Fields, Items
        DEF DaemonRegister, Stored, TypeInv, TypeOK, remoteVars, localVars
<1>19. ASSUME NEW p \in Procs, Reload(p)
      PROVE  Stored'
    BY <1>19, HostConfigAssumption
        DEF Reload, Stored, TypeInv, TypeOK, remoteVars, localVars
<1>20. ASSUME NEW p \in Procs, Truncate(p)
      PROVE  Stored'
    BY <1>20, HostConfigAssumption, Defaults
        DEF Truncate, Stored, TypeInv, TypeOK, remoteVars, localVars
<1>21. ASSUME NEW p \in Procs, Write(p)
      PROVE  Stored'
    <2>1. proc[p].item \in Names \cup {LoginItem}
        BY <1>21, Items DEF Write
    <2>2. /\ proc[p].copy \in Configs /\ Torn \in Configs
          /\ proc[p].touched \in SUBSET (Names \cup {LoginItem})
        BY <1>21, Fields, Defaults
    <2>3. file' \in Configs
        BY <1>21, <2>2 DEF Write
    <2> DEFINE settled == IF proc[p].rival THEN {} ELSE {proc[p].item}
               e == (history.excused \ settled) \cup (proc[p].touched \ settled)
                        \cup (IF proc[p].rival THEN {proc[p].item} ELSE {})
    <2>4. history' = [history EXCEPT !.excused = e]
        BY <1>21 DEF Write
    <2>5. e \in SUBSET (Names \cup {LoginItem})
        BY <1>21, <2>1, <2>2 DEF TypeInv, TypeOK
    <2> HIDE DEF e
    <2>6. history' \in [excused : SUBSET (Names \cup {LoginItem}),
                        raced : BOOLEAN, forked : BOOLEAN]
        BY <1>21, <2>4, <2>5 DEF TypeInv, TypeOK
    <2> QED
        BY <1>21, <2>3, <2>6 DEF Write, Stored, TypeInv, TypeOK, remoteVars
<1>22. ASSUME NEW p \in Procs, Stop(p)
      PROVE  Stored'
    <2>1. Halfway(p) => proc[p].item \in Names \cup {LoginItem}
        BY <1>22, Items DEF Halfway
    <2>2. history' \in [excused : SUBSET (Names \cup {LoginItem}),
                        raced : BOOLEAN, forked : BOOLEAN]
        BY <1>22, <2>1 DEF Stop, TypeInv, TypeOK
    <2> QED
        BY <1>22, <2>2 DEF Stop, Unlocked, Stored, TypeInv, TypeOK, remoteVars
<1>23. ASSUME NEW c \in Credentials, CreateTicket(c)
      PROVE  Stored'
    <2>1. /\ Elsewhere
          /\ credential' = [credential EXCEPT ![c].status = "ticket"]
          /\ UNCHANGED <<service, registered, signingKey, proc, history>>
        BY <1>23 DEF CreateTicket
    <2> QED
        BY <1>23, <2>1, HostConfigAssumption
        DEF Elsewhere, Stored, TypeInv, TypeOK, localVars
<1>24. ASSUME NEW c \in Credentials, Revoke(c)
      PROVE  Stored'
    <2> DEFINE b == history.raced \/ \E p \in Procs : proc[p].at = "registering" /\ proc[p].copy.cred = c
    <2>1. history' = [history EXCEPT !.raced = b]
        BY <1>24 DEF Revoke
    <2>2. b \in BOOLEAN
        BY <1>24 DEF TypeInv, TypeOK
    <2> HIDE DEF b
    <2>3. history' \in [excused : SUBSET (Names \cup {LoginItem}),
                        raced : BOOLEAN, forked : BOOLEAN]
        BY <1>24, <2>1, <2>2 DEF TypeInv, TypeOK
    <2> QED
        BY <1>24, <2>3, HostConfigAssumption
        DEF Revoke, Elsewhere, Stored, TypeInv, TypeOK, remoteVars, localVars
<1>25. ASSUME NEW n \in Names, DeleteElsewhere(n)
      PROVE  Stored'
    BY <1>25, HostConfigAssumption
        DEF DeleteElsewhere, Stored, TypeInv, TypeOK, remoteVars, localVars,
            Elsewhere
<1>26. ASSUME RegisterElsewhere
      PROVE  Stored'
    BY <1>26, HostConfigAssumption
        DEF RegisterElsewhere, Stored, TypeInv, TypeOK, remoteVars, localVars,
            Elsewhere
<1>27. ASSUME NEW k \in SigningKeys, RotateSigningKey(k)
      PROVE  Stored'
    BY <1>27, HostConfigAssumption
        DEF RotateSigningKey, Stored, TypeInv, TypeOK, remoteVars, localVars,
            Elsewhere
<1>28. CASE UNCHANGED vars
    BY <1>28 DEF Stored, TypeInv, TypeOK, vars, remoteVars, localVars
<1> QED
    BY <1>1, <1>2, <1>3, <1>4, <1>5, <1>6, <1>7, <1>8, <1>9, <1>10, <1>11,
       <1>12, <1>13, <1>14, <1>15, <1>16, <1>17, <1>18, <1>19, <1>20, <1>21,
       <1>22, <1>23, <1>24, <1>25, <1>26, <1>27, <1>28
    DEF Next, Process, Outside, Identity

\* A step of p keeps the order of its command and the lock.
LEMMA OwnStep ==
    ASSUME TypeInv, NEW p \in Procs, Aside(p), StepOK(proc'[p]),
           Holder(proc'[p]) => lock' = p,
           lock' = lock \/ lock \in {None, p}
    PROVE  StepInv' /\ LockInv'
<1>1. ASSUME NEW q \in Procs, q # p
      PROVE  StepOK(proc'[q]) /\ (Holder(proc'[q]) => lock' = q)
    <2>1. StepOK(proc[q]) /\ (Holder(proc[q]) => lock = q)
        BY DEF TypeInv, StepInv, LockInv
    <2>2. /\ proc'[q].cmd = proc[q].cmd /\ proc'[q].at = proc[q].at
          /\ proc'[q].item = proc[q].item /\ proc'[q].key = proc[q].key
          /\ proc'[q].copy = proc[q].copy
        BY <1>1 DEF Aside
    <2>3. StepOK(proc'[q])
        BY <2>1, <2>2 DEF StepOK
    <2> QED
        BY <1>1, <2>1, <2>2, <2>3, HostConfigAssumption DEF Holder
<1> QED
    BY <1>1 DEF StepInv, LockInv

\* Every command keeps to its order, and the lock to its holder.
LEMMA SlotsKept ==
    ASSUME TypeInv, [Next]_vars
    PROVE  proc' \in [Procs -> Processes] /\ StepInv' /\ LockInv'
<1>1. ASSUME NEW p \in Procs, NEW n \in Names, HostStart(p, n)
      PROVE  proc' \in [Procs -> Processes] /\ StepInv' /\ LockInv'
    <2>1. Begins(p, "host", "posting", n, file)
        BY <1>1, HostStartBegins
    <2>2. StepOK(proc'[p])
        BY <1>1, <2>1, Items, HostConfigAssumption DEF StepOK, Begins
    <2>3. /\ Holder(proc'[p]) => lock' = p
          /\ lock' = lock \/ lock \in {None, p}
        BY <1>1, <2>1, <2>2
            DEF HostStart, Begins, Holder, TypeInv, LockInv, localVars
    <2> QED
        BY <1>1, <2>1, <2>2, <2>3, OwnStep DEF Begins
<1>2. ASSUME NEW p \in Procs, NEW n \in Names, RemoveStart(p, n)
      PROVE  proc' \in [Procs -> Processes] /\ StepInv' /\ LockInv'
    <2>1. Begins(p, "remove", "listing", n, file)
        BY <1>2, RemoveStartBegins
    <2>2. StepOK(proc'[p])
        BY <1>2, <2>1, Items, HostConfigAssumption DEF StepOK, Begins
    <2>3. /\ Holder(proc'[p]) => lock' = p
          /\ lock' = lock \/ lock \in {None, p}
        BY <1>2, <2>1, <2>2
            DEF RemoveStart, Begins, Holder, TypeInv, LockInv, localVars
    <2> QED
        BY <1>2, <2>1, <2>2, <2>3, OwnStep DEF Begins
<1>3. ASSUME NEW p \in Procs, NEW c \in Credentials, LoginStart(p, c)
      PROVE  proc' \in [Procs -> Processes] /\ StepInv' /\ LockInv'
    <2>1. Begins(p, "login", "identity", LoginItem,
                        [Default EXCEPT !.cred = c, !.pinned = signingKey])
        BY <1>3, LoginStartBegins
    <2>a. [Default EXCEPT !.cred = c, !.pinned = signingKey].cred = c
        BY <1>3, EnrolledConfig DEF TypeInv, TypeOK
    <2>2. StepOK(proc'[p])
        BY <1>3, <2>1, Items, HostConfigAssumption, <2>a DEF StepOK, Begins
    <2>3. /\ Holder(proc'[p]) => lock' = p
          /\ lock' = lock \/ lock \in {None, p}
        BY <1>3, <2>1, <2>2
            DEF LoginStart, Begins, Holder, TypeInv, LockInv, localVars
    <2> QED
        BY <1>3, <2>1, <2>2, <2>3, OwnStep DEF Begins
<1>4. ASSUME NEW p \in Procs, DaemonStart(p)
      PROVE  proc' \in [Procs -> Processes] /\ StepInv' /\ LockInv'
    <2>1. Begins(p, "daemon", "locking", None, file)
        BY <1>4, DaemonStartBegins
    <2>2. StepOK(proc'[p])
        BY <1>4, <2>1, Items, HostConfigAssumption, Fields, ConfigFields
            DEF StepOK, Begins, DaemonStart, TypeInv, TypeOK
    <2>3. /\ Holder(proc'[p]) => lock' = p
          /\ lock' = lock \/ lock \in {None, p}
        BY <1>4, <2>1, <2>2
            DEF DaemonStart, Begins, Holder, TypeInv, LockInv, localVars
    <2> QED
        BY <1>4, <2>1, <2>2, <2>3, OwnStep DEF Begins
<1>5. ASSUME NEW p \in Procs, ProbeStart(p)
      PROVE  proc' \in [Procs -> Processes] /\ StepInv' /\ LockInv'
    <2>1. Begins(p, "probe", "probing", None, Default)
        BY <1>5, ProbeStartBegins
    <2>2. StepOK(proc'[p])
        BY <1>5, <2>1, Items, HostConfigAssumption, Defaults DEF StepOK, Begins
    <2>3. /\ Holder(proc'[p]) => lock' = p
          /\ lock' = lock \/ lock \in {None, p}
        BY <1>5, <2>1, <2>2
            DEF ProbeStart, Begins, Holder, TypeInv, LockInv, localVars
    <2> QED
        BY <1>5, <2>1, <2>2, <2>3, OwnStep DEF Begins
<1>6. ASSUME NEW p \in Procs, HostPost(p)
      PROVE  proc' \in [Procs -> Processes] /\ StepInv' /\ LockInv'
    <2>1. \E i \in Ids :
                      /\ service[proc[p].item] # None => i = service[proc[p].item]
                      /\ service' = [service EXCEPT ![proc[p].item] = i]
                      /\ Moves(p, "loading", i, proc[p].key, proc[p].copy)
        BY <1>6, HostPostMoves
    <2>2. StepOK(proc'[p])
        BY <1>6, <2>1, Items DEF HostPost, StepOK, Moves
    <2>3. /\ Holder(proc'[p]) => lock' = p
          /\ lock' = lock \/ lock \in {None, p}
        BY <1>6, <2>1, <2>2
            DEF HostPost, Moves, Holder, TypeInv, LockInv, localVars
    <2> QED
        BY <1>6, <2>1, <2>2, <2>3, OwnStep DEF Moves
<1>7. ASSUME NEW p \in Procs, HostLoad(p)
      PROVE  proc' \in [Procs -> Processes] /\ StepInv' /\ LockInv'
    <2>1. Moves(p, "truncating", proc[p].id, proc[p].key, Mapped(file, proc[p].item, proc[p].id))
        BY <1>7, HostLoadMoves
    <2>2. StepOK(proc'[p])
        BY <1>7, <2>1, Items DEF HostLoad, StepOK, Moves
    <2>3. /\ Holder(proc'[p]) => lock' = p
          /\ lock' = lock \/ lock \in {None, p}
        BY <1>7, <2>1, <2>2
            DEF HostLoad, Moves, Holder, TypeInv, LockInv, localVars
    <2> QED
        BY <1>7, <2>1, <2>2, <2>3, OwnStep DEF Moves
<1>8. ASSUME NEW p \in Procs, RemoveList(p)
      PROVE  proc' \in [Procs -> Processes] /\ StepInv' /\ LockInv'
    <2>1. Moves(p, "deleting", service[proc[p].item], proc[p].key, proc[p].copy)
        BY <1>8, RemoveListMoves
    <2>2. StepOK(proc'[p])
        BY <1>8, <2>1, Items DEF RemoveList, StepOK, Moves
    <2>3. /\ Holder(proc'[p]) => lock' = p
          /\ lock' = lock \/ lock \in {None, p}
        BY <1>8, <2>1, <2>2
            DEF RemoveList, Moves, Holder, TypeInv, LockInv, localVars
    <2> QED
        BY <1>8, <2>1, <2>2, <2>3, OwnStep DEF Moves
<1>9. ASSUME NEW p \in Procs, RemoveDelete(p)
      PROVE  proc' \in [Procs -> Processes] /\ StepInv' /\ LockInv'
    <2>1. Moves(p, "truncating", proc[p].id, proc[p].key, Mapped(proc[p].copy, proc[p].item, None))
        BY <1>9, RemoveDeleteMoves
    <2>2. StepOK(proc'[p])
        BY <1>9, <2>1, Items DEF RemoveDelete, StepOK, Moves
    <2>3. /\ Holder(proc'[p]) => lock' = p
          /\ lock' = lock \/ lock \in {None, p}
        BY <1>9, <2>1, <2>2
            DEF RemoveDelete, Moves, Holder, TypeInv, LockInv, localVars
    <2> QED
        BY <1>9, <2>1, <2>2, <2>3, OwnStep DEF Moves
<1>10. ASSUME NEW p \in Procs, ReadIdentity(p)
      PROVE  proc' \in [Procs -> Processes] /\ StepInv' /\ LockInv'
    <2>1. Moves(p, AfterIdentity(p), proc[p].id, identity, proc[p].copy)
        BY <1>10, ReadIdentityMoves
    <2>2. StepOK(proc'[p])
        BY <1>10, <2>1, Items DEF ReadIdentity, StepOK, Moves, AfterIdentity
    <2>3. /\ Holder(proc'[p]) => lock' = p
          /\ lock' = lock \/ lock \in {None, p}
        BY <1>10, <2>1, <2>2
            DEF ReadIdentity, Moves, Holder, TypeInv, LockInv, localVars,
                AfterIdentity
    <2> QED
        BY <1>10, <2>1, <2>2, <2>3, OwnStep DEF Moves
<1>11. ASSUME NEW p \in Procs, GenerateIdentity(p)
      PROVE  proc' \in [Procs -> Processes] /\ StepInv' /\ LockInv'
    <2>1. \E k \in FreshKeys : Moves(p, "generated", proc[p].id, k, proc[p].copy)
        BY <1>11, GenerateIdentityMoves
    <2>2. StepOK(proc'[p])
        BY <1>11, <2>1, Items DEF GenerateIdentity, StepOK, Moves
    <2>3. /\ Holder(proc'[p]) => lock' = p
          /\ lock' = lock \/ lock \in {None, p}
        BY <1>11, <2>1, <2>2
            DEF GenerateIdentity, Moves, Holder, TypeInv, LockInv, localVars
    <2> QED
        BY <1>11, <2>1, <2>2, <2>3, OwnStep DEF Moves
<1>12. ASSUME NEW p \in Procs, TruncateIdentity(p)
      PROVE  proc' \in [Procs -> Processes] /\ StepInv' /\ LockInv'
    <2>1. Moves(p, "keying", proc[p].id, proc[p].key, proc[p].copy)
        BY <1>12, TruncateIdentityMoves
    <2>2. StepOK(proc'[p])
        BY <1>12, <2>1, Items DEF TruncateIdentity, StepOK, Moves
    <2>3. /\ Holder(proc'[p]) => lock' = p
          /\ lock' = lock \/ lock \in {None, p}
        BY <1>12, <2>1, <2>2
            DEF TruncateIdentity, Moves, Holder, TypeInv, LockInv, localVars
    <2> QED
        BY <1>12, <2>1, <2>2, <2>3, OwnStep DEF Moves
<1>13. ASSUME NEW p \in Procs, WriteIdentity(p)
      PROVE  proc' \in [Procs -> Processes] /\ StepInv' /\ LockInv'
    <2>1. Moves(p, AfterIdentity(p), proc[p].id, proc[p].key, proc[p].copy)
        BY <1>13, WriteIdentityMoves
    <2>2. StepOK(proc'[p])
        BY <1>13, <2>1, Items DEF WriteIdentity, StepOK, Moves, AfterIdentity
    <2>3. /\ Holder(proc'[p]) => lock' = p
          /\ lock' = lock \/ lock \in {None, p}
        BY <1>13, <2>1, <2>2
            DEF WriteIdentity, Moves, Holder, TypeInv, LockInv, localVars,
                AfterIdentity
    <2> QED
        BY <1>13, <2>1, <2>2, <2>3, OwnStep DEF Moves
<1>14. ASSUME NEW p \in Procs, LoginEnroll(p)
      PROVE  proc' \in [Procs -> Processes] /\ StepInv' /\ LockInv'
    <2>1. Moves(p, "confirming", proc[p].id, proc[p].key, proc[p].copy)
        BY <1>14, LoginEnrollMoves
    <2>2. StepOK(proc'[p])
        BY <1>14, <2>1, Items DEF LoginEnroll, StepOK, Moves
    <2>3. /\ Holder(proc'[p]) => lock' = p
          /\ lock' = lock \/ lock \in {None, p}
        BY <1>14, <2>1, <2>2
            DEF LoginEnroll, Moves, Holder, TypeInv, LockInv, localVars
    <2> QED
        BY <1>14, <2>1, <2>2, <2>3, OwnStep DEF Moves
<1>15. ASSUME NEW p \in Procs, LoginConfirm(p)
      PROVE  proc' \in [Procs -> Processes] /\ StepInv' /\ LockInv'
    <2>1. Moves(p, "truncating", proc[p].id, proc[p].key, [file EXCEPT !.cred = proc[p].copy.cred,
                                  !.pinned = proc[p].copy.pinned])
        BY <1>15, LoginConfirmMoves
    <2>a. [file EXCEPT !.cred = proc[p].copy.cred, !.pinned = proc[p].copy.pinned].cred
              = proc[p].copy.cred
        BY <1>15, Fields, EditedConfig DEF TypeInv, TypeOK
    <2>2. StepOK(proc'[p])
        <3>1. /\ proc[p].cmd = "login" /\ proc[p].item = LoginItem
              /\ proc[p].copy.cred \in Credentials
            BY <1>15, Items DEF LoginConfirm, StepOK
        <3>2. /\ proc'[p].cmd = "login" /\ proc'[p].item = LoginItem
              /\ proc'[p].at = "truncating" /\ proc'[p].copy.cred \in Credentials
            BY <2>1, <2>a, <3>1 DEF Moves
        <3> QED
            BY <3>2 DEF StepOK
    <2>3. /\ Holder(proc'[p]) => lock' = p
          /\ lock' = lock \/ lock \in {None, p}
        BY <1>15, <2>1, <2>2
            DEF LoginConfirm, Moves, Holder, TypeInv, LockInv, localVars
    <2> QED
        BY <1>15, <2>1, <2>2, <2>3, OwnStep DEF Moves
<1>16. ASSUME NEW p \in Procs, DaemonLock(p)
      PROVE  proc' \in [Procs -> Processes] /\ StepInv' /\ LockInv'
    <2>1. Moves(p, "identity", proc[p].id, proc[p].key, proc[p].copy)
        BY <1>16, DaemonLockMoves
    <2>2. StepOK(proc'[p])
        BY <1>16, <2>1, Items DEF DaemonLock, StepOK, Moves
    <2>3. /\ Holder(proc'[p]) => lock' = p
          /\ lock' = lock \/ lock \in {None, p}
        BY <1>16, <2>1, <2>2
            DEF DaemonLock, Moves, Holder, TypeInv, LockInv, localVars
    <2> QED
        BY <1>16, <2>1, <2>2, <2>3, OwnStep DEF Moves
<1>17. ASSUME NEW p \in Procs, DaemonProve(p)
      PROVE  proc' \in [Procs -> Processes] /\ StepInv' /\ LockInv'
    <2>1. Moves(p, "registering", proc[p].id, proc[p].key, proc[p].copy)
        BY <1>17, DaemonProveMoves
    <2>2. StepOK(proc'[p])
        BY <1>17, <2>1, Items DEF DaemonProve, StepOK, Moves
    <2>3. /\ Holder(proc'[p]) => lock' = p
          /\ lock' = lock \/ lock \in {None, p}
        BY <1>17, <2>1, <2>2
            DEF DaemonProve, Moves, Holder, TypeInv, LockInv, localVars
    <2> QED
        BY <1>17, <2>1, <2>2, <2>3, OwnStep DEF Moves
<1>18. ASSUME NEW p \in Procs, DaemonRegister(p)
      PROVE  proc' \in [Procs -> Processes] /\ StepInv' /\ LockInv'
    <2>1. Moves(p, "serving", proc[p].id, proc[p].key, proc[p].copy)
        BY <1>18, DaemonRegisterMoves
    <2>2. StepOK(proc'[p])
        BY <1>18, <2>1, Items DEF DaemonRegister, StepOK, Moves
    <2>3. /\ Holder(proc'[p]) => lock' = p
          /\ lock' = lock \/ lock \in {None, p}
        BY <1>18, <2>1, <2>2
            DEF DaemonRegister, Moves, Holder, TypeInv, LockInv, localVars
    <2> QED
        BY <1>18, <2>1, <2>2, <2>3, OwnStep DEF Moves
<1>19. ASSUME NEW p \in Procs, Reload(p)
      PROVE  proc' \in [Procs -> Processes] /\ StepInv' /\ LockInv'
    <2>1. Moves(p, "serving", proc[p].id, proc[p].key, [proc[p].copy EXCEPT !.services = file.services])
        BY <1>19, ReloadMoves
    <2>a. [proc[p].copy EXCEPT !.services = file.services].cred = proc[p].copy.cred
        <3>1. proc[p].copy \in Configs /\ file \in Configs
            BY <1>19, Fields DEF TypeInv, TypeOK
        <3> QED
            BY <1>19, <3>1, EditedConfig
    <2>2. StepOK(proc'[p])
        BY <1>19, <2>1, <2>a, Items DEF Reload, StepOK, Moves
    <2>3. /\ Holder(proc'[p]) => lock' = p
          /\ lock' = lock \/ lock \in {None, p}
        BY <1>19, <2>1, <2>2
            DEF Reload, Moves, Holder, TypeInv, LockInv, localVars
    <2> QED
        BY <1>19, <2>1, <2>2, <2>3, OwnStep DEF Moves
<1>20. ASSUME NEW p \in Procs, Truncate(p)
      PROVE  proc' \in [Procs -> Processes] /\ StepInv' /\ LockInv'
    <2>1. Moves(p, "writing", proc[p].id, proc[p].key, proc[p].copy)
        BY <1>20, TruncateMoves
    <2>2. StepOK(proc'[p])
        BY <1>20, <2>1, Items DEF Truncate, StepOK, Moves
    <2>3. /\ Holder(proc'[p]) => lock' = p
          /\ lock' = lock \/ lock \in {None, p}
        BY <1>20, <2>1, <2>2
            DEF Truncate, Moves, Holder, TypeInv, LockInv, localVars
    <2> QED
        BY <1>20, <2>1, <2>2, <2>3, OwnStep DEF Moves
<1>21. ASSUME NEW p \in Procs, Write(p)
      PROVE  proc' \in [Procs -> Processes] /\ StepInv' /\ LockInv'
    <2>1. Ends(p)
        BY <1>21, WriteEnds
    <2>2. StepOK(proc'[p])
        BY <1>21, <2>1, Items, Defaults DEF Write, StepOK, Ends
    <2>3. /\ Holder(proc'[p]) => lock' = p
          /\ lock' = lock \/ lock \in {None, p}
        BY <1>21, <2>1, <2>2, Defaults
            DEF Write, Ends, Holder, TypeInv, LockInv, localVars
    <2> QED
        BY <1>21, <2>1, <2>2, <2>3, OwnStep DEF Ends
<1>22. ASSUME NEW p \in Procs, Stop(p)
      PROVE  proc' \in [Procs -> Processes] /\ StepInv' /\ LockInv'
    <2>1. Ends(p)
        BY <1>22, StopEnds
    <2>2. StepOK(proc'[p])
        BY <1>22, <2>1, Items, Defaults DEF Stop, StepOK, Ends
    <2>3. /\ Holder(proc'[p]) => lock' = p
          /\ lock' = lock \/ lock \in {None, p}
        BY <1>22, <2>1, <2>2, Defaults
            DEF Stop, Ends, Holder, TypeInv, LockInv, localVars, Unlocked
    <2> QED
        BY <1>22, <2>1, <2>2, <2>3, OwnStep DEF Ends
<1>23. ASSUME NEW c \in Credentials, CreateTicket(c)
      PROVE  proc' \in [Procs -> Processes] /\ StepInv' /\ LockInv'
    <2>1. proc' = proc /\ lock' = lock
        BY <1>23 DEF CreateTicket, Elsewhere, localVars
    <2> QED
        BY <1>23, <2>1 DEF TypeInv, TypeOK, StepInv, LockInv
<1>24. ASSUME NEW c \in Credentials, Revoke(c)
      PROVE  proc' \in [Procs -> Processes] /\ StepInv' /\ LockInv'
    <2>1. proc' = proc /\ lock' = lock
        BY <1>24 DEF Revoke, Elsewhere, localVars
    <2> QED
        BY <1>24, <2>1 DEF TypeInv, TypeOK, StepInv, LockInv
<1>25. ASSUME NEW n \in Names, DeleteElsewhere(n)
      PROVE  proc' \in [Procs -> Processes] /\ StepInv' /\ LockInv'
    <2>1. /\ proc' \in [Procs -> Processes]
          /\ \A q \in Procs :
               /\ proc'[q].cmd = proc[q].cmd /\ proc'[q].at = proc[q].at
               /\ proc'[q].item = proc[q].item /\ proc'[q].key = proc[q].key
               /\ proc'[q].copy = proc[q].copy
        BY <1>25, DeleteDisturbs
    <2>2. lock' = lock
        BY <1>25 DEF DeleteElsewhere, Elsewhere, localVars
    <2>3. StepInv'
        BY <1>25, <2>1 DEF StepInv, StepOK, TypeInv
    <2>4. LockInv'
        BY <1>25, <2>1, <2>2 DEF LockInv, Holder, TypeInv
    <2> QED
        BY <1>25, <2>1, <2>3, <2>4
<1>26. ASSUME RegisterElsewhere
      PROVE  proc' \in [Procs -> Processes] /\ StepInv' /\ LockInv'
    <2>1. proc' = proc /\ lock' = lock
        BY <1>26 DEF RegisterElsewhere, Elsewhere, localVars
    <2> QED
        BY <1>26, <2>1 DEF TypeInv, TypeOK, StepInv, LockInv
<1>27. ASSUME NEW k \in SigningKeys, RotateSigningKey(k)
      PROVE  proc' \in [Procs -> Processes] /\ StepInv' /\ LockInv'
    <2>1. proc' = proc /\ lock' = lock
        BY <1>27 DEF RotateSigningKey, Elsewhere, localVars
    <2> QED
        BY <1>27, <2>1 DEF TypeInv, TypeOK, StepInv, LockInv
<1>28. CASE UNCHANGED vars
    BY <1>28 DEF TypeInv, TypeOK, StepInv, LockInv, vars, remoteVars, localVars
<1> QED
    BY <1>1, <1>2, <1>3, <1>4, <1>5, <1>6, <1>7, <1>8, <1>9, <1>10, <1>11,
       <1>12, <1>13, <1>14, <1>15, <1>16, <1>17, <1>18, <1>19, <1>20, <1>21,
       <1>22, <1>23, <1>24, <1>25, <1>26, <1>27, <1>28
    DEF Next, Process, Outside, Identity

LEMMA TypeStep ==
    ASSUME TypeInv, [Next]_vars
    PROVE  TypeInv'
<1>1. Stored' /\ proc' \in [Procs -> Processes] /\ StepInv' /\ LockInv'
    BY StoredKept, SlotsKept
<1>2. \A p \in Procs : proc'[p].at = "serving" => lock' = p
    BY <1>1 DEF StepInv, StepOK, LockInv, Holder
<1> QED
    BY <1>1, <1>2 DEF TypeInv, TypeOK, Stored

LEMMA TypeInit == Init => TypeInv
<1> SUFFICES ASSUME Init PROVE TypeInv
    OBVIOUS
<1> DEFINE k == Any(Keys)
           c == Any(Credentials)
           s == Any(SigningKeys)
<1>1. k \in Keys /\ c \in Credentials /\ s \in SigningKeys
    BY HostConfigAssumption DEF Any
<1>2. /\ service = NoServices /\ signingKey = s
      /\ registered = None /\ lock = None
      /\ proc = [p \in Procs |-> Idle]
      /\ history = [excused |-> {}, raced |-> FALSE, forked |-> FALSE]
      /\ spent = [commands |-> 0, changes |-> 0]
    BY DEF Init
<1>3. \/ /\ credential = [d \in Credentials |-> [status |-> "unused", key |-> None]]
         /\ file = Default
         /\ identity = None
      \/ /\ credential = [d \in Credentials |->
                IF d = c THEN [status |-> "enrolled", key |-> k]
                ELSE [status |-> "unused", key |-> None]]
         /\ file = [Default EXCEPT !.cred = c, !.pinned = signingKey]
         /\ identity = k
    BY DEF Init
<1> HIDE DEF k, c, s
<1>4. service \in [Names -> Ids \cup {None}]
    BY <1>2 DEF NoServices
<1>5. /\ credential \in [Credentials ->
           [status : {"unused", "ticket", "enrolled", "revoked"},
            key : Keys \cup {None}]]
      /\ identity \in Keys \cup {None, "torn"}
    BY <1>1, <1>3
<1>6. file \in Configs
    BY <1>1, <1>2, <1>3, Defaults DEF Configs
<1>7. Stored
    BY <1>1, <1>2, <1>4, <1>5, <1>6, HostConfigAssumption DEF Stored
<1>8. proc \in [Procs -> Processes] /\ \A p \in Procs : proc[p] = Idle
    BY <1>2, Defaults
<1>9. StepInv /\ LockInv /\ \A p \in Procs : proc[p].at # "serving"
    BY <1>8, Defaults DEF StepInv, StepOK, LockInv, Holder
<1> QED
    BY <1>7, <1>8, <1>9 DEF TypeInv, TypeOK, Stored

\* Every variable of the config directory and of the control plane keeps its
\* type, and a daemon that serves holds daemon.lock, whatever commands run
\* beside each other, stop half way, or find a torn file.
THEOREM TypeCorrect == Spec => []TypeOK
<1>1. TypeInv /\ [Next]_vars => TypeInv'
    BY TypeStep
<1>2. TypeInv => TypeOK
    BY DEF TypeInv
<1> QED
    BY TypeInit, <1>1, <1>2, PTL DEF Spec

-----------------------------------------------------------------------------
(* The endpoint key and the credentials.                                   *)

\* A process that has made a key and not written it.
Generating(r) == r.at \in {"generated", "keying"}

\* A login that has its key.
Keyed(r) ==
    r.cmd = "login" /\ r.at \in {"enrolling", "confirming", "truncating", "writing"}

\* A login whose credential is not known to be enrolled.
Unenrolled(r) ==
    r.cmd = "login" /\ r.at \in {"identity", "generated", "keying", "enrolling"}

\* Only a login makes a key, and until it is written it is nobody else's.
GeneratorOK ==
    \A p \in Procs : Generating(proc[p]) =>
        /\ proc[p].cmd = "login"
        /\ proc[p].key \in Keys
        /\ identity # proc[p].key
        /\ \A c \in Credentials : credential[c].key # proc[p].key
        /\ \A q \in Procs \ {p} : proc[q].key # proc[p].key

\* What goes with a login that got that far: the key file is there.
PresentOK ==
    /\ file.cred # None => identity # None
    /\ \A p \in Procs :
        \/ proc[p].cmd = "daemon" \/ proc[p].at = "keying" \/ Keyed(proc[p])
        \/ ~Unenrolled(proc[p]) /\ proc[p].copy.cred # None
        => identity # None

\* A command that is past the key has one.
KeyedOK ==
    \A p \in Procs :
        Keyed(proc[p]) \/ proc[p].at \in {"proving", "registering", "serving"}
            => proc[p].key \in Keys

\* A secret is issued to a key, and no two to the same.
EnrolledOK ==
    /\ \A c \in Credentials :
         credential[c].status = "enrolled" => credential[c].key \in Keys
    /\ \A c, d \in Credentials :
         /\ credential[c].status = "enrolled" /\ credential[d].status = "enrolled"
         /\ credential[c].key = credential[d].key
         => c = d

\* As long as no two logins were making a key at once, there is one key: the
\* one on the disk, or the one that is about to be.
ForkOK ==
    ~history.forked =>
        /\ \A p \in Procs : Generating(proc[p]) =>
             identity \notin Keys /\ \A q \in Procs : Generating(proc[q]) => q = p
        /\ \A p \in Procs :
             ~Generating(proc[p]) /\ proc[p].key # None => proc[p].key = identity
        /\ \A c \in Credentials :
             credential[c].key # None => credential[c].key = identity

KeyInv == GeneratorOK /\ PresentOK /\ KeyedOK /\ EnrolledOK /\ ForkOK

\* A step of p that makes no key and issues no secret.
LEMMA KeyQuiet ==
    ASSUME TypeInv, KeyInv, NEW p \in Procs, Aside(p),
           identity' = identity, credential' = credential,
           history'.forked <=> history.forked,
           ~Generating(proc'[p]),
           \/ proc'[p].key = None
           \/ proc'[p].key = proc[p].key /\ ~Generating(proc[p])
           \/ proc'[p].key = identity,
           \/ identity # None
           \/ /\ file'.cred = None
              /\ proc'[p].cmd # "daemon" /\ ~Keyed(proc'[p])
              /\ Unenrolled(proc'[p]) \/ proc'[p].copy.cred = None,
           Keyed(proc'[p]) \/ proc'[p].at \in {"proving", "registering", "serving"}
               => proc'[p].key \in Keys
    PROVE  KeyInv'
<1>1. ASSUME NEW q \in Procs, q # p
      PROVE  /\ proc'[q].cmd = proc[q].cmd /\ proc'[q].at = proc[q].at
             /\ proc'[q].key = proc[q].key /\ proc'[q].copy = proc[q].copy
             /\ Generating(proc'[q]) <=> Generating(proc[q])
             /\ Keyed(proc'[q]) <=> Keyed(proc[q])
             /\ Unenrolled(proc'[q]) <=> Unenrolled(proc[q])
    BY <1>1 DEF Aside, Generating, Keyed, Unenrolled
<1>2. GeneratorOK'
    <2> SUFFICES ASSUME NEW q \in Procs, Generating(proc'[q])
                 PROVE  /\ proc'[q].cmd = "login"
                        /\ proc'[q].key \in Keys
                        /\ identity' # proc'[q].key
                        /\ \A c \in Credentials : credential'[c].key # proc'[q].key
                        /\ \A o \in Procs \ {q} : proc'[o].key # proc'[q].key
        BY DEF GeneratorOK
    <2>1. q # p
        OBVIOUS
    <2>2. /\ proc[q].cmd = "login" /\ proc[q].key \in Keys /\ identity # proc[q].key
          /\ \A c \in Credentials : credential[c].key # proc[q].key
          /\ \A o \in Procs \ {q} : proc[o].key # proc[q].key
        BY <1>1, <2>1 DEF KeyInv, GeneratorOK
    <2>3. proc'[q].cmd = proc[q].cmd /\ proc'[q].key = proc[q].key
        BY <1>1, <2>1
    <2>4. proc'[p].key # proc[q].key
        BY <2>1, <2>2, HostConfigAssumption
    <2>5. \A o \in Procs \ {q} : proc'[o].key # proc'[q].key
        BY <1>1, <2>2, <2>3, <2>4
    <2> QED
        BY <2>2, <2>3, <2>5
<1>3. PresentOK'
    <2>1. CASE identity # None
        BY <2>1 DEF PresentOK
    <2>2. CASE identity = None
        BY <1>1, <2>2 DEF PresentOK, KeyInv, Keyed, Generating
    <2> QED
        BY <2>1, <2>2
<1>4. KeyedOK'
    BY <1>1 DEF KeyedOK, KeyInv
<1>5. EnrolledOK'
    BY DEF EnrolledOK, KeyInv
<1>6. ForkOK'
    <2> SUFFICES ASSUME ~history.forked PROVE ForkOK'
        BY DEF ForkOK
    <2>1. /\ \A q \in Procs : Generating(proc[q]) =>
                identity \notin Keys /\ \A o \in Procs : Generating(proc[o]) => o = q
          /\ \A q \in Procs :
                ~Generating(proc[q]) /\ proc[q].key # None => proc[q].key = identity
          /\ \A c \in Credentials : credential[c].key # None => credential[c].key = identity
        BY DEF KeyInv, ForkOK
    <2>2. \A q \in Procs : Generating(proc'[q]) =>
             identity \notin Keys /\ \A o \in Procs : Generating(proc'[o]) => o = q
        BY <1>1, <2>1
    <2>3. \A q \in Procs :
             ~Generating(proc'[q]) /\ proc'[q].key # None => proc'[q].key = identity
        BY <1>1, <2>1
    <2> QED
        BY <2>1, <2>2, <2>3 DEF ForkOK
<1> QED
    BY <1>2, <1>3, <1>4, <1>5, <1>6 DEF KeyInv

\* A step that changes what is excused changes nothing else of the history.
LEMMA ExcusedOnly ==
    ASSUME TypeInv, NEW e, history' = [history EXCEPT !.excused = e]
    PROVE  /\ history'.forked = history.forked /\ history'.raced = history.raced
           /\ history'.excused = e
BY DEF TypeInv, TypeOK

\* Every step keeps the endpoint key and the credentials in order.
LEMMA KeyStep ==
    ASSUME TypeInv, KeyInv, [Next]_vars
    PROVE  KeyInv'
<1>1. ASSUME NEW p \in Procs, NEW n \in Names, HostStart(p, n)
      PROVE  KeyInv'
    <2>1. Begins(p, "host", "posting", n, file)
        BY <1>1, HostStartBegins
    <2>2. /\ identity' = identity /\ credential' = credential
          /\ history'.forked <=> history.forked
        BY <1>1 DEF HostStart, localVars, remoteVars
    <2>3. ~Generating(proc'[p])
        BY <1>1, <2>1 DEF HostStart, Begins, Generating, AfterIdentity
    <2>4. \/ proc'[p].key = None
          \/ proc'[p].key = proc[p].key /\ ~Generating(proc[p])
          \/ proc'[p].key = identity
        BY <1>1, <2>1, Items DEF HostStart, Begins, Generating, StepOK
    <2>5. identity # None
        BY <1>1, <2>1 DEF HostStart, KeyInv, PresentOK
    <2>6. Keyed(proc'[p]) \/ proc'[p].at \in {"proving", "registering", "serving"}
              => proc'[p].key \in Keys
        BY <1>1, <2>1, Items
            DEF HostStart, Begins, Keyed, StepOK, KeyInv, KeyedOK,
                AfterIdentity
    <2>7. Aside(p)
        BY <1>1, <2>1 DEF Begins
    <2> QED
        BY <1>1, <2>2, <2>3, <2>4, <2>5, <2>6, <2>7, KeyQuiet
<1>2. ASSUME NEW p \in Procs, NEW n \in Names, RemoveStart(p, n)
      PROVE  KeyInv'
    <2>1. Begins(p, "remove", "listing", n, file)
        BY <1>2, RemoveStartBegins
    <2>2. /\ identity' = identity /\ credential' = credential
          /\ history'.forked <=> history.forked
        BY <1>2 DEF RemoveStart, localVars, remoteVars
    <2>3. ~Generating(proc'[p])
        BY <1>2, <2>1 DEF RemoveStart, Begins, Generating, AfterIdentity
    <2>4. \/ proc'[p].key = None
          \/ proc'[p].key = proc[p].key /\ ~Generating(proc[p])
          \/ proc'[p].key = identity
        BY <1>2, <2>1, Items DEF RemoveStart, Begins, Generating, StepOK
    <2>5. identity # None
        BY <1>2, <2>1 DEF RemoveStart, KeyInv, PresentOK
    <2>6. Keyed(proc'[p]) \/ proc'[p].at \in {"proving", "registering", "serving"}
              => proc'[p].key \in Keys
        BY <1>2, <2>1, Items
            DEF RemoveStart, Begins, Keyed, StepOK, KeyInv, KeyedOK,
                AfterIdentity
    <2>7. Aside(p)
        BY <1>2, <2>1 DEF Begins
    <2> QED
        BY <1>2, <2>2, <2>3, <2>4, <2>5, <2>6, <2>7, KeyQuiet
<1>3. ASSUME NEW p \in Procs, NEW c \in Credentials, LoginStart(p, c)
      PROVE  KeyInv'
    <2>1. Begins(p, "login", "identity", LoginItem,
                        [Default EXCEPT !.cred = c, !.pinned = signingKey])
        BY <1>3, LoginStartBegins
    <2>2. /\ identity' = identity /\ credential' = credential
          /\ history'.forked <=> history.forked
        BY <1>3 DEF LoginStart, localVars, remoteVars
    <2>3. ~Generating(proc'[p])
        BY <1>3, <2>1 DEF LoginStart, Begins, Generating, AfterIdentity
    <2>4. \/ proc'[p].key = None
          \/ proc'[p].key = proc[p].key /\ ~Generating(proc[p])
          \/ proc'[p].key = identity
        BY <1>3, <2>1, Items DEF LoginStart, Begins, Generating, StepOK
    <2>5. \/ identity # None
          \/ /\ file'.cred = None
             /\ proc'[p].cmd # "daemon" /\ ~Keyed(proc'[p])
             /\ Unenrolled(proc'[p]) \/ proc'[p].copy.cred = None
        BY <1>3, <2>1
            DEF LoginStart, KeyInv, PresentOK, Begins, Keyed, Unenrolled,
                localVars
    <2>6. Keyed(proc'[p]) \/ proc'[p].at \in {"proving", "registering", "serving"}
              => proc'[p].key \in Keys
        BY <1>3, <2>1, Items
            DEF LoginStart, Begins, Keyed, StepOK, KeyInv, KeyedOK,
                AfterIdentity
    <2>7. Aside(p)
        BY <1>3, <2>1 DEF Begins
    <2> QED
        BY <1>3, <2>2, <2>3, <2>4, <2>5, <2>6, <2>7, KeyQuiet
<1>4. ASSUME NEW p \in Procs, DaemonStart(p)
      PROVE  KeyInv'
    <2>1. Begins(p, "daemon", "locking", None, file)
        BY <1>4, DaemonStartBegins
    <2>2. /\ identity' = identity /\ credential' = credential
          /\ history'.forked <=> history.forked
        BY <1>4 DEF DaemonStart, localVars, remoteVars
    <2>3. ~Generating(proc'[p])
        BY <1>4, <2>1 DEF DaemonStart, Begins, Generating, AfterIdentity
    <2>4. \/ proc'[p].key = None
          \/ proc'[p].key = proc[p].key /\ ~Generating(proc[p])
          \/ proc'[p].key = identity
        BY <1>4, <2>1, Items DEF DaemonStart, Begins, Generating, StepOK
    <2>5. identity # None
        BY <1>4, <2>1 DEF DaemonStart, KeyInv, PresentOK
    <2>6. Keyed(proc'[p]) \/ proc'[p].at \in {"proving", "registering", "serving"}
              => proc'[p].key \in Keys
        BY <1>4, <2>1, Items
            DEF DaemonStart, Begins, Keyed, StepOK, KeyInv, KeyedOK,
                AfterIdentity
    <2>7. Aside(p)
        BY <1>4, <2>1 DEF Begins
    <2> QED
        BY <1>4, <2>2, <2>3, <2>4, <2>5, <2>6, <2>7, KeyQuiet
<1>5. ASSUME NEW p \in Procs, ProbeStart(p)
      PROVE  KeyInv'
    <2>1. Begins(p, "probe", "probing", None, Default)
        BY <1>5, ProbeStartBegins
    <2>2. /\ identity' = identity /\ credential' = credential
          /\ history'.forked <=> history.forked
        BY <1>5 DEF ProbeStart, localVars, remoteVars
    <2>3. ~Generating(proc'[p])
        BY <1>5, <2>1 DEF ProbeStart, Begins, Generating, AfterIdentity
    <2>4. \/ proc'[p].key = None
          \/ proc'[p].key = proc[p].key /\ ~Generating(proc[p])
          \/ proc'[p].key = identity
        BY <1>5, <2>1, Items DEF ProbeStart, Begins, Generating, StepOK
    <2>5. \/ identity # None
          \/ /\ file'.cred = None
             /\ proc'[p].cmd # "daemon" /\ ~Keyed(proc'[p])
             /\ Unenrolled(proc'[p]) \/ proc'[p].copy.cred = None
        BY <1>5, <2>1, Defaults
            DEF ProbeStart, KeyInv, PresentOK, Begins, Keyed, Unenrolled
    <2>6. Keyed(proc'[p]) \/ proc'[p].at \in {"proving", "registering", "serving"}
              => proc'[p].key \in Keys
        BY <1>5, <2>1, Items
            DEF ProbeStart, Begins, Keyed, StepOK, KeyInv, KeyedOK,
                AfterIdentity
    <2>7. Aside(p)
        BY <1>5, <2>1 DEF Begins
    <2> QED
        BY <1>5, <2>2, <2>3, <2>4, <2>5, <2>6, <2>7, KeyQuiet
<1>6. ASSUME NEW p \in Procs, HostPost(p)
      PROVE  KeyInv'
    <2>1. \E i \in Ids : Moves(p, "loading", i, proc[p].key, proc[p].copy)
        BY <1>6, HostPostMoves
    <2>2. /\ identity' = identity /\ credential' = credential
          /\ history'.forked <=> history.forked
        BY <1>6 DEF HostPost, localVars, remoteVars
    <2>3. ~Generating(proc'[p])
        BY <1>6, <2>1 DEF HostPost, Moves, Generating, AfterIdentity
    <2>4. \/ proc'[p].key = None
          \/ proc'[p].key = proc[p].key /\ ~Generating(proc[p])
          \/ proc'[p].key = identity
        BY <1>6, <2>1, Items DEF HostPost, Moves, Generating, StepOK
    <2>5. \/ identity # None
          \/ /\ file'.cred = None
             /\ proc'[p].cmd # "daemon" /\ ~Keyed(proc'[p])
             /\ Unenrolled(proc'[p]) \/ proc'[p].copy.cred = None
        BY <1>6, <2>1, Items
            DEF HostPost, KeyInv, PresentOK, Moves, Keyed, Unenrolled,
                localVars, StepOK
    <2>6. Keyed(proc'[p]) \/ proc'[p].at \in {"proving", "registering", "serving"}
              => proc'[p].key \in Keys
        BY <1>6, <2>1, Items
            DEF HostPost, Moves, Keyed, StepOK, KeyInv, KeyedOK, AfterIdentity
    <2>7. Aside(p)
        BY <1>6, <2>1 DEF Moves
    <2> QED
        BY <1>6, <2>2, <2>3, <2>4, <2>5, <2>6, <2>7, KeyQuiet
<1>7. ASSUME NEW p \in Procs, HostLoad(p)
      PROVE  KeyInv'
    <2>1. Moves(p, "truncating", proc[p].id, proc[p].key, Mapped(file, proc[p].item, proc[p].id))
        BY <1>7, HostLoadMoves
    <2>a. Mapped(file, proc[p].item, proc[p].id).cred = file.cred
        <3>1. file \in Configs /\ proc[p].item \in Names /\ proc[p].id \in Ids \cup {None}
            BY <1>7, Fields, Items DEF HostLoad, TypeInv, TypeOK
        <3> QED
            BY <1>7, <3>1, MappedConfig
    <2>2. /\ identity' = identity /\ credential' = credential
          /\ history'.forked <=> history.forked
        BY <1>7 DEF HostLoad, localVars, remoteVars
    <2>3. ~Generating(proc'[p])
        BY <1>7, <2>1 DEF HostLoad, Moves, Generating, AfterIdentity
    <2>4. \/ proc'[p].key = None
          \/ proc'[p].key = proc[p].key /\ ~Generating(proc[p])
          \/ proc'[p].key = identity
        BY <1>7, <2>1, Items DEF HostLoad, Moves, Generating, StepOK
    <2>5. \/ identity # None
          \/ /\ file'.cred = None
             /\ proc'[p].cmd # "daemon" /\ ~Keyed(proc'[p])
             /\ Unenrolled(proc'[p]) \/ proc'[p].copy.cred = None
        BY <1>7, <2>1, <2>a, Items
            DEF HostLoad, KeyInv, PresentOK, Moves, Keyed, Unenrolled,
                localVars, StepOK
    <2>6. Keyed(proc'[p]) \/ proc'[p].at \in {"proving", "registering", "serving"}
              => proc'[p].key \in Keys
        BY <1>7, <2>1, Items
            DEF HostLoad, Moves, Keyed, StepOK, KeyInv, KeyedOK, AfterIdentity
    <2>7. Aside(p)
        BY <1>7, <2>1 DEF Moves
    <2> QED
        BY <1>7, <2>2, <2>3, <2>4, <2>5, <2>6, <2>7, KeyQuiet
<1>8. ASSUME NEW p \in Procs, RemoveList(p)
      PROVE  KeyInv'
    <2>1. Moves(p, "deleting", service[proc[p].item], proc[p].key, proc[p].copy)
        BY <1>8, RemoveListMoves
    <2>2. /\ identity' = identity /\ credential' = credential
          /\ history'.forked <=> history.forked
        BY <1>8 DEF RemoveList, localVars, remoteVars
    <2>3. ~Generating(proc'[p])
        BY <1>8, <2>1 DEF RemoveList, Moves, Generating, AfterIdentity
    <2>4. \/ proc'[p].key = None
          \/ proc'[p].key = proc[p].key /\ ~Generating(proc[p])
          \/ proc'[p].key = identity
        BY <1>8, <2>1, Items DEF RemoveList, Moves, Generating, StepOK
    <2>5. \/ identity # None
          \/ /\ file'.cred = None
             /\ proc'[p].cmd # "daemon" /\ ~Keyed(proc'[p])
             /\ Unenrolled(proc'[p]) \/ proc'[p].copy.cred = None
        BY <1>8, <2>1, Items
            DEF RemoveList, KeyInv, PresentOK, Moves, Keyed, Unenrolled,
                localVars, StepOK
    <2>6. Keyed(proc'[p]) \/ proc'[p].at \in {"proving", "registering", "serving"}
              => proc'[p].key \in Keys
        BY <1>8, <2>1, Items
            DEF RemoveList, Moves, Keyed, StepOK, KeyInv, KeyedOK,
                AfterIdentity
    <2>7. Aside(p)
        BY <1>8, <2>1 DEF Moves
    <2> QED
        BY <1>8, <2>2, <2>3, <2>4, <2>5, <2>6, <2>7, KeyQuiet
<1>9. ASSUME NEW p \in Procs, RemoveDelete(p)
      PROVE  KeyInv'
    <2>1. Moves(p, "truncating", proc[p].id, proc[p].key, Mapped(proc[p].copy, proc[p].item, None))
        BY <1>9, RemoveDeleteMoves
    <2>a. Mapped(proc[p].copy, proc[p].item, None).cred = proc[p].copy.cred
        <3>1. proc[p].copy \in Configs /\ proc[p].item \in Names /\ None \in Ids \cup {None}
            BY <1>9, Fields, Items DEF RemoveDelete, TypeInv, TypeOK
        <3> QED
            BY <1>9, <3>1, MappedConfig
    <2>2. /\ identity' = identity /\ credential' = credential
          /\ history'.forked <=> history.forked
        BY <1>9 DEF RemoveDelete, localVars, remoteVars
    <2>3. ~Generating(proc'[p])
        BY <1>9, <2>1 DEF RemoveDelete, Moves, Generating, AfterIdentity
    <2>4. \/ proc'[p].key = None
          \/ proc'[p].key = proc[p].key /\ ~Generating(proc[p])
          \/ proc'[p].key = identity
        BY <1>9, <2>1, Items DEF RemoveDelete, Moves, Generating, StepOK
    <2>5. \/ identity # None
          \/ /\ file'.cred = None
             /\ proc'[p].cmd # "daemon" /\ ~Keyed(proc'[p])
             /\ Unenrolled(proc'[p]) \/ proc'[p].copy.cred = None
        BY <1>9, <2>1, <2>a, Items
            DEF RemoveDelete, KeyInv, PresentOK, Moves, Keyed, Unenrolled,
                localVars, StepOK
    <2>6. Keyed(proc'[p]) \/ proc'[p].at \in {"proving", "registering", "serving"}
              => proc'[p].key \in Keys
        BY <1>9, <2>1, Items
            DEF RemoveDelete, Moves, Keyed, StepOK, KeyInv, KeyedOK,
                AfterIdentity
    <2>7. Aside(p)
        BY <1>9, <2>1 DEF Moves
    <2> QED
        BY <1>9, <2>2, <2>3, <2>4, <2>5, <2>6, <2>7, KeyQuiet
<1>10. ASSUME NEW p \in Procs, ReadIdentity(p)
      PROVE  KeyInv'
    <2>1. Moves(p, AfterIdentity(p), proc[p].id, identity, proc[p].copy)
        BY <1>10, ReadIdentityMoves
    <2>2. /\ identity' = identity /\ credential' = credential
          /\ history'.forked <=> history.forked
        BY <1>10 DEF ReadIdentity, localVars, remoteVars
    <2>3. ~Generating(proc'[p])
        BY <1>10, <2>1 DEF ReadIdentity, Moves, Generating, AfterIdentity
    <2>4. \/ proc'[p].key = None
          \/ proc'[p].key = proc[p].key /\ ~Generating(proc[p])
          \/ proc'[p].key = identity
        BY <1>10, <2>1, Items DEF ReadIdentity, Moves, Generating, StepOK
    <2>5. identity # None
        BY <1>10, HostConfigAssumption DEF ReadIdentity
    <2>6. Keyed(proc'[p]) \/ proc'[p].at \in {"proving", "registering", "serving"}
              => proc'[p].key \in Keys
        BY <1>10, <2>1, Items
            DEF ReadIdentity, Moves, Keyed, StepOK, KeyInv, KeyedOK,
                AfterIdentity
    <2>7. Aside(p)
        BY <1>10, <2>1 DEF Moves
    <2> QED
        BY <1>10, <2>2, <2>3, <2>4, <2>5, <2>6, <2>7, KeyQuiet
<1>11. ASSUME NEW p \in Procs, GenerateIdentity(p)
      PROVE  KeyInv'
    <2>1. PICK k \in FreshKeys : Moves(p, "generated", proc[p].id, k, proc[p].copy)
        BY <1>11, GenerateIdentityMoves
    <2>2. /\ k \in Keys
          /\ \A q \in Procs : proc[q].key # k
          /\ \A c \in Credentials : credential[c].key # k
        BY <1>11 DEF FreshKeys
    <2>3. /\ proc[p].at = "identity" /\ identity = None
          /\ identity' = identity /\ credential' = credential /\ file' = file
        BY <1>11 DEF GenerateIdentity, localVars, remoteVars
    <2>4. proc[p].cmd = "login"
        BY <1>11, <2>3, Items DEF StepOK, KeyInv, PresentOK
    <2>5. /\ proc'[p].cmd = "login" /\ proc'[p].at = "generated" /\ proc'[p].key = k
          /\ proc'[p].copy = proc[p].copy
          /\ \A q \in Procs \ {p} : proc'[q] = proc[q]
        BY <1>11, <2>1, <2>4 DEF Moves
    <2>6. GeneratorOK'
        <3>1. ASSUME NEW q \in Procs, q # p, Generating(proc[q])
              PROVE  /\ proc[q].cmd = "login" /\ proc[q].key \in Keys
                     /\ identity # proc[q].key
                     /\ \A c \in Credentials : credential[c].key # proc[q].key
                     /\ \A o \in Procs \ {q} : proc'[o].key # proc[q].key
            <4>1. /\ proc[q].cmd = "login" /\ proc[q].key \in Keys
                  /\ identity # proc[q].key
                  /\ \A c \in Credentials : credential[c].key # proc[q].key
                  /\ \A o \in Procs \ {q} : proc[o].key # proc[q].key
                BY <1>11, <3>1 DEF KeyInv, GeneratorOK
            <4> QED
                BY <1>11, <2>2, <2>5, <3>1, <4>1
        <3> QED
            BY <1>11, <2>2, <2>3, <2>5, <3>1, HostConfigAssumption
                DEF GeneratorOK
    <2>7. PresentOK'
        BY <1>11, <2>3, <2>5 DEF PresentOK, KeyInv, Keyed, Unenrolled
    <2>8. KeyedOK'
        BY <1>11, <2>5 DEF KeyedOK, KeyInv, Keyed
    <2>9. EnrolledOK'
        BY <1>11, <2>3 DEF EnrolledOK, KeyInv
    <2>10. ForkOK'
        <3> DEFINE b == history.forked \/
                       \E q \in Procs : proc[q].at \in {"generated", "keying"}
        <3>1. history' = [history EXCEPT !.forked = b]
            BY <1>11 DEF GenerateIdentity
        <3>2. b \in BOOLEAN
            BY <1>11 DEF TypeInv, TypeOK
        <3>3. b <=> history.forked \/ \E q \in Procs : Generating(proc[q])
            BY <1>11 DEF Generating
        <3> HIDE DEF b
        <3>4. history'.forked <=> b
            BY <1>11, <3>1, <3>2 DEF TypeInv, TypeOK
        <3> SUFFICES ASSUME ~b PROVE ForkOK'
            BY <1>11, <3>4 DEF ForkOK
        <3>5. ~history.forked /\ \A q \in Procs : ~Generating(proc[q])
            BY <1>11, <3>3
        <3>6. /\ \A q \in Procs : proc[q].key # None => proc[q].key = identity
              /\ \A c \in Credentials : credential[c].key # None => credential[c].key = identity
            BY <1>11, <3>5 DEF KeyInv, ForkOK
        <3>7. Generating(proc'[p]) /\ \A q \in Procs \ {p} : ~Generating(proc'[q])
            BY <1>11, <2>5, <3>5 DEF Generating
        <3> QED
            BY <1>11, <2>3, <2>5, <3>6, <3>7, HostConfigAssumption DEF ForkOK
    <2> QED
        BY <1>11, <2>6, <2>7, <2>8, <2>9, <2>10 DEF KeyInv
<1>12. ASSUME NEW p \in Procs, TruncateIdentity(p)
      PROVE  KeyInv'
    <2>1. Moves(p, "keying", proc[p].id, proc[p].key, proc[p].copy)
        BY <1>12, TruncateIdentityMoves
    <2>2. /\ proc[p].at = "generated" /\ identity' = "torn"
          /\ credential' = credential /\ file' = file /\ history' = history
        BY <1>12 DEF TruncateIdentity, remoteVars
    <2>3. /\ Generating(proc[p]) /\ proc[p].cmd = "login" /\ proc[p].key \in Keys
          /\ \A c \in Credentials : credential[c].key # proc[p].key
          /\ \A q \in Procs \ {p} : proc[q].key # proc[p].key
        BY <1>12, <2>2 DEF Generating, KeyInv, GeneratorOK
    <2>4. /\ proc'[p].cmd = "login" /\ proc'[p].at = "keying"
          /\ proc'[p].key = proc[p].key /\ proc'[p].copy = proc[p].copy
          /\ \A q \in Procs \ {p} : proc'[q] = proc[q]
        BY <1>12, <2>1, <2>3 DEF Moves
    <2>5. identity' # None
        BY <1>12, <2>2, <2>3, HostConfigAssumption
    <2>6. Generating(proc'[p])
        BY <1>12, <2>4 DEF Generating
    <2>7. GeneratorOK'
        <3>1. ASSUME NEW q \in Procs, Generating(proc[q])
              PROVE  /\ proc[q].cmd = "login" /\ proc[q].key \in Keys
                     /\ \A c \in Credentials : credential[c].key # proc[q].key
                     /\ \A o \in Procs \ {q} : proc[o].key # proc[q].key
            BY <1>12, <3>1 DEF KeyInv, GeneratorOK
        <3>2. \A q \in Procs : proc'[q].key = proc[q].key
            BY <1>12, <2>4
        <3>3. \A q \in Procs : Generating(proc'[q]) => Generating(proc[q])
            BY <1>12, <2>3, <2>4
        <3>4. ASSUME NEW q \in Procs, Generating(proc'[q])
              PROVE  proc'[q].cmd = "login" /\ identity' # proc[q].key
            <4>1. CASE q = p
                BY <1>12, <2>2, <2>4, <2>6, <3>4, <4>1, HostConfigAssumption,
                   <2>3
            <4>2. CASE q # p
                BY <1>12, <2>2, <2>3, <2>4, <3>1, <3>3, <3>4, <4>2,
                   HostConfigAssumption
            <4> QED
                BY <1>12, <4>1, <4>2
        <3> QED
            BY <1>12, <2>2, <3>1, <3>2, <3>3, <3>4 DEF GeneratorOK
    <2>8. PresentOK'
        BY <1>12, <2>5 DEF PresentOK
    <2>9. KeyedOK'
        BY <1>12, <2>3, <2>4 DEF KeyedOK, KeyInv, Keyed
    <2>10. EnrolledOK'
        BY <1>12, <2>2 DEF EnrolledOK, KeyInv
    <2>11. ForkOK'
        <3> SUFFICES ASSUME ~history.forked PROVE ForkOK'
            BY <1>12, <2>2 DEF ForkOK
        <3>1. /\ identity \notin Keys
              /\ \A q \in Procs : Generating(proc[q]) => q = p
              /\ \A q \in Procs :
                   ~Generating(proc[q]) /\ proc[q].key # None => proc[q].key = identity
              /\ \A c \in Credentials : credential[c].key # None => credential[c].key = identity
            BY <1>12, <2>3 DEF KeyInv, ForkOK
        <3>2. /\ \A q \in Procs \ {p} : proc[q].key = None
              /\ \A c \in Credentials : credential[c].key = None
            <4>1. \A q \in Procs : proc[q].key \in Keys \cup {None}
                BY <1>12, Fields
            <4>2. \A c \in Credentials : credential[c].key \in Keys \cup {None}
                BY <1>12 DEF TypeInv, TypeOK
            <4> QED
                BY <1>12, <3>1, <4>1, <4>2
        <3>3. \A q \in Procs \ {p} : ~Generating(proc'[q]) /\ proc'[q].key = None
            BY <1>12, <2>4, <3>1, <3>2
        <3> QED
            BY <1>12, <2>2, <2>4, <2>6, <3>2, <3>3, HostConfigAssumption
                DEF ForkOK
    <2> QED
        BY <1>12, <2>7, <2>8, <2>9, <2>10, <2>11 DEF KeyInv
<1>13. ASSUME NEW p \in Procs, WriteIdentity(p)
      PROVE  KeyInv'
    <2>1. Moves(p, AfterIdentity(p), proc[p].id, proc[p].key, proc[p].copy)
        BY <1>13, WriteIdentityMoves
    <2>2. /\ proc[p].at = "keying" /\ identity' = proc[p].key
          /\ credential' = credential /\ file' = file /\ history' = history
        BY <1>13 DEF WriteIdentity, remoteVars
    <2>3. /\ Generating(proc[p]) /\ proc[p].cmd = "login" /\ proc[p].key \in Keys
          /\ \A c \in Credentials : credential[c].key # proc[p].key
          /\ \A q \in Procs \ {p} : proc[q].key # proc[p].key
        BY <1>13, <2>2 DEF Generating, KeyInv, GeneratorOK
    <2>4. /\ proc'[p].cmd = "login" /\ proc'[p].at = "enrolling"
          /\ proc'[p].key = proc[p].key /\ proc'[p].copy = proc[p].copy
          /\ \A q \in Procs \ {p} : proc'[q] = proc[q]
        BY <1>13, <2>1, <2>3 DEF Moves, AfterIdentity
    <2>5. identity' # None
        BY <1>13, <2>2, <2>3, HostConfigAssumption
    <2>6. ~Generating(proc'[p])
        BY <1>13, <2>4 DEF Generating
    <2>7. GeneratorOK'
        <3>1. ASSUME NEW q \in Procs, Generating(proc[q])
              PROVE  /\ proc[q].cmd = "login" /\ proc[q].key \in Keys
                     /\ \A c \in Credentials : credential[c].key # proc[q].key
                     /\ \A o \in Procs \ {q} : proc[o].key # proc[q].key
            BY <1>13, <3>1 DEF KeyInv, GeneratorOK
        <3>2. \A q \in Procs : proc'[q].key = proc[q].key
            BY <1>13, <2>4
        <3>3. \A q \in Procs : Generating(proc'[q]) => Generating(proc[q])
            BY <1>13, <2>3, <2>4
        <3>4. ASSUME NEW q \in Procs, Generating(proc'[q])
              PROVE  proc'[q].cmd = "login" /\ identity' # proc[q].key
            <4>1. CASE q = p
                BY <1>13, <2>2, <2>4, <2>6, <3>4, <4>1, HostConfigAssumption,
                   <2>3
            <4>2. CASE q # p
                BY <1>13, <2>2, <2>3, <2>4, <3>1, <3>3, <3>4, <4>2,
                   HostConfigAssumption
            <4> QED
                BY <1>13, <4>1, <4>2
        <3> QED
            BY <1>13, <2>2, <3>1, <3>2, <3>3, <3>4 DEF GeneratorOK
    <2>8. PresentOK'
        BY <1>13, <2>5 DEF PresentOK
    <2>9. KeyedOK'
        BY <1>13, <2>3, <2>4 DEF KeyedOK, KeyInv, Keyed
    <2>10. EnrolledOK'
        BY <1>13, <2>2 DEF EnrolledOK, KeyInv
    <2>11. ForkOK'
        <3> SUFFICES ASSUME ~history.forked PROVE ForkOK'
            BY <1>13, <2>2 DEF ForkOK
        <3>1. /\ identity \notin Keys
              /\ \A q \in Procs : Generating(proc[q]) => q = p
              /\ \A q \in Procs :
                   ~Generating(proc[q]) /\ proc[q].key # None => proc[q].key = identity
              /\ \A c \in Credentials : credential[c].key # None => credential[c].key = identity
            BY <1>13, <2>3 DEF KeyInv, ForkOK
        <3>2. /\ \A q \in Procs \ {p} : proc[q].key = None
              /\ \A c \in Credentials : credential[c].key = None
            <4>1. \A q \in Procs : proc[q].key \in Keys \cup {None}
                BY <1>13, Fields
            <4>2. \A c \in Credentials : credential[c].key \in Keys \cup {None}
                BY <1>13 DEF TypeInv, TypeOK
            <4> QED
                BY <1>13, <3>1, <4>1, <4>2
        <3>3. \A q \in Procs \ {p} : ~Generating(proc'[q]) /\ proc'[q].key = None
            BY <1>13, <2>4, <3>1, <3>2
        <3> QED
            BY <1>13, <2>2, <2>4, <2>6, <3>2, <3>3, HostConfigAssumption
                DEF ForkOK
    <2> QED
        BY <1>13, <2>7, <2>8, <2>9, <2>10, <2>11 DEF KeyInv
<1>14. ASSUME NEW p \in Procs, LoginEnroll(p)
      PROVE  KeyInv'
    <2>1. Moves(p, "confirming", proc[p].id, proc[p].key, proc[p].copy)
        BY <1>14, LoginEnrollMoves
    <2> DEFINE c == proc[p].copy.cred
    <2>2. /\ proc[p].cmd = "login" /\ proc[p].at = "enrolling"
          /\ \A d \in Credentials :
               credential[d].status = "enrolled" => credential[d].key # proc[p].key
          /\ credential' = [credential EXCEPT ![c] =
                 [status |-> "enrolled", key |-> proc[p].key]]
          /\ identity' = identity /\ file' = file /\ history' = history
        BY <1>14 DEF LoginEnroll, localVars
    <2>3. c \in Credentials
        BY <1>14, <2>2, Items DEF StepOK
    <2>4. Keyed(proc[p]) /\ proc[p].key \in Keys /\ ~Generating(proc[p]) /\ identity # None
        BY <1>14, <2>2 DEF Keyed, KeyInv, KeyedOK, Generating, PresentOK
    <2>5. /\ proc'[p].cmd = "login" /\ proc'[p].at = "confirming"
          /\ proc'[p].key = proc[p].key /\ proc'[p].copy = proc[p].copy
          /\ \A q \in Procs \ {p} : proc'[q] = proc[q]
        BY <1>14, <2>1, <2>2 DEF Moves
    <2>13. /\ \A d \in Credentials :
                credential[d].status = "enrolled" => credential[d].key # proc[p].key
           /\ identity' = identity /\ history' = history
        BY <1>14, <2>2
    <2> HIDE DEF c
    <2>6. /\ credential'[c].status = "enrolled" /\ credential'[c].key = proc[p].key
          /\ \A d \in Credentials \ {c} : credential'[d] = credential[d]
        BY <1>14, <2>2, <2>3 DEF TypeInv, TypeOK
    <2>7. \A q \in Procs :
              /\ proc'[q].key = proc[q].key
              /\ Generating(proc'[q]) <=> Generating(proc[q])
              /\ proc'[q].cmd = proc[q].cmd
        BY <1>14, <2>2, <2>5 DEF Generating
    <2>8. GeneratorOK'
        <3>1. \A q \in Procs : Generating(proc[q]) => proc[p].key # proc[q].key
            BY <1>14, <2>4 DEF KeyInv, GeneratorOK
        <3>2. \A q \in Procs : Generating(proc[q]) =>
                  \A d \in Credentials : credential'[d].key # proc[q].key
            BY <1>14, <2>6, <3>1 DEF KeyInv, GeneratorOK
        <3>3. \A q \in Procs : Generating(proc[q]) =>
                  /\ proc[q].cmd = "login" /\ proc[q].key \in Keys /\ identity # proc[q].key
                  /\ \A o \in Procs \ {q} : proc[o].key # proc[q].key
            BY <1>14 DEF KeyInv, GeneratorOK
        <3>4. ASSUME NEW q \in Procs, Generating(proc'[q])
              PROVE  /\ proc'[q].cmd = "login" /\ proc'[q].key \in Keys
                     /\ identity' # proc'[q].key
                     /\ \A d \in Credentials : credential'[d].key # proc'[q].key
                     /\ \A o \in Procs \ {q} : proc'[o].key # proc'[q].key
            <4>1. Generating(proc[q]) /\ proc'[q].key = proc[q].key /\ proc'[q].cmd = proc[q].cmd
                BY <1>14, <2>7, <3>4
            <4>2. \A o \in Procs \ {q} : proc'[o].key # proc'[q].key
                BY <1>14, <2>7, <3>3, <4>1
            <4> QED
                BY <1>14, <2>13, <3>2, <3>3, <4>1, <4>2
        <3> QED
            BY <1>14, <3>4 DEF GeneratorOK
    <2>9. PresentOK'
        BY <1>14, <2>2, <2>4 DEF PresentOK
    <2>10. KeyedOK'
        BY <1>14, <2>4, <2>5 DEF KeyedOK, KeyInv, Keyed
    <2>11. EnrolledOK'
        <3>1. \A d \in Credentials : credential'[d].status = "enrolled" =>
                  \/ d = c
                  \/ credential[d].status = "enrolled" /\ credential[d].key # proc[p].key
            BY <1>14, <2>13, <2>6
        <3> QED
            BY <1>14, <2>4, <2>6, <3>1 DEF EnrolledOK, KeyInv
    <2>12. ForkOK'
        <3> SUFFICES ASSUME ~history.forked PROVE ForkOK'
            BY <1>14, <2>2 DEF ForkOK
        <3>1. proc[p].key = identity
            BY <1>14, <2>4, HostConfigAssumption DEF KeyInv, ForkOK
        <3>2. \A d \in Credentials : credential'[d].key # None => credential'[d].key = identity
            BY <1>14, <2>6, <3>1 DEF KeyInv, ForkOK
        <3>3. /\ \A q \in Procs : Generating(proc[q]) =>
                   identity \notin Keys /\ \A o \in Procs : Generating(proc[o]) => o = q
              /\ \A q \in Procs :
                   ~Generating(proc[q]) /\ proc[q].key # None => proc[q].key = identity
            BY <1>14 DEF KeyInv, ForkOK
        <3>4. \A q \in Procs : Generating(proc'[q]) =>
                 identity \notin Keys /\ \A o \in Procs : Generating(proc'[o]) => o = q
            BY <1>14, <2>7, <3>3
        <3>5. \A q \in Procs :
                 ~Generating(proc'[q]) /\ proc'[q].key # None => proc'[q].key = identity
            BY <1>14, <2>7, <3>3
        <3> QED
            BY <1>14, <2>13, <3>2, <3>4, <3>5 DEF ForkOK
    <2> QED
        BY <1>14, <2>8, <2>9, <2>10, <2>11, <2>12 DEF KeyInv
<1>15. ASSUME NEW p \in Procs, LoginConfirm(p)
      PROVE  KeyInv'
    <2>1. Moves(p, "truncating", proc[p].id, proc[p].key, [file EXCEPT !.cred = proc[p].copy.cred,
                                  !.pinned = proc[p].copy.pinned])
        BY <1>15, LoginConfirmMoves
    <2>2. /\ identity' = identity /\ credential' = credential
          /\ history'.forked <=> history.forked
        BY <1>15 DEF LoginConfirm, localVars, remoteVars
    <2>3. ~Generating(proc'[p])
        BY <1>15, <2>1 DEF LoginConfirm, Moves, Generating, AfterIdentity
    <2>4. \/ proc'[p].key = None
          \/ proc'[p].key = proc[p].key /\ ~Generating(proc[p])
          \/ proc'[p].key = identity
        BY <1>15, <2>1, Items DEF LoginConfirm, Moves, Generating, StepOK
    <2>5. identity # None
        BY <1>15 DEF LoginConfirm, KeyInv, PresentOK, Keyed
    <2>6. Keyed(proc'[p]) \/ proc'[p].at \in {"proving", "registering", "serving"}
              => proc'[p].key \in Keys
        BY <1>15, <2>1, Items
            DEF LoginConfirm, Moves, Keyed, StepOK, KeyInv, KeyedOK,
                AfterIdentity
    <2>7. Aside(p)
        BY <1>15, <2>1 DEF Moves
    <2> QED
        BY <1>15, <2>2, <2>3, <2>4, <2>5, <2>6, <2>7, KeyQuiet
<1>16. ASSUME NEW p \in Procs, DaemonLock(p)
      PROVE  KeyInv'
    <2>1. Moves(p, "identity", proc[p].id, proc[p].key, proc[p].copy)
        BY <1>16, DaemonLockMoves
    <2>2. /\ identity' = identity /\ credential' = credential
          /\ history'.forked <=> history.forked
        BY <1>16 DEF DaemonLock, localVars, remoteVars
    <2>3. ~Generating(proc'[p])
        BY <1>16, <2>1 DEF DaemonLock, Moves, Generating, AfterIdentity
    <2>4. \/ proc'[p].key = None
          \/ proc'[p].key = proc[p].key /\ ~Generating(proc[p])
          \/ proc'[p].key = identity
        BY <1>16, <2>1, Items DEF DaemonLock, Moves, Generating, StepOK
    <2>5. \/ identity # None
          \/ /\ file'.cred = None
             /\ proc'[p].cmd # "daemon" /\ ~Keyed(proc'[p])
             /\ Unenrolled(proc'[p]) \/ proc'[p].copy.cred = None
        BY <1>16, <2>1, Items
            DEF DaemonLock, KeyInv, PresentOK, Moves, Keyed, Unenrolled,
                localVars, StepOK
    <2>6. Keyed(proc'[p]) \/ proc'[p].at \in {"proving", "registering", "serving"}
              => proc'[p].key \in Keys
        BY <1>16, <2>1, Items
            DEF DaemonLock, Moves, Keyed, StepOK, KeyInv, KeyedOK,
                AfterIdentity
    <2>7. Aside(p)
        BY <1>16, <2>1 DEF Moves
    <2> QED
        BY <1>16, <2>2, <2>3, <2>4, <2>5, <2>6, <2>7, KeyQuiet
<1>17. ASSUME NEW p \in Procs, DaemonProve(p)
      PROVE  KeyInv'
    <2>1. Moves(p, "registering", proc[p].id, proc[p].key, proc[p].copy)
        BY <1>17, DaemonProveMoves
    <2>2. /\ identity' = identity /\ credential' = credential
          /\ history'.forked <=> history.forked
        BY <1>17 DEF DaemonProve, localVars, remoteVars
    <2>3. ~Generating(proc'[p])
        BY <1>17, <2>1 DEF DaemonProve, Moves, Generating, AfterIdentity
    <2>4. \/ proc'[p].key = None
          \/ proc'[p].key = proc[p].key /\ ~Generating(proc[p])
          \/ proc'[p].key = identity
        BY <1>17, <2>1, Items DEF DaemonProve, Moves, Generating, StepOK
    <2>5. \/ identity # None
          \/ /\ file'.cred = None
             /\ proc'[p].cmd # "daemon" /\ ~Keyed(proc'[p])
             /\ Unenrolled(proc'[p]) \/ proc'[p].copy.cred = None
        BY <1>17, <2>1, Items
            DEF DaemonProve, KeyInv, PresentOK, Moves, Keyed, Unenrolled,
                localVars, StepOK
    <2>6. Keyed(proc'[p]) \/ proc'[p].at \in {"proving", "registering", "serving"}
              => proc'[p].key \in Keys
        BY <1>17, <2>1, Items
            DEF DaemonProve, Moves, Keyed, StepOK, KeyInv, KeyedOK,
                AfterIdentity
    <2>7. Aside(p)
        BY <1>17, <2>1 DEF Moves
    <2> QED
        BY <1>17, <2>2, <2>3, <2>4, <2>5, <2>6, <2>7, KeyQuiet
<1>18. ASSUME NEW p \in Procs, DaemonRegister(p)
      PROVE  KeyInv'
    <2>1. Moves(p, "serving", proc[p].id, proc[p].key, proc[p].copy)
        BY <1>18, DaemonRegisterMoves
    <2>2. /\ identity' = identity /\ credential' = credential
          /\ history'.forked <=> history.forked
        BY <1>18 DEF DaemonRegister, localVars, remoteVars
    <2>3. ~Generating(proc'[p])
        BY <1>18, <2>1 DEF DaemonRegister, Moves, Generating, AfterIdentity
    <2>4. \/ proc'[p].key = None
          \/ proc'[p].key = proc[p].key /\ ~Generating(proc[p])
          \/ proc'[p].key = identity
        BY <1>18, <2>1, Items DEF DaemonRegister, Moves, Generating, StepOK
    <2>5. \/ identity # None
          \/ /\ file'.cred = None
             /\ proc'[p].cmd # "daemon" /\ ~Keyed(proc'[p])
             /\ Unenrolled(proc'[p]) \/ proc'[p].copy.cred = None
        BY <1>18, <2>1, Items
            DEF DaemonRegister, KeyInv, PresentOK, Moves, Keyed, Unenrolled,
                localVars, StepOK
    <2>6. Keyed(proc'[p]) \/ proc'[p].at \in {"proving", "registering", "serving"}
              => proc'[p].key \in Keys
        BY <1>18, <2>1, Items
            DEF DaemonRegister, Moves, Keyed, StepOK, KeyInv, KeyedOK,
                AfterIdentity
    <2>7. Aside(p)
        BY <1>18, <2>1 DEF Moves
    <2> QED
        BY <1>18, <2>2, <2>3, <2>4, <2>5, <2>6, <2>7, KeyQuiet
<1>19. ASSUME NEW p \in Procs, Reload(p)
      PROVE  KeyInv'
    <2>1. Moves(p, "serving", proc[p].id, proc[p].key, [proc[p].copy EXCEPT !.services = file.services])
        BY <1>19, ReloadMoves
    <2>2. /\ identity' = identity /\ credential' = credential
          /\ history'.forked <=> history.forked
        BY <1>19 DEF Reload, localVars, remoteVars
    <2>3. ~Generating(proc'[p])
        BY <1>19, <2>1 DEF Reload, Moves, Generating, AfterIdentity
    <2>4. \/ proc'[p].key = None
          \/ proc'[p].key = proc[p].key /\ ~Generating(proc[p])
          \/ proc'[p].key = identity
        BY <1>19, <2>1, Items DEF Reload, Moves, Generating, StepOK
    <2>5. \/ identity # None
          \/ /\ file'.cred = None
             /\ proc'[p].cmd # "daemon" /\ ~Keyed(proc'[p])
             /\ Unenrolled(proc'[p]) \/ proc'[p].copy.cred = None
        BY <1>19, <2>1, Items
            DEF Reload, KeyInv, PresentOK, Moves, Keyed, Unenrolled,
                localVars, StepOK
    <2>6. Keyed(proc'[p]) \/ proc'[p].at \in {"proving", "registering", "serving"}
              => proc'[p].key \in Keys
        BY <1>19, <2>1, Items
            DEF Reload, Moves, Keyed, StepOK, KeyInv, KeyedOK, AfterIdentity
    <2>7. Aside(p)
        BY <1>19, <2>1 DEF Moves
    <2> QED
        BY <1>19, <2>2, <2>3, <2>4, <2>5, <2>6, <2>7, KeyQuiet
<1>20. ASSUME NEW p \in Procs, Truncate(p)
      PROVE  KeyInv'
    <2>1. Moves(p, "writing", proc[p].id, proc[p].key, proc[p].copy)
        BY <1>20, TruncateMoves
    <2>2. /\ identity' = identity /\ credential' = credential
          /\ history'.forked <=> history.forked
        BY <1>20 DEF Truncate, localVars, remoteVars
    <2>3. ~Generating(proc'[p])
        BY <1>20, <2>1 DEF Truncate, Moves, Generating, AfterIdentity
    <2>4. \/ proc'[p].key = None
          \/ proc'[p].key = proc[p].key /\ ~Generating(proc[p])
          \/ proc'[p].key = identity
        BY <1>20, <2>1, Items DEF Truncate, Moves, Generating, StepOK
    <2>5. \/ identity # None
          \/ /\ file'.cred = None
             /\ proc'[p].cmd # "daemon" /\ ~Keyed(proc'[p])
             /\ Unenrolled(proc'[p]) \/ proc'[p].copy.cred = None
        BY <1>20, <2>1, Defaults, Items
            DEF Truncate, KeyInv, PresentOK, Moves, Keyed, Unenrolled, StepOK
    <2>6. Keyed(proc'[p]) \/ proc'[p].at \in {"proving", "registering", "serving"}
              => proc'[p].key \in Keys
        BY <1>20, <2>1, Items
            DEF Truncate, Moves, Keyed, StepOK, KeyInv, KeyedOK, AfterIdentity
    <2>7. Aside(p)
        BY <1>20, <2>1 DEF Moves
    <2> QED
        BY <1>20, <2>2, <2>3, <2>4, <2>5, <2>6, <2>7, KeyQuiet
<1>21. ASSUME NEW p \in Procs, Write(p)
      PROVE  KeyInv'
    <2>1. Ends(p)
        BY <1>21, WriteEnds
    <2>2. /\ identity' = identity /\ credential' = credential
          /\ history'.forked <=> history.forked
        <3>1. PICK e : history' = [history EXCEPT !.excused = e]
            BY <1>21 DEF Write
        <3> QED
            BY <1>21, <3>1, ExcusedOnly DEF Write, remoteVars
    <2>3. ~Generating(proc'[p])
        BY <1>21, <2>1, Defaults DEF Write, Ends, Generating, AfterIdentity
    <2>4. \/ proc'[p].key = None
          \/ proc'[p].key = proc[p].key /\ ~Generating(proc[p])
          \/ proc'[p].key = identity
        BY <1>21, <2>1, Items, Defaults DEF Write, Ends, Generating, StepOK
    <2>5. \/ identity # None
          \/ /\ file'.cred = None
             /\ proc'[p].cmd # "daemon" /\ ~Keyed(proc'[p])
             /\ Unenrolled(proc'[p]) \/ proc'[p].copy.cred = None
        BY <1>21, <2>1, Defaults, Items
            DEF Write, KeyInv, PresentOK, Ends, Keyed, Unenrolled, StepOK
    <2>6. Keyed(proc'[p]) \/ proc'[p].at \in {"proving", "registering", "serving"}
              => proc'[p].key \in Keys
        BY <1>21, <2>1, Items, Defaults
            DEF Write, Ends, Keyed, StepOK, KeyInv, KeyedOK, AfterIdentity
    <2>7. Aside(p)
        BY <1>21, <2>1 DEF Ends
    <2> QED
        BY <1>21, <2>2, <2>3, <2>4, <2>5, <2>6, <2>7, KeyQuiet
<1>22. ASSUME NEW p \in Procs, Stop(p)
      PROVE  KeyInv'
    <2>1. Ends(p)
        BY <1>22, StopEnds
    <2>2. /\ identity' = identity /\ credential' = credential
          /\ history'.forked <=> history.forked
        <3>1. \/ history' = history
              \/ history' = [history EXCEPT !.excused = history.excused \cup {proc[p].item}]
            BY <1>22 DEF Stop
        <3> QED
            BY <1>22, <3>1, ExcusedOnly DEF Stop, remoteVars
    <2>3. ~Generating(proc'[p])
        BY <1>22, <2>1, Defaults DEF Stop, Ends, Generating, AfterIdentity
    <2>4. \/ proc'[p].key = None
          \/ proc'[p].key = proc[p].key /\ ~Generating(proc[p])
          \/ proc'[p].key = identity
        BY <1>22, <2>1, Items, Defaults DEF Stop, Ends, Generating, StepOK
    <2>5. \/ identity # None
          \/ /\ file'.cred = None
             /\ proc'[p].cmd # "daemon" /\ ~Keyed(proc'[p])
             /\ Unenrolled(proc'[p]) \/ proc'[p].copy.cred = None
        BY <1>22, <2>1, Defaults
            DEF Stop, KeyInv, PresentOK, Ends, Keyed, Unenrolled
    <2>6. Keyed(proc'[p]) \/ proc'[p].at \in {"proving", "registering", "serving"}
              => proc'[p].key \in Keys
        BY <1>22, <2>1, Items, Defaults
            DEF Stop, Ends, Keyed, StepOK, KeyInv, KeyedOK, AfterIdentity
    <2>7. Aside(p)
        BY <1>22, <2>1 DEF Ends
    <2> QED
        BY <1>22, <2>2, <2>3, <2>4, <2>5, <2>6, <2>7, KeyQuiet
<1>23. ASSUME NEW c \in Credentials, CreateTicket(c)
      PROVE  KeyInv'
    <2>1. /\ credential' = [credential EXCEPT ![c].status = "ticket"]
          /\ identity' = identity /\ file' = file /\ proc' = proc
        BY <1>23 DEF CreateTicket, Elsewhere, localVars
    <2>2. history'.forked <=> history.forked
        BY <1>23 DEF CreateTicket
    <2>3. \A d \in Credentials :
              /\ credential'[d].key = credential[d].key
              /\ credential'[d].status = "enrolled" => credential[d].status = "enrolled"
        <3>1. credential' = [credential EXCEPT ![c] =
                  [credential[c] EXCEPT !.status = "ticket"]]
            BY <1>23, <2>1
        <3> QED
            BY <1>23, <3>1 DEF TypeInv, TypeOK
    <2>4. GeneratorOK' /\ PresentOK' /\ KeyedOK'
        BY <1>23, <2>1, <2>3 DEF KeyInv, GeneratorOK, PresentOK, KeyedOK
    <2>5. EnrolledOK'
        BY <1>23, <2>3 DEF KeyInv, EnrolledOK
    <2>6. ForkOK'
        BY <1>23, <2>1, <2>2, <2>3 DEF KeyInv, ForkOK
    <2> QED
        BY <1>23, <2>4, <2>5, <2>6 DEF KeyInv
<1>24. ASSUME NEW c \in Credentials, Revoke(c)
      PROVE  KeyInv'
    <2>1. /\ credential' = [credential EXCEPT ![c].status = "revoked"]
          /\ identity' = identity /\ file' = file /\ proc' = proc
        BY <1>24 DEF Revoke, Elsewhere, localVars
    <2>2. history'.forked <=> history.forked
        <3>1. PICK b : history' = [history EXCEPT !.raced = b]
            BY <1>24 DEF Revoke
        <3> QED
            BY <1>24, <3>1 DEF TypeInv, TypeOK
    <2>3. \A d \in Credentials :
              /\ credential'[d].key = credential[d].key
              /\ credential'[d].status = "enrolled" => credential[d].status = "enrolled"
        <3>1. credential' = [credential EXCEPT ![c] =
                  [credential[c] EXCEPT !.status = "revoked"]]
            BY <1>24, <2>1
        <3> QED
            BY <1>24, <3>1 DEF TypeInv, TypeOK
    <2>4. GeneratorOK' /\ PresentOK' /\ KeyedOK'
        BY <1>24, <2>1, <2>3 DEF KeyInv, GeneratorOK, PresentOK, KeyedOK
    <2>5. EnrolledOK'
        BY <1>24, <2>3 DEF KeyInv, EnrolledOK
    <2>6. ForkOK'
        BY <1>24, <2>1, <2>2, <2>3 DEF KeyInv, ForkOK
    <2> QED
        BY <1>24, <2>4, <2>5, <2>6 DEF KeyInv
<1>25. ASSUME NEW n \in Names, DeleteElsewhere(n)
      PROVE  KeyInv'
    <2>1. /\ credential' = credential /\ identity' = identity /\ file' = file
          /\ history' = [history EXCEPT !.excused = history.excused \cup {n}]
        BY <1>25 DEF DeleteElsewhere, Elsewhere, localVars
    <2>2. history'.forked <=> history.forked
        BY <1>25, <2>1, ExcusedOnly
    <2>3. \A q \in Procs :
              /\ proc'[q].cmd = proc[q].cmd /\ proc'[q].at = proc[q].at
              /\ proc'[q].key = proc[q].key /\ proc'[q].copy = proc[q].copy
              /\ Generating(proc'[q]) <=> Generating(proc[q])
              /\ Keyed(proc'[q]) <=> Keyed(proc[q])
              /\ Unenrolled(proc'[q]) <=> Unenrolled(proc[q])
        BY <1>25, DeleteDisturbs DEF Generating, Keyed, Unenrolled
    <2>4. GeneratorOK'
        BY <1>25, <2>1, <2>3 DEF KeyInv, GeneratorOK
    <2>5. PresentOK' /\ KeyedOK' /\ EnrolledOK'
        BY <1>25, <2>1, <2>3 DEF KeyInv, PresentOK, KeyedOK, EnrolledOK
    <2>6. ForkOK'
        BY <1>25, <2>1, <2>2, <2>3 DEF KeyInv, ForkOK
    <2> QED
        BY <1>25, <2>4, <2>5, <2>6 DEF KeyInv
<1>26. ASSUME RegisterElsewhere
      PROVE  KeyInv'
    <2>1. /\ credential' = credential /\ identity' = identity /\ file' = file
          /\ proc' = proc /\ history' = history
        BY <1>26 DEF RegisterElsewhere, Elsewhere, localVars
    <2> QED
        BY <1>26, <2>1
            DEF KeyInv, GeneratorOK, PresentOK, KeyedOK, EnrolledOK, ForkOK
<1>27. ASSUME NEW k \in SigningKeys, RotateSigningKey(k)
      PROVE  KeyInv'
    <2>1. /\ credential' = credential /\ identity' = identity /\ file' = file
          /\ proc' = proc /\ history' = history
        BY <1>27 DEF RotateSigningKey, Elsewhere, localVars
    <2> QED
        BY <1>27, <2>1
            DEF KeyInv, GeneratorOK, PresentOK, KeyedOK, EnrolledOK, ForkOK
<1>28. CASE UNCHANGED vars
    BY <1>28
        DEF KeyInv, GeneratorOK, PresentOK, KeyedOK, EnrolledOK, ForkOK,
            Keyed, Unenrolled, Generating, vars, remoteVars, localVars
<1> QED
    BY <1>1, <1>2, <1>3, <1>4, <1>5, <1>6, <1>7, <1>8, <1>9, <1>10, <1>11,
       <1>12, <1>13, <1>14, <1>15, <1>16, <1>17, <1>18, <1>19, <1>20, <1>21,
       <1>22, <1>23, <1>24, <1>25, <1>26, <1>27, <1>28
    DEF Next, Process, Outside, Identity

LEMMA KeyInit == Init => KeyInv
<1> SUFFICES ASSUME Init PROVE KeyInv
    OBVIOUS
<1> DEFINE k == Any(Keys)
           c == Any(Credentials)
<1>1. k \in Keys /\ c \in Credentials /\ k # None
    BY HostConfigAssumption DEF Any
<1>2. /\ proc = [p \in Procs |-> Idle]
      /\ history = [excused |-> {}, raced |-> FALSE, forked |-> FALSE]
    BY DEF Init
<1>3. \/ /\ credential = [d \in Credentials |-> [status |-> "unused", key |-> None]]
         /\ file = Default
         /\ identity = None
      \/ /\ credential = [d \in Credentials |->
                IF d = c THEN [status |-> "enrolled", key |-> k]
                ELSE [status |-> "unused", key |-> None]]
         /\ identity = k
    BY DEF Init
<1> HIDE DEF k, c
<1>4. \A p \in Procs : /\ proc[p].cmd = "none" /\ proc[p].at = "idle"
                       /\ proc[p].key = None /\ proc[p].copy.cred = None
    BY <1>2, Defaults
<1>5. GeneratorOK /\ KeyedOK
    BY <1>4 DEF GeneratorOK, KeyedOK, Generating, Keyed
<1>6. PresentOK
    BY <1>1, <1>3, <1>4, Defaults DEF PresentOK, Keyed
<1>7. EnrolledOK
    BY <1>1, <1>3 DEF EnrolledOK
<1>8. \A d \in Credentials : credential[d].key # None => credential[d].key = identity
    BY <1>1, <1>3
<1>9. ForkOK
    BY <1>4, <1>8 DEF ForkOK, Generating
<1> QED
    BY <1>5, <1>6, <1>7, <1>9 DEF KeyInv

\* The secret in config.json was issued to the endpoint key on this disk unless
\* two logins made that key at once: load_or_create_identity never replaces a
\* key that is there, and the control plane issues a secret only to the key the
\* login has read or written.
THEOREM SecretsFit == Spec => []SecretFitsIdentity
<1>1. Init => TypeInv /\ KeyInv
    BY TypeInit, KeyInit
<1>2. TypeInv /\ KeyInv /\ [Next]_vars => (TypeInv /\ KeyInv)'
    BY TypeStep, KeyStep
<1>3. TypeInv /\ KeyInv => SecretFitsIdentity
    <2> SUFFICES ASSUME TypeInv, KeyInv, file.cred # None, Enrolled(file.cred),
                        ~history.forked
                 PROVE  credential[file.cred].key = identity
        BY DEF SecretFitsIdentity
    <2>1. file.cred \in Credentials /\ credential[file.cred].status = "enrolled"
        BY DEF TypeInv, TypeOK, Configs, Enrolled
    <2>2. credential[file.cred].key # None
        BY <2>1, HostConfigAssumption DEF KeyInv, EnrolledOK
    <2> QED
        BY <2>1, <2>2 DEF KeyInv, ForkOK
<1> QED
    BY <1>1, <1>2, <1>3, PTL DEF Spec

-----------------------------------------------------------------------------
(* The config and the control plane.                                       *)

Subjects == Names \cup {LoginItem}

\* What a config says of an item is what the control plane says of it.
Agrees(i, a) ==
    IF i = LoginItem
    THEN \A c \in Credentials :
           credential[c].status = "enrolled" /\ credential[c].key = identity
               => a.cred = c
    ELSE a.services[i] = service[i]

\* Two commands on one item know of each other.
RivalOK ==
    \A p, q \in Procs :
        p # q /\ proc[p].item # None /\ proc[p].item = proc[q].item => proc[p].rival

\* A command that has its item to itself has the remote half of it right.
OwnOK(p) ==
    ~proc[p].rival =>
        /\ proc[p].at \in {"loading", "deleting"} =>
             service[proc[p].item] = proc[p].id
        /\ /\ proc[p].cmd \in {"host", "remove"}
           /\ proc[p].at \in {"truncating", "writing"}
           => proc[p].copy.services[proc[p].item] = service[proc[p].item]
        /\ Keyed(proc[p]) => identity = proc[p].key
        /\ Keyed(proc[p]) /\ proc[p].at # "enrolling" =>
             \A c \in Credentials :
                 credential[c].status = "enrolled" /\ credential[c].key = proc[p].key
                     => c = proc[p].copy.cred

OwnInv == \A p \in Procs : OwnOK(p)

\* No command on the item is between its halves, and none was cut there.
Settled(i) ==
    /\ i \notin history.excused
    /\ \A p \in Procs : proc[p].item = i => ~Halfway(p)

\* A settled item is right in the file, and in every copy that will be saved
\* and is not older than the last save of the item.
RestInv ==
    \A i \in Subjects : Settled(i) =>
        /\ file.whole => Agrees(i, file)
        /\ \A q \in Procs :
             Saving(proc[q]) /\ i \notin proc[q].touched => Agrees(i, proc[q].copy)

MatchInv == RivalOK /\ OwnInv /\ RestInv

LEMMA RivalKept ==
    ASSUME TypeInv, RivalOK, NEW p \in Procs, Aside(p),
           \/ proc'[p].item = None
           \/ proc'[p].item = proc[p].item /\ (proc[p].rival => proc'[p].rival)
    PROVE  RivalOK'
<1>1. \A q \in Procs \ {p} :
        proc'[q].item = proc[q].item /\ (proc[q].rival => proc'[q].rival)
    BY DEF Aside
<1> SUFFICES ASSUME NEW q \in Procs, NEW o \in Procs, q # o,
                    proc'[q].item # None, proc'[q].item = proc'[o].item
             PROVE  proc'[q].rival
    BY DEF RivalOK
<1>2. proc[q].item = proc'[q].item /\ proc[o].item = proc'[o].item
    BY <1>1
<1>3. proc[q].rival
    BY <1>2 DEF RivalOK
<1> QED
    BY <1>1, <1>3

LEMMA RivalBegun ==
    ASSUME TypeInv, RivalOK, NEW p \in Procs, NEW cmd, NEW at, NEW item, NEW copy,
           Begins(p, cmd, at, item, copy)
    PROVE  RivalOK'
<1>1. \A q \in Procs \ {p} :
        /\ proc'[q].item = proc[q].item /\ (proc[q].rival => proc'[q].rival)
        /\ proc'[p].item # None /\ proc[q].item = proc'[p].item =>
              proc'[q].rival /\ proc'[p].rival
    BY DEF Begins, Aside
<1> SUFFICES ASSUME NEW q \in Procs, NEW o \in Procs, q # o,
                    proc'[q].item # None, proc'[q].item = proc'[o].item
             PROVE  proc'[q].rival
    BY DEF RivalOK
<1>2. CASE q = p \/ o = p
    BY <1>1, <1>2
<1>3. CASE q # p /\ o # p
    BY <1>1, <1>3 DEF RivalOK
<1> QED
    BY <1>2, <1>3

\* What p changes, it changes of its own item: the others keep theirs right.
LEMMA OwnOthers ==
    ASSUME TypeInv, RivalOK, OwnInv, NEW p \in Procs, Aside(p),
           \A n \in Names : service'[n] = service[n] \/ proc[p].item = n,
           \/ proc[p].item = LoginItem
           \/ /\ identity' = identity
              /\ \A c \in Credentials : credential'[c].status = "enrolled" =>
                    /\ credential[c].status = "enrolled"
                    /\ credential'[c].key = credential[c].key,
           OwnOK(p)'
    PROVE  OwnInv'
<1> SUFFICES ASSUME NEW q \in Procs, q # p, ~proc'[q].rival
             PROVE  OwnOK(q)'
    BY DEF OwnInv, OwnOK
<1>1. /\ proc'[q].cmd = proc[q].cmd /\ proc'[q].at = proc[q].at
      /\ proc'[q].item = proc[q].item /\ proc'[q].id = proc[q].id
      /\ proc'[q].key = proc[q].key /\ proc'[q].copy = proc[q].copy
      /\ ~proc[q].rival
    BY DEF Aside
<1>2. OwnOK(q) /\ StepOK(proc[q])
    BY DEF OwnInv, TypeInv, StepInv
<1>3. proc[q].item # None => proc[q].item # proc[p].item
    BY <1>1 DEF RivalOK
<1>4. Keyed(proc'[q]) <=> Keyed(proc[q])
    BY <1>1 DEF Keyed
<1>5. proc[q].item \in Names => service'[proc[q].item] = service[proc[q].item]
    BY <1>3, HostConfigAssumption
<1>6. Keyed(proc[q]) =>
        /\ identity' = identity
        /\ \A c \in Credentials : credential'[c].status = "enrolled" =>
              /\ credential[c].status = "enrolled"
              /\ credential'[c].key = credential[c].key
    <2>1. Keyed(proc[q]) => proc[q].item = LoginItem
        BY <1>2 DEF Keyed, StepOK
    <2> QED
        BY <1>3, <2>1, HostConfigAssumption
<1>7. /\ proc[q].at \in {"loading", "deleting"} => proc[q].item \in Names
      /\ proc[q].cmd \in {"host", "remove"} => proc[q].item \in Names
    BY <1>2 DEF StepOK
<1>8. proc'[q].at \in {"loading", "deleting"} =>
        service'[proc'[q].item] = proc'[q].id
    BY <1>1, <1>2, <1>5, <1>7 DEF OwnOK
<1>9. /\ proc'[q].cmd \in {"host", "remove"}
      /\ proc'[q].at \in {"truncating", "writing"}
      => proc'[q].copy.services[proc'[q].item] = service'[proc'[q].item]
    BY <1>1, <1>2, <1>5, <1>7 DEF OwnOK
<1>10. Keyed(proc'[q]) => identity' = proc'[q].key
    BY <1>1, <1>2, <1>4, <1>6 DEF OwnOK
<1>11. Keyed(proc'[q]) /\ proc'[q].at # "enrolling" =>
         \A c \in Credentials :
             credential'[c].status = "enrolled" /\ credential'[c].key = proc'[q].key
                 => c = proc'[q].copy.cred
    BY <1>1, <1>2, <1>4, <1>6 DEF OwnOK
<1> QED
    BY <1>8, <1>9, <1>10, <1>11 DEF OwnOK

\* A step of p that excuses no less, and saves nothing.
LEMMA RestQuiet ==
    ASSUME TypeInv, TypeInv', RestInv, NEW p \in Procs, Aside(p),
           history.excused \subseteq history'.excused,
           Halfway(p) =>
               \/ Halfway(p)' /\ proc'[p].item = proc[p].item
               \/ proc[p].item \in history'.excused,
           file' = file \/ ~file'.whole,
           \A i \in Subjects : Settled(i)' =>
               \A a \in Configs : Agrees(i, a) => Agrees(i, a)',
           Saving(proc'[p]) => \A i \in Subjects :
               Settled(i) /\ Settled(i)' /\ i \notin proc'[p].touched =>
                   Agrees(i, proc'[p].copy)
    PROVE  RestInv'
<1> SUFFICES ASSUME NEW i \in Subjects, Settled(i)'
             PROVE  /\ file'.whole => Agrees(i, file)'
                    /\ \A q \in Procs :
                         Saving(proc'[q]) /\ i \notin proc'[q].touched =>
                             Agrees(i, proc[q].copy)'
    BY DEF RestInv
<1>1. Settled(i)
    <2>1. i \notin history.excused
        BY DEF Settled
    <2>2. ASSUME NEW q \in Procs, proc[q].item = i PROVE ~Halfway(q)
        <3>1. CASE q = p
            BY <2>2, <3>1 DEF Settled
        <3>2. CASE q # p
            <4>1. proc'[q].item = i /\ (Halfway(q)' <=> Halfway(q))
                BY <2>2, <3>2 DEF Aside, Halfway
            <4> QED
                BY <4>1 DEF Settled
        <3> QED
            BY <3>1, <3>2
    <2> QED
        BY <2>1, <2>2 DEF Settled
<1>2. \A a \in Configs : Agrees(i, a) => Agrees(i, a)'
    OBVIOUS
<1>3. /\ file.whole => Agrees(i, file)
      /\ \A q \in Procs :
           Saving(proc[q]) /\ i \notin proc[q].touched => Agrees(i, proc[q].copy)
    BY <1>1 DEF RestInv
<1>4. file \in Configs /\ \A q \in Procs : proc'[q].copy \in Configs
    BY DEF TypeInv, TypeOK, Processes
<1>5. file'.whole => Agrees(i, file)'
    <2> SUFFICES ASSUME file'.whole PROVE Agrees(i, file)'
        OBVIOUS
    <2>1. file' = file /\ Agrees(i, file)
        BY <1>3
    <2>2. PICK b \in Configs : b = file
        BY <1>4
    <2>3. Agrees(i, b)'
        BY <1>2, <2>1, <2>2
    <2> QED
        BY <2>1, <2>2, <2>3 DEF Agrees
<1>6. ASSUME NEW q \in Procs, Saving(proc'[q]), i \notin proc'[q].touched
      PROVE  Agrees(i, proc[q].copy)'
    <2>1. PICK b \in Configs : b = proc'[q].copy
        BY <1>4
    <2>2. Agrees(i, b)
        <3>1. CASE q = p
            BY <1>1, <1>6, <2>1, <3>1
        <3>2. CASE q # p
            <4>1. Saving(proc[q]) /\ i \notin proc[q].touched /\ proc'[q].copy = proc[q].copy
                BY <1>6, <3>2 DEF Aside, Saving
            <4> QED
                BY <1>3, <2>1, <4>1
        <3> QED
            BY <3>1, <3>2
    <2>3. Agrees(i, b)'
        BY <1>2, <2>2
    <2> QED
        BY <2>1, <2>3 DEF Agrees
<1> QED
    BY <1>5, <1>6

\* What a config says stays right as long as the two sides do not change.
LEMMA AgreesStill ==
    ASSUME service' = service, credential' = credential, identity' = identity
    PROVE  \A i \in Subjects : \A a \in Configs : Agrees(i, a) => Agrees(i, a)'
BY DEF Agrees

\* A step of p that changes nothing on the control plane and no key, and saves
\* nothing.
LEMMA MatchQuiet ==
    ASSUME TypeInv, TypeInv', MatchInv, NEW p \in Procs, Aside(p),
           service' = service, credential' = credential, identity' = identity,
           file' = file \/ ~file'.whole,
           history'.excused = history.excused,
           Halfway(p) => Halfway(p)' /\ proc'[p].item = proc[p].item,
           RivalOK', OwnOK(p)',
           Saving(proc'[p]) => \A i \in Subjects :
               Settled(i) /\ Settled(i)' /\ i \notin proc'[p].touched =>
                   Agrees(i, proc'[p].copy)
    PROVE  MatchInv'
<1>1. OwnInv'
    BY OwnOthers DEF MatchInv
<1>2. \A i \in Subjects : \A a \in Configs : Agrees(i, a) => Agrees(i, a)'
    BY AgreesStill
<1>3. RestInv'
    BY <1>2, RestQuiet DEF MatchInv
<1> QED
    BY <1>1, <1>3 DEF MatchInv

\* Every step keeps the config and the control plane in agreement.
LEMMA MatchStep ==
    ASSUME TypeInv, KeyInv, MatchInv, [Next]_vars
    PROVE  MatchInv'
<1>0. TypeInv'
    BY TypeStep
<1>1. ASSUME NEW p \in Procs, NEW n \in Names, HostStart(p, n)
      PROVE  MatchInv'
    <2>1. Begins(p, "host", "posting", n, file)
        BY <1>1, HostStartBegins
    <2>2. /\ file.whole
          /\ file' = file
          /\ service' = service /\ credential' = credential /\ identity' = identity
        BY <1>1 DEF HostStart, remoteVars, localVars
    <2>3. OwnOK(p) /\ StepOK(proc[p])
        BY <1>1, Items DEF MatchInv, OwnInv
    <2>4. RivalOK'
        BY <1>1, <2>1, RivalBegun DEF MatchInv
    <2>5. OwnOK(p)'
        BY <1>1, <2>1, <2>2, <2>3, Defaults DEF OwnOK, Begins, Keyed, StepOK
    <2>6. history'.excused = history.excused
        BY <1>1 DEF HostStart
    <2>7. Halfway(p) => Halfway(p)' /\ proc'[p].item = proc[p].item
        BY <1>1, <2>1, Defaults DEF Begins, Halfway
    <2>8. ~Saving(proc'[p])
        BY <1>1, <2>1, <2>2, <2>3 DEF Begins, Saving, StepOK, AfterIdentity
    <2> QED
        BY <1>1, <1>0, <2>1, <2>2, <2>4, <2>5, <2>6, <2>7, <2>8, MatchQuiet
            DEF Begins
<1>2. ASSUME NEW p \in Procs, NEW n \in Names, RemoveStart(p, n)
      PROVE  MatchInv'
    <2>1. Begins(p, "remove", "listing", n, file)
        BY <1>2, RemoveStartBegins
    <2>2. /\ file.whole
          /\ file' = file
          /\ service' = service /\ credential' = credential /\ identity' = identity
        BY <1>2 DEF RemoveStart, remoteVars, localVars
    <2>3. OwnOK(p) /\ StepOK(proc[p])
        BY <1>2, Items DEF MatchInv, OwnInv
    <2>4. RivalOK'
        BY <1>2, <2>1, RivalBegun DEF MatchInv
    <2>5. OwnOK(p)'
        BY <1>2, <2>1, <2>2, <2>3, Defaults DEF OwnOK, Begins, Keyed, StepOK
    <2>6. history'.excused = history.excused
        BY <1>2 DEF RemoveStart
    <2>7. Halfway(p) => Halfway(p)' /\ proc'[p].item = proc[p].item
        BY <1>2, <2>1, Defaults DEF Begins, Halfway
    <2>8. Saving(proc'[p]) => \A i \in Subjects :
              Settled(i) /\ Settled(i)' /\ i \notin proc'[p].touched =>
                  Agrees(i, proc'[p].copy)
        BY <1>2, <2>1, <2>2 DEF Begins, MatchInv, RestInv
    <2> QED
        BY <1>2, <1>0, <2>1, <2>2, <2>4, <2>5, <2>6, <2>7, <2>8, MatchQuiet
            DEF Begins
<1>3. ASSUME NEW p \in Procs, NEW c \in Credentials, LoginStart(p, c)
      PROVE  MatchInv'
    <2>1. Begins(p, "login", "identity", LoginItem,
                        [Default EXCEPT !.cred = c, !.pinned = signingKey])
        BY <1>3, LoginStartBegins
    <2>2. /\ file' = file
          /\ service' = service /\ credential' = credential /\ identity' = identity
        BY <1>3 DEF LoginStart, remoteVars, localVars
    <2>3. OwnOK(p) /\ StepOK(proc[p])
        BY <1>3, Items DEF MatchInv, OwnInv
    <2>4. RivalOK'
        BY <1>3, <2>1, RivalBegun DEF MatchInv
    <2>5. OwnOK(p)'
        BY <1>3, <2>1, <2>2, <2>3, Defaults DEF OwnOK, Begins, Keyed, StepOK
    <2>6. history'.excused = history.excused
        BY <1>3 DEF LoginStart
    <2>7. Halfway(p) => Halfway(p)' /\ proc'[p].item = proc[p].item
        BY <1>3, <2>1, Defaults DEF Begins, Halfway
    <2>8. ~Saving(proc'[p])
        BY <1>3, <2>1, <2>2, <2>3 DEF Begins, Saving, StepOK, AfterIdentity
    <2> QED
        BY <1>3, <1>0, <2>1, <2>2, <2>4, <2>5, <2>6, <2>7, <2>8, MatchQuiet
            DEF Begins
<1>4. ASSUME NEW p \in Procs, DaemonStart(p)
      PROVE  MatchInv'
    <2>1. Begins(p, "daemon", "locking", None, file)
        BY <1>4, DaemonStartBegins
    <2>2. /\ file' = file
          /\ service' = service /\ credential' = credential /\ identity' = identity
        BY <1>4 DEF DaemonStart, remoteVars, localVars
    <2>3. OwnOK(p) /\ StepOK(proc[p])
        BY <1>4, Items DEF MatchInv, OwnInv
    <2>4. RivalOK'
        BY <1>4, <2>1, RivalBegun DEF MatchInv
    <2>5. OwnOK(p)'
        BY <1>4, <2>1, <2>2, <2>3, Defaults DEF OwnOK, Begins, Keyed, StepOK
    <2>6. history'.excused = history.excused
        BY <1>4 DEF DaemonStart
    <2>7. Halfway(p) => Halfway(p)' /\ proc'[p].item = proc[p].item
        BY <1>4, <2>1, Defaults DEF Begins, Halfway
    <2>8. ~Saving(proc'[p])
        BY <1>4, <2>1, <2>2, <2>3 DEF Begins, Saving, StepOK, AfterIdentity
    <2> QED
        BY <1>4, <1>0, <2>1, <2>2, <2>4, <2>5, <2>6, <2>7, <2>8, MatchQuiet
            DEF Begins
<1>5. ASSUME NEW p \in Procs, ProbeStart(p)
      PROVE  MatchInv'
    <2>1. Begins(p, "probe", "probing", None, Default)
        BY <1>5, ProbeStartBegins
    <2>2. /\ file' = file
          /\ service' = service /\ credential' = credential /\ identity' = identity
        BY <1>5 DEF ProbeStart, remoteVars, localVars
    <2>3. OwnOK(p) /\ StepOK(proc[p])
        BY <1>5, Items DEF MatchInv, OwnInv
    <2>4. RivalOK'
        BY <1>5, <2>1, RivalBegun DEF MatchInv
    <2>5. OwnOK(p)'
        BY <1>5, <2>1, <2>2, <2>3, Defaults DEF OwnOK, Begins, Keyed, StepOK
    <2>6. history'.excused = history.excused
        BY <1>5 DEF ProbeStart
    <2>7. Halfway(p) => Halfway(p)' /\ proc'[p].item = proc[p].item
        BY <1>5, <2>1, Defaults DEF Begins, Halfway
    <2>8. ~Saving(proc'[p])
        BY <1>5, <2>1, <2>2, <2>3 DEF Begins, Saving, StepOK, AfterIdentity
    <2> QED
        BY <1>5, <1>0, <2>1, <2>2, <2>4, <2>5, <2>6, <2>7, <2>8, MatchQuiet
            DEF Begins
<1>6. ASSUME NEW p \in Procs, HostPost(p)
      PROVE  MatchInv'
    <2>1. PICK j \in Ids :
            /\ service' = [service EXCEPT ![proc[p].item] = j]
            /\ Moves(p, "loading", j, proc[p].key, proc[p].copy)
        BY <1>6, HostPostMoves
    <2>2. /\ proc[p].cmd = "host" /\ proc[p].at = "posting" /\ file' = file
          /\ credential' = credential /\ identity' = identity /\ history' = history
        BY <1>6 DEF HostPost, localVars
    <2>3. OwnOK(p) /\ StepOK(proc[p]) /\ proc[p].item \in Names
        BY <1>6, <2>2, Items DEF MatchInv, OwnInv
    <2>4. /\ service'[proc[p].item] = j
          /\ \A n \in Names : service'[n] = service[n] \/ proc[p].item = n
        BY <1>6, <2>1, <2>3 DEF TypeInv, TypeOK
    <2>5. /\ Aside(p) /\ proc'[p].at = "loading" /\ proc'[p].id = j
          /\ proc'[p].cmd = "host" /\ proc'[p].item = proc[p].item
          /\ proc'[p].rival = proc[p].rival
        BY <1>6, <2>1, <2>2 DEF Moves
    <2>6. RivalOK'
        BY <1>6, <2>5, RivalKept DEF MatchInv
    <2>7. OwnOK(p)'
        BY <1>6, <2>4, <2>5 DEF OwnOK, Keyed
    <2>8. OwnInv'
        BY <1>6, <2>2, <2>4, <2>5, <2>7, OwnOthers DEF MatchInv
    <2>9. Halfway(p)' /\ ~Halfway(p) /\ ~Saving(proc'[p])
        BY <1>6, <2>2, <2>5 DEF Halfway, Saving
    <2>10. ASSUME NEW i \in Subjects, Settled(i)', NEW a \in Configs, Agrees(i, a)
           PROVE  Agrees(i, a)'
        <3>1. i # proc[p].item
            BY <1>6, <2>5, <2>9, <2>10 DEF Settled
        <3>2. i # LoginItem => service'[i] = service[i]
            BY <1>6, <2>4, <3>1 DEF Subjects
        <3> QED
            BY <1>6, <2>2, <2>10, <3>2 DEF Agrees
    <2>11. RestInv'
        BY <1>6, <1>0, <2>2, <2>5, <2>9, <2>10, RestQuiet DEF MatchInv
    <2> QED
        BY <1>6, <2>6, <2>8, <2>11 DEF MatchInv
<1>7. ASSUME NEW p \in Procs, HostLoad(p)
      PROVE  MatchInv'
    <2>1. Moves(p, "truncating", proc[p].id, proc[p].key, Mapped(file, proc[p].item, proc[p].id))
        BY <1>7, HostLoadMoves
    <2>2. /\ proc[p].cmd = "host" /\ proc[p].at = "loading" /\ file.whole
          /\ file' = file
          /\ service' = service /\ credential' = credential /\ identity' = identity
        BY <1>7 DEF HostLoad, remoteVars, localVars
    <2>3. OwnOK(p) /\ StepOK(proc[p])
        BY <1>7, Items DEF MatchInv, OwnInv
    <2>a. /\ proc[p].item \in Names
          /\ Mapped(file, proc[p].item, proc[p].id).services[proc[p].item] = proc[p].id
          /\ Mapped(file, proc[p].item, proc[p].id).cred = file.cred
          /\ \A m \in Names : m # proc[p].item =>
               Mapped(file, proc[p].item, proc[p].id).services[m] = file.services[m]
        <3>1. file \in Configs /\ proc[p].item \in Names /\ proc[p].id \in Ids \cup {None}
            BY <1>7, <2>2, Fields, Items DEF TypeInv, TypeOK
        <3> QED
            BY <1>7, <3>1, MappedConfig
    <2>4. RivalOK'
        BY <1>7, <2>1, RivalKept DEF Moves, MatchInv
    <2>5. OwnOK(p)'
        BY <1>7, <2>1, <2>2, <2>3, <2>a DEF OwnOK, Moves, Keyed
    <2>6. history'.excused = history.excused
        BY <1>7 DEF HostLoad
    <2>7. Halfway(p) => Halfway(p)' /\ proc'[p].item = proc[p].item
        BY <1>7, <2>1, <2>2, <2>3 DEF Moves, Halfway, StepOK, AfterIdentity
    <2>8. ASSUME NEW i \in Subjects, Settled(i), Settled(i)'
          PROVE  Agrees(i, proc'[p].copy)
        <3>1. i # proc[p].item
            BY <1>7, <2>1, <2>2, <2>8 DEF Settled, Moves, Halfway
        <3>2. Agrees(i, file)
            BY <1>7, <2>2, <2>8 DEF MatchInv, RestInv
        <3>3. i # LoginItem => i \in Names
            BY <1>7 DEF Subjects
        <3> QED
            BY <1>7, <2>1, <2>a, <3>1, <3>2, <3>3 DEF Moves, Agrees
    <2> QED
        BY <1>7, <1>0, <2>1, <2>2, <2>4, <2>5, <2>6, <2>7, <2>8, MatchQuiet
            DEF Moves
<1>8. ASSUME NEW p \in Procs, RemoveList(p)
      PROVE  MatchInv'
    <2>1. Moves(p, "deleting", service[proc[p].item], proc[p].key, proc[p].copy)
        BY <1>8, RemoveListMoves
    <2>2. /\ proc[p].cmd = "remove" /\ proc[p].at = "listing"
          /\ file' = file
          /\ service' = service /\ credential' = credential /\ identity' = identity
        BY <1>8 DEF RemoveList, remoteVars, localVars
    <2>3. OwnOK(p) /\ StepOK(proc[p])
        BY <1>8, Items DEF MatchInv, OwnInv
    <2>4. RivalOK'
        BY <1>8, <2>1, RivalKept DEF Moves, MatchInv
    <2>5. OwnOK(p)'
        BY <1>8, <2>1, <2>2, <2>3 DEF OwnOK, Moves, Keyed, StepOK
    <2>6. history'.excused = history.excused
        BY <1>8 DEF RemoveList
    <2>7. Halfway(p) => Halfway(p)' /\ proc'[p].item = proc[p].item
        BY <1>8, <2>1, <2>2, <2>3 DEF Moves, Halfway, StepOK, AfterIdentity
    <2>8. Saving(proc'[p]) => \A i \in Subjects :
              Settled(i) /\ Settled(i)' /\ i \notin proc'[p].touched =>
                  Agrees(i, proc'[p].copy)
        BY <1>8, <2>1, <2>2 DEF Moves, Saving, MatchInv, RestInv
    <2> QED
        BY <1>8, <1>0, <2>1, <2>2, <2>4, <2>5, <2>6, <2>7, <2>8, MatchQuiet
            DEF Moves
<1>9. ASSUME NEW p \in Procs, RemoveDelete(p)
      PROVE  MatchInv'
    <2> DEFINE n == proc[p].item
               mapped == Mapped(proc[p].copy, n, None)
    <2>1. Moves(p, "truncating", proc[p].id, proc[p].key, mapped)
        BY <1>9, RemoveDeleteMoves
    <2>2. /\ proc[p].cmd = "remove" /\ proc[p].at = "deleting" /\ file' = file
          /\ service' = [service EXCEPT ![n] = IF proc[p].id = None THEN service[n] ELSE None]
          /\ credential' = credential /\ identity' = identity /\ history' = history
        BY <1>9 DEF RemoveDelete, localVars
    <2>3. OwnOK(p) /\ StepOK(proc[p]) /\ n \in Names
        BY <1>9, <2>2, Items DEF MatchInv, OwnInv
    <2>4. /\ proc[p].id = None => service'[n] = service[n]
          /\ proc[p].id # None => service'[n] = None
          /\ \A m \in Names : service'[m] = service[m] \/ n = m
        BY <1>9, <2>2, <2>3 DEF TypeInv, TypeOK
    <2>5. /\ mapped.services[n] = None /\ mapped.cred = proc[p].copy.cred
          /\ \A m \in Names : m # n => mapped.services[m] = proc[p].copy.services[m]
        <3>1. proc[p].copy \in Configs /\ n \in Names /\ None \in Ids \cup {None}
            BY <1>9, <2>3, Fields
        <3> QED
            BY <1>9, <3>1, MappedConfig
    <2> HIDE DEF mapped
    <2>6. /\ Aside(p) /\ proc'[p].at = "truncating" /\ proc'[p].copy = mapped
          /\ proc'[p].cmd = "remove" /\ proc'[p].item = n
          /\ proc'[p].rival = proc[p].rival /\ proc'[p].touched = proc[p].touched
        BY <1>9, <2>1, <2>2 DEF Moves
    <2>7. RivalOK'
        BY <1>9, <2>6, RivalKept DEF MatchInv
    <2>8. ~proc[p].rival => service[n] = proc[p].id
        BY <1>9, <2>2, <2>3 DEF OwnOK
    <2>9. OwnOK(p)'
        <3>1. ~proc'[p].rival => proc'[p].copy.services[n] = service'[n]
            BY <1>9, <2>4, <2>5, <2>6, <2>8
        <3> QED
            BY <1>9, <2>6, <3>1 DEF OwnOK, Keyed
    <2>10. OwnInv'
        BY <1>9, <2>2, <2>4, <2>6, <2>9, OwnOthers DEF MatchInv
    <2>11. Halfway(p)' /\ ~Halfway(p) /\ Saving(proc[p])
        BY <1>9, <2>2, <2>6 DEF Halfway, Saving
    <2>12. ASSUME NEW i \in Subjects, Settled(i)'
           PROVE  /\ i # n
                  /\ i # LoginItem => i \in Names /\ service'[i] = service[i]
        BY <1>9, <2>4, <2>6, <2>11, <2>12 DEF Settled, Subjects
    <2>13. ASSUME NEW i \in Subjects, Settled(i)', NEW a \in Configs, Agrees(i, a)
           PROVE  Agrees(i, a)'
        BY <1>9, <2>2, <2>12, <2>13 DEF Agrees
    <2>14. ASSUME NEW i \in Subjects, Settled(i), Settled(i)', i \notin proc'[p].touched
           PROVE  Agrees(i, proc'[p].copy)
        <3>1. Agrees(i, proc[p].copy)
            BY <1>9, <2>6, <2>11, <2>14 DEF MatchInv, RestInv
        <3>2. i # n /\ (i # LoginItem => i \in Names)
            BY <1>9, <2>12, <2>14
        <3> QED
            BY <1>9, <2>5, <2>6, <3>1, <3>2 DEF Agrees
    <2>15. RestInv'
        BY <1>9, <1>0, <2>2, <2>6, <2>11, <2>13, <2>14, RestQuiet DEF MatchInv
    <2> QED
        BY <1>9, <2>7, <2>10, <2>15 DEF MatchInv
<1>10. ASSUME NEW p \in Procs, ReadIdentity(p)
      PROVE  MatchInv'
    <2>1. Moves(p, AfterIdentity(p), proc[p].id, identity, proc[p].copy)
        BY <1>10, ReadIdentityMoves
    <2>2. /\ proc[p].at = "identity"
          /\ file' = file
          /\ service' = service /\ credential' = credential /\ identity' = identity
        BY <1>10 DEF ReadIdentity, remoteVars, localVars
    <2>3. OwnOK(p) /\ StepOK(proc[p])
        BY <1>10, Items DEF MatchInv, OwnInv
    <2>4. RivalOK'
        BY <1>10, <2>1, RivalKept DEF Moves, MatchInv
    <2>5. OwnOK(p)'
        BY <1>10, <2>1, <2>2, <2>3
            DEF OwnOK, Moves, Keyed, AfterIdentity, StepOK
    <2>6. history'.excused = history.excused
        BY <1>10 DEF ReadIdentity
    <2>7. Halfway(p) => Halfway(p)' /\ proc'[p].item = proc[p].item
        BY <1>10, <2>1, <2>2, <2>3 DEF Moves, Halfway, StepOK, AfterIdentity
    <2>8. ~Saving(proc'[p])
        BY <1>10, <2>1, <2>2, <2>3 DEF Moves, Saving, StepOK, AfterIdentity
    <2> QED
        BY <1>10, <1>0, <2>1, <2>2, <2>4, <2>5, <2>6, <2>7, <2>8, MatchQuiet
            DEF Moves
<1>11. ASSUME NEW p \in Procs, GenerateIdentity(p)
      PROVE  MatchInv'
    <2>1. \E k \in FreshKeys : Moves(p, "generated", proc[p].id, k, proc[p].copy)
        BY <1>11, GenerateIdentityMoves
    <2>2. /\ proc[p].at = "identity"
          /\ file' = file
          /\ service' = service /\ credential' = credential /\ identity' = identity
        BY <1>11 DEF GenerateIdentity, remoteVars, localVars
    <2>3. OwnOK(p) /\ StepOK(proc[p])
        BY <1>11, Items DEF MatchInv, OwnInv
    <2>4. RivalOK'
        BY <1>11, <2>1, RivalKept DEF Moves, MatchInv
    <2>5. OwnOK(p)'
        BY <1>11, <2>1, <2>2, <2>3 DEF OwnOK, Moves, Keyed, StepOK
    <2>6. history'.excused = history.excused
        <3>1. PICK b : history' = [history EXCEPT !.forked = b]
            BY <1>11 DEF GenerateIdentity
        <3> QED
            BY <1>11, <3>1 DEF TypeInv, TypeOK
    <2>7. Halfway(p) => Halfway(p)' /\ proc'[p].item = proc[p].item
        BY <1>11, <2>1, <2>2, <2>3 DEF Moves, Halfway, StepOK, AfterIdentity
    <2>8. ~Saving(proc'[p])
        BY <1>11, <2>1, <2>2, <2>3 DEF Moves, Saving, StepOK, AfterIdentity
    <2> QED
        BY <1>11, <1>0, <2>1, <2>2, <2>4, <2>5, <2>6, <2>7, <2>8, MatchQuiet
            DEF Moves
<1>12. ASSUME NEW p \in Procs, TruncateIdentity(p)
      PROVE  MatchInv'
    <2>1. Moves(p, "keying", proc[p].id, proc[p].key, proc[p].copy)
        BY <1>12, TruncateIdentityMoves
    <2>2. /\ proc[p].at = "generated" /\ identity' = "torn"
          /\ credential' = credential /\ file' = file /\ history' = history
          /\ service' = service
        BY <1>12 DEF TruncateIdentity, remoteVars
    <2>3. /\ proc[p].cmd = "login"
          /\ \A c \in Credentials : credential[c].key # proc[p].key
        BY <1>12, <2>2 DEF Generating, KeyInv, GeneratorOK
    <2>4. proc[p].item = LoginItem
        BY <1>12, <2>3, Items
    <2>5. /\ Aside(p) /\ proc'[p].cmd = "login"
          /\ proc'[p].at = "keying"
          /\ proc'[p].key = proc[p].key /\ proc'[p].item = proc[p].item
          /\ proc'[p].rival = proc[p].rival
        BY <1>12, <2>1, <2>3 DEF Moves
    <2>6. RivalOK'
        BY <1>12, <2>5, RivalKept DEF MatchInv
    <2>7. OwnOK(p)'
        BY <1>12, <2>2, <2>5 DEF OwnOK, Keyed
    <2>8. OwnInv'
        BY <1>12, <2>2, <2>4, <2>5, <2>7, OwnOthers DEF MatchInv
    <2>9. \A c \in Credentials : credential[c].key # identity'
        BY <1>12, <2>2, <2>3, HostConfigAssumption DEF TypeInv, TypeOK
    <2>10. \A i \in Subjects : \A a \in Configs : Agrees(i, a) => Agrees(i, a)'
        BY <1>12, <2>2, <2>9 DEF Agrees
    <2>11. ~Halfway(p) /\ ~Saving(proc'[p])
        BY <1>12, <2>2, <2>5 DEF Halfway, Saving
    <2>12. RestInv'
        BY <1>12, <1>0, <2>2, <2>5, <2>10, <2>11, RestQuiet DEF MatchInv
    <2> QED
        BY <1>12, <2>6, <2>8, <2>12 DEF MatchInv
<1>13. ASSUME NEW p \in Procs, WriteIdentity(p)
      PROVE  MatchInv'
    <2>1. Moves(p, AfterIdentity(p), proc[p].id, proc[p].key, proc[p].copy)
        BY <1>13, WriteIdentityMoves
    <2>2. /\ proc[p].at = "keying" /\ identity' = proc[p].key
          /\ credential' = credential /\ file' = file /\ history' = history
          /\ service' = service
        BY <1>13 DEF WriteIdentity, remoteVars
    <2>3. /\ proc[p].cmd = "login"
          /\ \A c \in Credentials : credential[c].key # proc[p].key
        BY <1>13, <2>2 DEF Generating, KeyInv, GeneratorOK
    <2>4. proc[p].item = LoginItem
        BY <1>13, <2>3, Items
    <2>5. /\ Aside(p) /\ proc'[p].cmd = "login"
          /\ proc'[p].at = "enrolling"
          /\ proc'[p].key = proc[p].key /\ proc'[p].item = proc[p].item
          /\ proc'[p].rival = proc[p].rival
        BY <1>13, <2>1, <2>3 DEF Moves, AfterIdentity
    <2>6. RivalOK'
        BY <1>13, <2>5, RivalKept DEF MatchInv
    <2>7. OwnOK(p)'
        BY <1>13, <2>2, <2>5 DEF OwnOK, Keyed
    <2>8. OwnInv'
        BY <1>13, <2>2, <2>4, <2>5, <2>7, OwnOthers DEF MatchInv
    <2>9. \A c \in Credentials : credential[c].key # identity'
        BY <1>13, <2>2, <2>3, HostConfigAssumption DEF TypeInv, TypeOK
    <2>10. \A i \in Subjects : \A a \in Configs : Agrees(i, a) => Agrees(i, a)'
        BY <1>13, <2>2, <2>9 DEF Agrees
    <2>11. ~Halfway(p) /\ ~Saving(proc'[p])
        BY <1>13, <2>2, <2>5 DEF Halfway, Saving
    <2>12. RestInv'
        BY <1>13, <1>0, <2>2, <2>5, <2>10, <2>11, RestQuiet DEF MatchInv
    <2> QED
        BY <1>13, <2>6, <2>8, <2>12 DEF MatchInv
<1>14. ASSUME NEW p \in Procs, LoginEnroll(p)
      PROVE  MatchInv'
    <2> DEFINE c == proc[p].copy.cred
    <2>1. Moves(p, "confirming", proc[p].id, proc[p].key, proc[p].copy)
        BY <1>14, LoginEnrollMoves
    <2>2. /\ proc[p].cmd = "login" /\ proc[p].at = "enrolling"
          /\ \A d \in Credentials :
               credential[d].status = "enrolled" => credential[d].key # proc[p].key
          /\ credential' = [credential EXCEPT ![c] =
                 [status |-> "enrolled", key |-> proc[p].key]]
          /\ identity' = identity /\ file' = file /\ history' = history
          /\ service' = service
        BY <1>14 DEF LoginEnroll, localVars
    <2>3. OwnOK(p) /\ proc[p].item = LoginItem /\ c \in Credentials
        BY <1>14, <2>2, Items DEF MatchInv, OwnInv, StepOK
    <2>4. /\ Aside(p) /\ proc'[p].cmd = "login" /\ proc'[p].at = "confirming"
          /\ proc'[p].key = proc[p].key /\ proc'[p].item = proc[p].item
          /\ proc'[p].rival = proc[p].rival /\ proc'[p].copy = proc[p].copy
        BY <1>14, <2>1, <2>2 DEF Moves
    <2>5. RivalOK'
        BY <1>14, <2>4, RivalKept DEF MatchInv
    <2>6. \A d \in Credentials : d # c => credential'[d] = credential[d]
        BY <1>14, <2>2, <2>3 DEF TypeInv, TypeOK
    <2>7. \A d \in Credentials :
            credential'[d].status = "enrolled" /\ credential'[d].key = proc[p].key => d = c
        BY <1>14, <2>2, <2>6
    <2>8. ~proc[p].rival => identity = proc[p].key
        BY <1>14, <2>2, <2>3 DEF OwnOK, Keyed
    <2>9. OwnOK(p)'
        BY <1>14, <2>2, <2>4, <2>7, <2>8 DEF OwnOK, Keyed
    <2>10. OwnInv'
        BY <1>14, <2>2, <2>3, <2>4, <2>9, OwnOthers DEF MatchInv
    <2>11. Halfway(p)' /\ ~Halfway(p) /\ ~Saving(proc'[p])
        BY <1>14, <2>2, <2>4 DEF Halfway, Saving
    <2>12. ASSUME NEW i \in Subjects, Settled(i)', NEW a \in Configs, Agrees(i, a)
           PROVE  Agrees(i, a)'
        <3>1. i # LoginItem
            BY <1>14, <2>3, <2>4, <2>11, <2>12 DEF Settled
        <3> QED
            BY <1>14, <2>2, <2>12, <3>1 DEF Agrees
    <2>13. RestInv'
        BY <1>14, <1>0, <2>2, <2>4, <2>11, <2>12, RestQuiet DEF MatchInv
    <2> QED
        BY <1>14, <2>5, <2>10, <2>13 DEF MatchInv
<1>15. ASSUME NEW p \in Procs, LoginConfirm(p)
      PROVE  MatchInv'
    <2>1. Moves(p, "truncating", proc[p].id, proc[p].key, [file EXCEPT !.cred = proc[p].copy.cred,
                                  !.pinned = proc[p].copy.pinned])
        BY <1>15, LoginConfirmMoves
    <2>2. /\ proc[p].cmd = "login" /\ proc[p].at = "confirming" /\ file.whole
          /\ file' = file
          /\ service' = service /\ credential' = credential /\ identity' = identity
        BY <1>15 DEF LoginConfirm, remoteVars, localVars
    <2>3. OwnOK(p) /\ StepOK(proc[p])
        BY <1>15, Items DEF MatchInv, OwnInv
    <2> DEFINE edited == [file EXCEPT !.cred = proc[p].copy.cred,
                                       !.pinned = proc[p].copy.pinned]
    <2>a. /\ edited.cred = proc[p].copy.cred /\ edited.services = file.services
          /\ proc[p].item = LoginItem
        <3>1. file \in Configs /\ proc[p].copy \in Configs
            BY <1>15, Fields DEF TypeInv, TypeOK
        <3> QED
            BY <1>15, <2>2, <3>1, EditedConfig, Items
    <2> HIDE DEF edited
    <2>4. RivalOK'
        BY <1>15, <2>1, RivalKept DEF Moves, MatchInv
    <2>5. OwnOK(p)'
        BY <1>15, <2>1, <2>2, <2>3, <2>a DEF OwnOK, Moves, Keyed
    <2>6. history'.excused = history.excused
        BY <1>15 DEF LoginConfirm
    <2>7. Halfway(p) => Halfway(p)' /\ proc'[p].item = proc[p].item
        BY <1>15, <2>1, <2>2, <2>3 DEF Moves, Halfway, StepOK, AfterIdentity
    <2>8. ASSUME NEW i \in Subjects, Settled(i), Settled(i)'
          PROVE  Agrees(i, proc'[p].copy)
        <3>1. i # LoginItem
            BY <1>15, <2>1, <2>2, <2>a, <2>8 DEF Settled, Moves, Halfway
        <3>2. Agrees(i, file)
            BY <1>15, <2>2, <2>8 DEF MatchInv, RestInv
        <3> QED
            BY <1>15, <2>1, <2>a, <3>1, <3>2 DEF Moves, Agrees, edited
    <2> QED
        BY <1>15, <1>0, <2>1, <2>2, <2>4, <2>5, <2>6, <2>7, <2>8, MatchQuiet
            DEF Moves
<1>16. ASSUME NEW p \in Procs, DaemonLock(p)
      PROVE  MatchInv'
    <2>1. Moves(p, "identity", proc[p].id, proc[p].key, proc[p].copy)
        BY <1>16, DaemonLockMoves
    <2>2. /\ proc[p].cmd = "daemon" /\ proc[p].at = "locking"
          /\ file' = file
          /\ service' = service /\ credential' = credential /\ identity' = identity
        BY <1>16 DEF DaemonLock, remoteVars, localVars
    <2>3. OwnOK(p) /\ StepOK(proc[p])
        BY <1>16, Items DEF MatchInv, OwnInv
    <2>4. RivalOK'
        BY <1>16, <2>1, RivalKept DEF Moves, MatchInv
    <2>5. OwnOK(p)'
        BY <1>16, <2>1, <2>2, <2>3 DEF OwnOK, Moves, Keyed, StepOK
    <2>6. history'.excused = history.excused
        BY <1>16 DEF DaemonLock
    <2>7. Halfway(p) => Halfway(p)' /\ proc'[p].item = proc[p].item
        BY <1>16, <2>1, <2>2, <2>3 DEF Moves, Halfway, StepOK, AfterIdentity
    <2>8. ~Saving(proc'[p])
        BY <1>16, <2>1, <2>2, <2>3 DEF Moves, Saving, StepOK, AfterIdentity
    <2> QED
        BY <1>16, <1>0, <2>1, <2>2, <2>4, <2>5, <2>6, <2>7, <2>8, MatchQuiet
            DEF Moves
<1>17. ASSUME NEW p \in Procs, DaemonProve(p)
      PROVE  MatchInv'
    <2>1. Moves(p, "registering", proc[p].id, proc[p].key, proc[p].copy)
        BY <1>17, DaemonProveMoves
    <2>2. /\ proc[p].cmd = "daemon" /\ proc[p].at = "proving"
          /\ file' = file
          /\ service' = service /\ credential' = credential /\ identity' = identity
        BY <1>17 DEF DaemonProve, remoteVars, localVars
    <2>3. OwnOK(p) /\ StepOK(proc[p])
        BY <1>17, Items DEF MatchInv, OwnInv
    <2>4. RivalOK'
        BY <1>17, <2>1, RivalKept DEF Moves, MatchInv
    <2>5. OwnOK(p)'
        BY <1>17, <2>1, <2>2, <2>3 DEF OwnOK, Moves, Keyed, StepOK
    <2>6. history'.excused = history.excused
        BY <1>17 DEF DaemonProve
    <2>7. Halfway(p) => Halfway(p)' /\ proc'[p].item = proc[p].item
        BY <1>17, <2>1, <2>2, <2>3 DEF Moves, Halfway, StepOK, AfterIdentity
    <2>8. ~Saving(proc'[p])
        BY <1>17, <2>1, <2>2, <2>3 DEF Moves, Saving, StepOK, AfterIdentity
    <2> QED
        BY <1>17, <1>0, <2>1, <2>2, <2>4, <2>5, <2>6, <2>7, <2>8, MatchQuiet
            DEF Moves
<1>18. ASSUME NEW p \in Procs, DaemonRegister(p)
      PROVE  MatchInv'
    <2>1. Moves(p, "serving", proc[p].id, proc[p].key, proc[p].copy)
        BY <1>18, DaemonRegisterMoves
    <2>2. /\ proc[p].cmd = "daemon" /\ proc[p].at = "registering"
          /\ file' = file
          /\ service' = service /\ credential' = credential /\ identity' = identity
        BY <1>18 DEF DaemonRegister, remoteVars, localVars
    <2>3. OwnOK(p) /\ StepOK(proc[p])
        BY <1>18, Items DEF MatchInv, OwnInv
    <2>4. RivalOK'
        BY <1>18, <2>1, RivalKept DEF Moves, MatchInv
    <2>5. OwnOK(p)'
        BY <1>18, <2>1, <2>2, <2>3 DEF OwnOK, Moves, Keyed, StepOK
    <2>6. history'.excused = history.excused
        BY <1>18 DEF DaemonRegister
    <2>7. Halfway(p) => Halfway(p)' /\ proc'[p].item = proc[p].item
        BY <1>18, <2>1, <2>2, <2>3 DEF Moves, Halfway, StepOK, AfterIdentity
    <2>8. ~Saving(proc'[p])
        BY <1>18, <2>1, <2>2, <2>3 DEF Moves, Saving, StepOK, AfterIdentity
    <2> QED
        BY <1>18, <1>0, <2>1, <2>2, <2>4, <2>5, <2>6, <2>7, <2>8, MatchQuiet
            DEF Moves
<1>19. ASSUME NEW p \in Procs, Reload(p)
      PROVE  MatchInv'
    <2>1. Moves(p, "serving", proc[p].id, proc[p].key, [proc[p].copy EXCEPT !.services = file.services])
        BY <1>19, ReloadMoves
    <2>2. /\ proc[p].at = "serving"
          /\ file' = file
          /\ service' = service /\ credential' = credential /\ identity' = identity
        BY <1>19 DEF Reload, remoteVars, localVars
    <2>3. OwnOK(p) /\ StepOK(proc[p])
        BY <1>19, Items DEF MatchInv, OwnInv
    <2>4. RivalOK'
        BY <1>19, <2>1, RivalKept DEF Moves, MatchInv
    <2>5. OwnOK(p)'
        BY <1>19, <2>1, <2>2, <2>3 DEF OwnOK, Moves, Keyed, StepOK
    <2>6. history'.excused = history.excused
        BY <1>19 DEF Reload
    <2>7. Halfway(p) => Halfway(p)' /\ proc'[p].item = proc[p].item
        BY <1>19, <2>1, <2>2, <2>3 DEF Moves, Halfway, StepOK, AfterIdentity
    <2>8. ~Saving(proc'[p])
        BY <1>19, <2>1, <2>2, <2>3 DEF Moves, Saving, StepOK, AfterIdentity
    <2> QED
        BY <1>19, <1>0, <2>1, <2>2, <2>4, <2>5, <2>6, <2>7, <2>8, MatchQuiet
            DEF Moves
<1>20. ASSUME NEW p \in Procs, Truncate(p)
      PROVE  MatchInv'
    <2>1. Moves(p, "writing", proc[p].id, proc[p].key, proc[p].copy)
        BY <1>20, TruncateMoves
    <2>2. /\ proc[p].at = "truncating"
          /\ ~file'.whole
          /\ service' = service /\ credential' = credential /\ identity' = identity
        BY <1>20, Defaults DEF Truncate, remoteVars, localVars
    <2>3. OwnOK(p) /\ StepOK(proc[p])
        BY <1>20, Items DEF MatchInv, OwnInv
    <2>4. RivalOK'
        BY <1>20, <2>1, RivalKept DEF Moves, MatchInv
    <2>5. OwnOK(p)'
        BY <1>20, <2>1, <2>2, <2>3 DEF OwnOK, Moves, Keyed, StepOK
    <2>6. history'.excused = history.excused
        BY <1>20 DEF Truncate
    <2>7. Halfway(p) => Halfway(p)' /\ proc'[p].item = proc[p].item
        BY <1>20, <2>1, <2>2, <2>3 DEF Moves, Halfway, StepOK, AfterIdentity
    <2>8. Saving(proc'[p]) => \A i \in Subjects :
              Settled(i) /\ Settled(i)' /\ i \notin proc'[p].touched =>
                  Agrees(i, proc'[p].copy)
        BY <1>20, <2>1, <2>2 DEF Moves, Saving, MatchInv, RestInv
    <2> QED
        BY <1>20, <1>0, <2>1, <2>2, <2>4, <2>5, <2>6, <2>7, <2>8, MatchQuiet
            DEF Moves
<1>21. ASSUME NEW p \in Procs, Write(p)
      PROVE  MatchInv'
    <2>0. PICK x \in Subjects : x = proc[p].item
        BY <1>21, Items DEF Write, Subjects
    <2> DEFINE settled == IF proc[p].rival THEN {} ELSE {x}
    <2>1. Ends(p) /\ \A q \in Procs \ {p} : Saving(proc[q]) => x \in proc'[q].touched
        BY <1>21, <2>0, WriteEnds
    <2>2. /\ proc[p].at = "writing" /\ file' \in {proc[p].copy, Torn}
          /\ service' = service /\ credential' = credential /\ identity' = identity
        BY <1>21 DEF Write, remoteVars
    <2>3. /\ \A i : i \notin history'.excused /\ i # x =>
                  i \notin history.excused /\ i \notin proc[p].touched
          /\ proc[p].rival => x \in history'.excused
        <3> DEFINE e == (history.excused \ settled) \cup (proc[p].touched \ settled)
                           \cup (IF proc[p].rival THEN {x} ELSE {})
        <3>1. history' = [history EXCEPT !.excused = e]
            BY <1>21, <2>0 DEF Write
        <3>2. history'.excused = e
            BY <1>21, <3>1, ExcusedOnly
        <3> QED
            BY <1>21, <3>2
    <2>4. /\ OwnOK(p) /\ StepOK(proc[p]) /\ Saving(proc[p])
          /\ proc[p].copy \in Configs
        BY <1>21, <2>2, Items, Fields DEF MatchInv, OwnInv, Saving
    <2>5. /\ proc'[p].item = None /\ ~Saving(proc'[p]) /\ ~Keyed(proc'[p])
          /\ proc'[p].cmd = "none" /\ proc'[p].at = "idle"
        BY <1>21, <2>1, Defaults DEF Ends, Saving, Keyed
    <2>6. RivalOK'
        BY <1>21, <2>1, <2>5, RivalKept DEF Ends, MatchInv
    <2>7. OwnOK(p)'
        BY <1>21, <2>5 DEF OwnOK
    <2>8. OwnInv'
        BY <1>21, <2>1, <2>2, <2>7, OwnOthers DEF Ends, MatchInv
    <2>9. ASSUME NEW i \in Subjects, Settled(i)', i # x
          PROVE  /\ Settled(i)
                 /\ Agrees(i, proc[p].copy)
        <3>1. i \notin history.excused /\ i \notin proc[p].touched
            BY <1>21, <2>3, <2>9 DEF Settled
        <3>2. ASSUME NEW q \in Procs, proc[q].item = i PROVE ~Halfway(q)
            <4>1. q # p
                BY <1>21, <2>0, <2>9, <3>2
            <4>2. proc'[q].item = i /\ (Halfway(q)' <=> Halfway(q))
                BY <1>21, <2>1, <3>2, <4>1 DEF Ends, Aside, Halfway
            <4> QED
                BY <1>21, <2>9, <4>2 DEF Settled
        <3>3. Settled(i)
            BY <1>21, <3>1, <3>2 DEF Settled
        <3> QED
            BY <1>21, <2>4, <3>1, <3>3 DEF MatchInv, RestInv
    <2>10. ASSUME Settled(x)'
           PROVE  Agrees(x, proc[p].copy)
        <3>1. ~proc[p].rival
            BY <1>21, <2>3, <2>10 DEF Settled
        <3>2. CASE proc[p].cmd = "login"
            <4>1. Keyed(proc[p]) /\ x = LoginItem
                BY <1>21, <2>0, <2>2, <3>2, Items DEF Keyed
            <4> QED
                BY <1>21, <2>0, <2>2, <2>4, <3>1, <4>1 DEF OwnOK, Agrees
        <3>3. CASE proc[p].cmd \in {"host", "remove"}
            <4>1. x # LoginItem
                BY <1>21, <2>0, <3>3, Items, HostConfigAssumption
            <4> QED
                BY <1>21, <2>0, <2>2, <2>4, <3>1, <3>3, <4>1 DEF OwnOK, Agrees
        <3> QED
            BY <1>21, <2>2, <2>4, <3>2, <3>3 DEF StepOK
    <2>11. RestInv'
        <3> SUFFICES ASSUME NEW i \in Subjects, Settled(i)'
                     PROVE  /\ file'.whole => Agrees(i, file)'
                            /\ \A q \in Procs :
                                 Saving(proc'[q]) /\ i \notin proc'[q].touched =>
                                     Agrees(i, proc[q].copy)'
            BY <1>21 DEF RestInv
        <3>1. Agrees(i, proc[p].copy)
            BY <1>21, <2>9, <2>10
        <3>2. file'.whole => Agrees(i, file)'
            <4> SUFFICES ASSUME file'.whole PROVE Agrees(i, file)'
                OBVIOUS
            <4>1. file' = proc[p].copy
                BY <1>21, <2>2, Defaults
            <4> QED
                BY <1>21, <2>2, <3>1, <4>1 DEF Agrees
        <3>3. ASSUME NEW q \in Procs, Saving(proc'[q]), i \notin proc'[q].touched
              PROVE  Agrees(i, proc[q].copy)'
            <4>1. q # p
                BY <1>21, <2>5, <3>3
            <4>2. /\ Saving(proc[q]) /\ i \notin proc[q].touched
                  /\ proc'[q].copy = proc[q].copy
                BY <1>21, <2>1, <3>3, <4>1 DEF Ends, Aside, Saving
            <4>3. i # x
                BY <1>21, <2>1, <3>3, <4>1, <4>2
            <4>4. Agrees(i, proc[q].copy)
                BY <1>21, <2>9, <4>2, <4>3 DEF MatchInv, RestInv
            <4> QED
                BY <1>21, <2>2, <4>2, <4>4 DEF Agrees
        <3> QED
            BY <1>21, <3>2, <3>3
    <2> QED
        BY <1>21, <2>6, <2>8, <2>11 DEF MatchInv
<1>22. ASSUME NEW p \in Procs, Stop(p)
      PROVE  MatchInv'
    <2>1. Ends(p)
        BY <1>22, StopEnds
    <2>2. /\ file' = file /\ service' = service /\ credential' = credential
          /\ identity' = identity
        BY <1>22 DEF Stop, remoteVars
    <2>3. /\ history.excused \subseteq history'.excused
          /\ Halfway(p) => proc[p].item \in history'.excused
        <3>1. CASE Halfway(p)
            <4>1. history' = [history EXCEPT !.excused = history.excused \cup {proc[p].item}]
                BY <1>22, <3>1 DEF Stop
            <4> QED
                BY <1>22, <4>1, ExcusedOnly
        <3>2. CASE ~Halfway(p)
            BY <1>22, <3>2 DEF Stop
        <3> QED
            BY <1>22, <3>1, <3>2
    <2>4. /\ proc'[p].item = None /\ ~Saving(proc'[p]) /\ ~Keyed(proc'[p])
          /\ proc'[p].cmd = "none" /\ proc'[p].at = "idle"
        BY <1>22, <2>1, Defaults DEF Ends, Saving, Keyed
    <2>5. RivalOK'
        BY <1>22, <2>1, <2>4, RivalKept DEF Ends, MatchInv
    <2>6. OwnOK(p)'
        BY <1>22, <2>4 DEF OwnOK
    <2>7. OwnInv'
        BY <1>22, <2>1, <2>2, <2>6, OwnOthers DEF Ends, MatchInv
    <2>8. \A i \in Subjects : \A a \in Configs : Agrees(i, a) => Agrees(i, a)'
        BY <1>22, <2>2, AgreesStill
    <2>9. RestInv'
        BY <1>22, <1>0, <2>1, <2>2, <2>3, <2>4, <2>8, RestQuiet
            DEF Ends, MatchInv
    <2> QED
        BY <1>22, <2>5, <2>7, <2>9 DEF MatchInv
<1>23. ASSUME NEW c \in Credentials, CreateTicket(c)
      PROVE  MatchInv'
    <2>1. /\ credential' = [credential EXCEPT ![c].status = "ticket"]
          /\ identity' = identity /\ file' = file /\ proc' = proc /\ service' = service
        BY <1>23 DEF CreateTicket, Elsewhere, localVars
    <2>2. history'.excused = history.excused
        BY <1>23 DEF CreateTicket
    <2>3. \A d \in Credentials :
              /\ credential'[d].key = credential[d].key
              /\ credential'[d].status = "enrolled" => credential[d].status = "enrolled"
        <3>1. credential' = [credential EXCEPT ![c] =
                  [credential[c] EXCEPT !.status = "ticket"]]
            BY <1>23, <2>1
        <3> QED
            BY <1>23, <3>1 DEF TypeInv, TypeOK
    <2>4. RivalOK'
        BY <1>23, <2>1 DEF MatchInv, RivalOK
    <2>5. OwnInv'
        BY <1>23, <2>1, <2>3 DEF MatchInv, OwnInv, OwnOK
    <2>6. \A i \in Subjects : Settled(i)' => Settled(i)
        BY <1>23, <2>1, <2>2 DEF Settled, Halfway
    <2>7. /\ \A i \in Subjects : Agrees(i, file) => Agrees(i, file)'
          /\ \A i \in Subjects, q \in Procs :
               Agrees(i, proc[q].copy) => Agrees(i, proc[q].copy)'
        BY <1>23, <2>1, <2>3 DEF Agrees
    <2>8. RestInv'
        BY <1>23, <2>1, <2>6, <2>7 DEF MatchInv, RestInv
    <2> QED
        BY <1>23, <2>4, <2>5, <2>8 DEF MatchInv
<1>24. ASSUME NEW c \in Credentials, Revoke(c)
      PROVE  MatchInv'
    <2>1. /\ credential' = [credential EXCEPT ![c].status = "revoked"]
          /\ identity' = identity /\ file' = file /\ proc' = proc /\ service' = service
        BY <1>24 DEF Revoke, Elsewhere, localVars
    <2>2. history'.excused = history.excused
        <3>1. PICK b : history' = [history EXCEPT !.raced = b]
            BY <1>24 DEF Revoke
        <3> QED
            BY <1>24, <3>1 DEF TypeInv, TypeOK
    <2>3. \A d \in Credentials :
              /\ credential'[d].key = credential[d].key
              /\ credential'[d].status = "enrolled" => credential[d].status = "enrolled"
        <3>1. credential' = [credential EXCEPT ![c] =
                  [credential[c] EXCEPT !.status = "revoked"]]
            BY <1>24, <2>1
        <3> QED
            BY <1>24, <3>1 DEF TypeInv, TypeOK
    <2>4. RivalOK'
        BY <1>24, <2>1 DEF MatchInv, RivalOK
    <2>5. OwnInv'
        BY <1>24, <2>1, <2>3 DEF MatchInv, OwnInv, OwnOK
    <2>6. \A i \in Subjects : Settled(i)' => Settled(i)
        BY <1>24, <2>1, <2>2 DEF Settled, Halfway
    <2>7. /\ \A i \in Subjects : Agrees(i, file) => Agrees(i, file)'
          /\ \A i \in Subjects, q \in Procs :
               Agrees(i, proc[q].copy) => Agrees(i, proc[q].copy)'
        BY <1>24, <2>1, <2>3 DEF Agrees
    <2>8. RestInv'
        BY <1>24, <2>1, <2>6, <2>7 DEF MatchInv, RestInv
    <2> QED
        BY <1>24, <2>4, <2>5, <2>8 DEF MatchInv
<1>25. ASSUME NEW n \in Names, DeleteElsewhere(n)
      PROVE  MatchInv'
    <2>1. /\ credential' = credential /\ identity' = identity /\ file' = file
          /\ service' = [service EXCEPT ![n] = None]
          /\ history' = [history EXCEPT !.excused = history.excused \cup {n}]
        BY <1>25 DEF DeleteElsewhere, Elsewhere, localVars
    <2>2. history'.excused = history.excused \cup {n}
        BY <1>25, <2>1, ExcusedOnly
    <2>3. \A q \in Procs :
              /\ proc'[q].cmd = proc[q].cmd /\ proc'[q].at = proc[q].at
              /\ proc'[q].item = proc[q].item /\ proc'[q].id = proc[q].id
              /\ proc'[q].key = proc[q].key /\ proc'[q].copy = proc[q].copy
              /\ proc'[q].touched = proc[q].touched
              /\ proc[q].rival => proc'[q].rival
              /\ proc[q].item = n => proc'[q].rival
        BY <1>25, DeleteDisturbs
    <2>4. \A m \in Names : m # n => service'[m] = service[m]
        BY <1>25, <2>1 DEF TypeInv, TypeOK
    <2>5. RivalOK'
        BY <1>25, <2>3 DEF MatchInv, RivalOK
    <2>6. OwnInv'
        <3> SUFFICES ASSUME NEW q \in Procs, ~proc'[q].rival PROVE OwnOK(q)'
            BY <1>25 DEF OwnInv, OwnOK
        <3>1. ~proc[q].rival /\ proc[q].item # n /\ OwnOK(q) /\ StepOK(proc[q])
            BY <1>25, <2>3, Items DEF MatchInv, OwnInv
        <3>2. proc[q].cmd \in {"host", "remove"} => service'[proc[q].item] = service[proc[q].item]
            BY <1>25, <2>4, <3>1, Items
        <3>3. proc[q].at \in {"loading", "deleting"} => proc[q].cmd \in {"host", "remove"}
            BY <1>25, <3>1 DEF StepOK
        <3>4. Keyed(proc'[q]) <=> Keyed(proc[q])
            BY <1>25, <2>3 DEF Keyed
        <3>5. /\ Keyed(proc[q]) => identity = proc[q].key
              /\ Keyed(proc[q]) /\ proc[q].at # "enrolling" =>
                   \A c \in Credentials :
                       credential[c].status = "enrolled" /\ credential[c].key = proc[q].key
                           => c = proc[q].copy.cred
            BY <1>25, <3>1 DEF OwnOK
        <3>6. /\ proc[q].at \in {"loading", "deleting"} =>
                   service[proc[q].item] = proc[q].id
              /\ /\ proc[q].cmd \in {"host", "remove"}
                 /\ proc[q].at \in {"truncating", "writing"}
                 => proc[q].copy.services[proc[q].item] = service[proc[q].item]
            BY <1>25, <3>1 DEF OwnOK
        <3>7. /\ proc'[q].at \in {"loading", "deleting"} =>
                   service'[proc'[q].item] = proc'[q].id
              /\ /\ proc'[q].cmd \in {"host", "remove"}
                 /\ proc'[q].at \in {"truncating", "writing"}
                 => proc'[q].copy.services[proc'[q].item] = service'[proc'[q].item]
            BY <1>25, <2>3, <3>2, <3>3, <3>6
        <3>8. /\ Keyed(proc'[q]) => identity' = proc'[q].key
              /\ Keyed(proc'[q]) /\ proc'[q].at # "enrolling" =>
                   \A c \in Credentials :
                       credential'[c].status = "enrolled" /\ credential'[c].key = proc'[q].key
                           => c = proc'[q].copy.cred
            BY <1>25, <2>1, <2>3, <3>4, <3>5
        <3> QED
            BY <1>25, <3>7, <3>8 DEF OwnOK
    <2>7. \A i \in Subjects : Settled(i)' => Settled(i) /\ i # n
        BY <1>25, <2>2, <2>3 DEF Settled, Halfway
    <2>8. /\ \A i \in Subjects : i # n /\ Agrees(i, file) => Agrees(i, file)'
          /\ \A i \in Subjects, q \in Procs :
               i # n /\ Agrees(i, proc[q].copy) => Agrees(i, proc[q].copy)'
        BY <1>25, <2>1, <2>3, <2>4 DEF Agrees, Subjects
    <2>9. \A q \in Procs : Saving(proc'[q]) <=> Saving(proc[q])
        BY <1>25, <2>3 DEF Saving
    <2>10. RestInv'
        <3> SUFFICES ASSUME NEW i \in Subjects, Settled(i)'
                     PROVE  /\ file'.whole => Agrees(i, file)'
                            /\ \A q \in Procs :
                                 Saving(proc'[q]) /\ i \notin proc'[q].touched =>
                                     Agrees(i, proc[q].copy)'
            BY <1>25 DEF RestInv
        <3>1. /\ file.whole => Agrees(i, file)
              /\ \A q \in Procs :
                   Saving(proc[q]) /\ i \notin proc[q].touched => Agrees(i, proc[q].copy)
            BY <1>25, <2>7 DEF MatchInv, RestInv
        <3> QED
            BY <1>25, <2>1, <2>3, <2>7, <2>8, <2>9, <3>1
    <2> QED
        BY <1>25, <2>5, <2>6, <2>10 DEF MatchInv
<1>26. ASSUME RegisterElsewhere
      PROVE  MatchInv'
    <2>1. /\ credential' = credential /\ identity' = identity /\ file' = file
          /\ proc' = proc /\ history' = history /\ service' = service
        BY <1>26 DEF RegisterElsewhere, Elsewhere, localVars
    <2> QED
        BY <1>26, <2>1
            DEF MatchInv, RivalOK, OwnInv, OwnOK, RestInv, Settled, Halfway,
                Agrees
<1>27. ASSUME NEW k \in SigningKeys, RotateSigningKey(k)
      PROVE  MatchInv'
    <2>1. /\ credential' = credential /\ identity' = identity /\ file' = file
          /\ proc' = proc /\ history' = history /\ service' = service
        BY <1>27 DEF RotateSigningKey, Elsewhere, localVars
    <2> QED
        BY <1>27, <2>1
            DEF MatchInv, RivalOK, OwnInv, OwnOK, RestInv, Settled, Halfway,
                Agrees
<1>28. CASE UNCHANGED vars
    BY <1>28
        DEF MatchInv, RivalOK, OwnInv, OwnOK, RestInv, Settled, Halfway,
            Agrees, vars, remoteVars, localVars
<1> QED
    BY <1>1, <1>2, <1>3, <1>4, <1>5, <1>6, <1>7, <1>8, <1>9, <1>10, <1>11,
       <1>12, <1>13, <1>14, <1>15, <1>16, <1>17, <1>18, <1>19, <1>20, <1>21,
       <1>22, <1>23, <1>24, <1>25, <1>26, <1>27, <1>28
    DEF Next, Process, Outside, Identity

LEMMA MatchInit == Init => MatchInv
<1> SUFFICES ASSUME Init PROVE MatchInv
    OBVIOUS
<1> DEFINE k == Any(Keys)
           c == Any(Credentials)
<1>1. k \in Keys /\ c \in Credentials /\ k # None
    BY HostConfigAssumption DEF Any
<1>2. /\ service = NoServices
      /\ proc = [p \in Procs |-> Idle]
    BY DEF Init
<1>3. \/ /\ credential = [d \in Credentials |-> [status |-> "unused", key |-> None]]
         /\ file = Default
      \/ /\ credential = [d \in Credentials |->
                IF d = c THEN [status |-> "enrolled", key |-> k]
                ELSE [status |-> "unused", key |-> None]]
         /\ file = [Default EXCEPT !.cred = c, !.pinned = signingKey]
    BY DEF Init
<1> HIDE DEF k, c
<1>4. \A p \in Procs : /\ proc[p].cmd = "none" /\ proc[p].at = "idle"
                       /\ proc[p].item = None
    BY <1>2, Defaults
<1>5. RivalOK /\ OwnInv
    BY <1>4 DEF RivalOK, OwnInv, OwnOK, Keyed
<1>6. file.services = service
    BY <1>2, <1>3, Defaults DEF Configs
<1>7. \A d \in Credentials : credential[d].status = "enrolled" => file.cred = d
    <2>1. [Default EXCEPT !.cred = c, !.pinned = signingKey].cred = c
        BY Defaults DEF Configs
    <2>2. \A d \in Credentials :
            credential[d].status = "enrolled" =>
                d = c /\ file = [Default EXCEPT !.cred = c, !.pinned = signingKey]
        BY <1>1, <1>3
    <2> QED
        BY <2>1, <2>2
<1>8. \A i \in Subjects : Agrees(i, file)
    BY <1>6, <1>7 DEF Agrees
<1>9. RestInv
    BY <1>4, <1>8 DEF RestInv, Saving
<1> QED
    BY <1>5, <1>9 DEF MatchInv

LEMMA MatchAlways == Spec => [](TypeInv /\ KeyInv /\ MatchInv)
<1>1. Init => TypeInv /\ KeyInv /\ MatchInv
    BY TypeInit, KeyInit, MatchInit
<1>2. TypeInv /\ KeyInv /\ MatchInv /\ [Next]_vars => (TypeInv /\ KeyInv /\ MatchInv)'
    BY TypeStep, KeyStep, MatchStep
<1> QED
    BY <1>1, <1>2, PTL DEF Spec

LEMMA RestSettled ==
    ASSUME NEW i, AtRest(i)
    PROVE  Settled(i)
BY DEF AtRest, Settled

\* What config.json maps a name to is what the control plane knows by it,
\* whenever no command on that name is under way and the last one had it to
\* itself: `service host` posts and then saves, `service remove` deletes and
\* then saves, and no save of another command undoes it.
THEOREM LocalsMatch == Spec => []LocalMatchesRemote
<1>1. TypeInv /\ KeyInv /\ MatchInv => LocalMatchesRemote
    <2> SUFFICES ASSUME MatchInv, NEW n \in Names, AtRest(n)
                 PROVE  file.services[n] = service[n]
        BY DEF LocalMatchesRemote
    <2>1. Settled(n) /\ file.whole
        BY RestSettled DEF AtRest
    <2>2. n \in Subjects /\ n # LoginItem
        BY HostConfigAssumption DEF Subjects
    <2> QED
        BY <2>1, <2>2 DEF MatchInv, RestInv, Agrees
<1> QED
    BY MatchAlways, <1>1, PTL

\* The config holds the secret that was issued to this machine's key, whenever
\* no login is under way and the last one had the config to itself.
THEOREM SecretsAreHeld == Spec => []SecretIsHeld
<1>1. TypeInv /\ KeyInv /\ MatchInv => SecretIsHeld
    <2> SUFFICES ASSUME MatchInv, AtRest(LoginItem), NEW c \in Credentials,
                        credential[c].status = "enrolled", credential[c].key = identity
                 PROVE  file.cred = c
        BY DEF SecretIsHeld
    <2>1. Settled(LoginItem) /\ file.whole
        BY RestSettled DEF AtRest
    <2>2. Agrees(LoginItem, file)
        BY <2>1 DEF MatchInv, RestInv, Subjects
    <2> QED
        BY <2>2 DEF Agrees
<1> QED
    BY MatchAlways, <1>1, PTL

-----------------------------------------------------------------------------
(* The daemon that serves, and the clean bill of the doctor.               *)

\* Configs that are, or will be, in the file: all but those of the logins whose
\* ticket is not spent yet.
Carried == {file} \cup {proc[p].copy : p \in {q \in Procs : ~Unenrolled(proc[q])}}

\* A secret in a config was issued, and goes with one pinned key: the one that
\* the login fetched.
PinInv ==
    /\ \A a \in Carried :
         a.cred # None => credential[a.cred].status \in {"enrolled", "revoked"}
    /\ \A a, b \in Carried : a.cred # None /\ a.cred = b.cred => a.pinned = b.pinned

\* A daemon serves with the secret of its key, and as long as the registration
\* is its own, the secret is valid.
ServeOK(p) ==
    /\ proc[p].at \in {"registering", "serving"} =>
         credential[proc[p].copy.cred].key = proc[p].key
    /\ proc[p].at = "registering" /\ ~history.raced => Enrolled(proc[p].copy.cred)
    /\ proc[p].at = "serving" => registered \in {None, ForeignKey, proc[p].key}
    /\ proc[p].at = "serving" /\ registered = proc[p].key /\ ~history.raced =>
         Enrolled(proc[p].copy.cred)

ServeInv == PinInv /\ \A p \in Procs : ServeOK(p)

\* A config whose secret and pinned key are carried already.
Known(a) == a.cred = None \/ \E b \in Carried : a.cred = b.cred /\ a.pinned = b.pinned

LEMMA PinKept ==
    ASSUME TypeInv, TypeInv', PinInv, NEW p \in Procs, Aside(p),
           \A c \in Credentials : credential[c].status \in {"enrolled", "revoked"} =>
               credential'[c].status \in {"enrolled", "revoked"},
           \A f : f = file' => Known(f),
           Unenrolled(proc'[p]) \/ \A a : a = proc'[p].copy => Known(a)
    PROVE  PinInv'
<1>1. ASSUME NEW d \in Carried' PROVE Known(d)
    <2>1. CASE d = file'
        BY <2>1
    <2>2. CASE d # file'
        <3>1. PICK q \in Procs : ~Unenrolled(proc'[q]) /\ d = proc'[q].copy
            BY <1>1, <2>2 DEF Carried
        <3>2. CASE q = p
            BY <3>1, <3>2
        <3>3. CASE q # p
            <4>1. ~Unenrolled(proc[q]) /\ d = proc[q].copy
                BY <3>1, <3>3 DEF Aside, Unenrolled
            <4>2. d \in Carried
                BY <4>1 DEF Carried
            <4> QED
                BY <4>2 DEF Known
        <3> QED
            BY <3>2, <3>3
    <2> QED
        BY <2>1, <2>2
<1>2. \A b \in Carried : b.cred \in Credentials \cup {None}
    BY Fields, ConfigFields DEF Carried, TypeInv, TypeOK
<1>3. ASSUME NEW d \in Carried', d.cred # None
      PROVE  credential'[d.cred].status \in {"enrolled", "revoked"}
    <2>1. PICK b \in Carried : d.cred = b.cred
        BY <1>1, <1>3 DEF Known
    <2> QED
        BY <1>2, <1>3, <2>1 DEF PinInv
<1>4. ASSUME NEW d \in Carried', NEW e \in Carried', d.cred # None, d.cred = e.cred
      PROVE  d.pinned = e.pinned
    <2>1. PICK b \in Carried : d.cred = b.cred /\ d.pinned = b.pinned
        BY <1>1, <1>4 DEF Known
    <2>2. PICK g \in Carried : e.cred = g.cred /\ e.pinned = g.pinned
        BY <1>1, <1>4 DEF Known
    <2> QED
        BY <1>4, <2>1, <2>2 DEF PinInv
<1> QED
    BY <1>3, <1>4 DEF PinInv

LEMMA ServeOthers ==
    ASSUME TypeInv, ServeInv, NEW p \in Procs, Aside(p),
           registered' = registered, history'.raced <=> history.raced,
           \A c \in Credentials : credential[c].status # "ticket" =>
               credential'[c] = credential[c]
    PROVE  \A q \in Procs \ {p} : ServeOK(q)'
<1> SUFFICES ASSUME NEW q \in Procs \ {p} PROVE ServeOK(q)'
    OBVIOUS
<1>1. /\ proc'[q].at = proc[q].at /\ proc'[q].key = proc[q].key
      /\ proc'[q].copy = proc[q].copy
    BY DEF Aside
<1>2. ServeOK(q)
    BY DEF ServeInv
<1>3. CASE proc[q].at \in {"registering", "serving"}
    <2>1. proc[q].cmd = "daemon" /\ proc[q].copy.cred \in Credentials
        BY <1>3, Items DEF StepOK
    <2>2. proc[q].copy \in Carried
        BY <2>1 DEF Carried, Unenrolled
    <2>3. credential[proc[q].copy.cred].status # "ticket"
        BY <2>1, <2>2, HostConfigAssumption DEF ServeInv, PinInv
    <2>4. credential'[proc[q].copy.cred] = credential[proc[q].copy.cred]
        BY <2>1, <2>3
    <2> QED
        BY <1>1, <1>2, <2>4 DEF ServeOK, Enrolled
<1>4. CASE proc[q].at \notin {"registering", "serving"}
    BY <1>1, <1>4 DEF ServeOK
<1> QED
    BY <1>3, <1>4

\* A step of p that neither issues a secret nor registers.
LEMMA ServeQuiet ==
    ASSUME TypeInv, TypeInv', ServeInv, NEW p \in Procs, Aside(p),
           credential' = credential, registered' = registered,
           history'.raced <=> history.raced,
           \A f : f = file' => Known(f),
           Unenrolled(proc'[p]) \/ \A a : a = proc'[p].copy => Known(a),
           ServeOK(p)'
    PROVE  ServeInv'
<1>1. PinInv'
    BY PinKept DEF ServeInv
<1>2. \A q \in Procs \ {p} : ServeOK(q)'
    BY ServeOthers
<1> QED
    BY <1>1, <1>2 DEF ServeInv

\* Every step keeps the serving daemon and its registration in order.
LEMMA ServeStep ==
    ASSUME TypeInv, KeyInv, ServeInv, [Next]_vars
    PROVE  ServeInv'
<1>0. TypeInv'
    BY TypeStep
<1>1. ASSUME NEW p \in Procs, NEW n \in Names, HostStart(p, n)
      PROVE  ServeInv'
    <2>1. Begins(p, "host", "posting", n, file)
        BY <1>1, HostStartBegins
    <2>2. /\ file' = file /\ credential' = credential /\ registered' = registered
        BY <1>1 DEF HostStart, remoteVars, localVars
    <2>3. history'.raced <=> history.raced
        BY <1>1 DEF HostStart
    <2>4. file \in Carried
        BY <1>1 DEF Carried
    <2>5. \A f : f = file' => Known(f)
        BY <1>1, <2>2, <2>4 DEF Known
    <2>6. Unenrolled(proc'[p]) \/ \A a : a = proc'[p].copy => Known(a)
        BY <1>1, <2>1, <2>4 DEF Begins, Known
    <2>7. ServeOK(p)'
        BY <1>1, <2>1 DEF HostStart, Begins, ServeOK
    <2> QED
        BY <1>1, <1>0, <2>1, <2>2, <2>3, <2>5, <2>6, <2>7, ServeQuiet
            DEF Begins
<1>2. ASSUME NEW p \in Procs, NEW n \in Names, RemoveStart(p, n)
      PROVE  ServeInv'
    <2>1. Begins(p, "remove", "listing", n, file)
        BY <1>2, RemoveStartBegins
    <2>2. /\ file' = file /\ credential' = credential /\ registered' = registered
        BY <1>2 DEF RemoveStart, remoteVars, localVars
    <2>3. history'.raced <=> history.raced
        BY <1>2 DEF RemoveStart
    <2>4. file \in Carried
        BY <1>2 DEF Carried
    <2>5. \A f : f = file' => Known(f)
        BY <1>2, <2>2, <2>4 DEF Known
    <2>6. Unenrolled(proc'[p]) \/ \A a : a = proc'[p].copy => Known(a)
        BY <1>2, <2>1, <2>4 DEF Begins, Known
    <2>7. ServeOK(p)'
        BY <1>2, <2>1 DEF RemoveStart, Begins, ServeOK
    <2> QED
        BY <1>2, <1>0, <2>1, <2>2, <2>3, <2>5, <2>6, <2>7, ServeQuiet
            DEF Begins
<1>3. ASSUME NEW p \in Procs, NEW c \in Credentials, LoginStart(p, c)
      PROVE  ServeInv'
    <2>1. Begins(p, "login", "identity", LoginItem,
                        [Default EXCEPT !.cred = c, !.pinned = signingKey])
        BY <1>3, LoginStartBegins
    <2>2. /\ file' = file /\ credential' = credential /\ registered' = registered
        BY <1>3 DEF LoginStart, remoteVars, localVars
    <2>3. history'.raced <=> history.raced
        BY <1>3 DEF LoginStart
    <2>4. file \in Carried
        BY <1>3 DEF Carried
    <2>5. \A f : f = file' => Known(f)
        BY <1>3, <2>2, <2>4 DEF Known
    <2>6. Unenrolled(proc'[p]) \/ \A a : a = proc'[p].copy => Known(a)
        BY <1>3, <2>1 DEF Begins, Unenrolled
    <2>7. ServeOK(p)'
        BY <1>3, <2>1 DEF LoginStart, Begins, ServeOK
    <2> QED
        BY <1>3, <1>0, <2>1, <2>2, <2>3, <2>5, <2>6, <2>7, ServeQuiet
            DEF Begins
<1>4. ASSUME NEW p \in Procs, DaemonStart(p)
      PROVE  ServeInv'
    <2>1. Begins(p, "daemon", "locking", None, file)
        BY <1>4, DaemonStartBegins
    <2>2. /\ file' = file /\ credential' = credential /\ registered' = registered
        BY <1>4 DEF DaemonStart, remoteVars, localVars
    <2>3. history'.raced <=> history.raced
        BY <1>4 DEF DaemonStart
    <2>4. file \in Carried
        BY <1>4 DEF Carried
    <2>5. \A f : f = file' => Known(f)
        BY <1>4, <2>2, <2>4 DEF Known
    <2>6. Unenrolled(proc'[p]) \/ \A a : a = proc'[p].copy => Known(a)
        BY <1>4, <2>1, <2>4 DEF Begins, Known
    <2>7. ServeOK(p)'
        BY <1>4, <2>1 DEF DaemonStart, Begins, ServeOK
    <2> QED
        BY <1>4, <1>0, <2>1, <2>2, <2>3, <2>5, <2>6, <2>7, ServeQuiet
            DEF Begins
<1>5. ASSUME NEW p \in Procs, ProbeStart(p)
      PROVE  ServeInv'
    <2>1. Begins(p, "probe", "probing", None, Default)
        BY <1>5, ProbeStartBegins
    <2>2. /\ file' = file /\ credential' = credential /\ registered' = registered
        BY <1>5 DEF ProbeStart, remoteVars, localVars
    <2>3. history'.raced <=> history.raced
        BY <1>5 DEF ProbeStart
    <2>4. file \in Carried
        BY <1>5 DEF Carried
    <2>5. \A f : f = file' => Known(f)
        BY <1>5, <2>2, <2>4 DEF Known
    <2>6. Unenrolled(proc'[p]) \/ \A a : a = proc'[p].copy => Known(a)
        BY <1>5, <2>1, Defaults DEF Begins, Known
    <2>7. ServeOK(p)'
        BY <1>5, <2>1 DEF ProbeStart, Begins, ServeOK
    <2> QED
        BY <1>5, <1>0, <2>1, <2>2, <2>3, <2>5, <2>6, <2>7, ServeQuiet
            DEF Begins
<1>6. ASSUME NEW p \in Procs, HostPost(p)
      PROVE  ServeInv'
    <2>1. \E i \in Ids : Moves(p, "loading", i, proc[p].key, proc[p].copy)
        BY <1>6, HostPostMoves
    <2>2. /\ file' = file /\ credential' = credential /\ registered' = registered
        BY <1>6 DEF HostPost, remoteVars, localVars
    <2>3. history'.raced <=> history.raced
        BY <1>6 DEF HostPost
    <2>4. file \in Carried
        BY <1>6 DEF Carried
    <2>5. \A f : f = file' => Known(f)
        BY <1>6, <2>2, <2>4 DEF Known
    <2>6. Unenrolled(proc'[p]) \/ \A a : a = proc'[p].copy => Known(a)
        <3>1. Unenrolled(proc'[p]) \/ ~Unenrolled(proc[p])
            BY <1>6, <2>1, Items
                DEF HostPost, Moves, Unenrolled, StepOK, AfterIdentity
        <3>2. ~Unenrolled(proc[p]) => proc[p].copy \in Carried
            BY <1>6 DEF Carried
        <3>3. proc'[p].copy = proc[p].copy
            BY <1>6, <2>1 DEF Moves
        <3> QED
            BY <1>6, <3>1, <3>2, <3>3 DEF Known
    <2>7. ServeOK(p)'
        BY <1>6, <2>1 DEF HostPost, Moves, ServeOK
    <2> QED
        BY <1>6, <1>0, <2>1, <2>2, <2>3, <2>5, <2>6, <2>7, ServeQuiet DEF Moves
<1>7. ASSUME NEW p \in Procs, HostLoad(p)
      PROVE  ServeInv'
    <2>1. Moves(p, "truncating", proc[p].id, proc[p].key, Mapped(file, proc[p].item, proc[p].id))
        BY <1>7, HostLoadMoves
    <2>2. /\ file' = file /\ credential' = credential /\ registered' = registered
        BY <1>7 DEF HostLoad, remoteVars, localVars
    <2>3. history'.raced <=> history.raced
        BY <1>7 DEF HostLoad
    <2>4. file \in Carried
        BY <1>7 DEF Carried
    <2>a. /\ Mapped(file, proc[p].item, proc[p].id).cred = file.cred
          /\ Mapped(file, proc[p].item, proc[p].id).pinned = file.pinned
        <3>1. file \in Configs /\ proc[p].item \in Names /\ proc[p].id \in Ids \cup {None}
            BY <1>7, Fields, Items DEF HostLoad, TypeInv, TypeOK
        <3> QED
            BY <1>7, <3>1, MappedConfig
    <2>5. \A f : f = file' => Known(f)
        BY <1>7, <2>2, <2>4 DEF Known
    <2>6. Unenrolled(proc'[p]) \/ \A a : a = proc'[p].copy => Known(a)
        BY <1>7, <2>1, <2>4, <2>a DEF Moves, Known
    <2>7. ServeOK(p)'
        BY <1>7, <2>1 DEF HostLoad, Moves, ServeOK
    <2> QED
        BY <1>7, <1>0, <2>1, <2>2, <2>3, <2>5, <2>6, <2>7, ServeQuiet DEF Moves
<1>8. ASSUME NEW p \in Procs, RemoveList(p)
      PROVE  ServeInv'
    <2>1. Moves(p, "deleting", service[proc[p].item], proc[p].key, proc[p].copy)
        BY <1>8, RemoveListMoves
    <2>2. /\ file' = file /\ credential' = credential /\ registered' = registered
        BY <1>8 DEF RemoveList, remoteVars, localVars
    <2>3. history'.raced <=> history.raced
        BY <1>8 DEF RemoveList
    <2>4. file \in Carried
        BY <1>8 DEF Carried
    <2>5. \A f : f = file' => Known(f)
        BY <1>8, <2>2, <2>4 DEF Known
    <2>6. Unenrolled(proc'[p]) \/ \A a : a = proc'[p].copy => Known(a)
        <3>1. Unenrolled(proc'[p]) \/ ~Unenrolled(proc[p])
            BY <1>8, <2>1, Items
                DEF RemoveList, Moves, Unenrolled, StepOK, AfterIdentity
        <3>2. ~Unenrolled(proc[p]) => proc[p].copy \in Carried
            BY <1>8 DEF Carried
        <3>3. proc'[p].copy = proc[p].copy
            BY <1>8, <2>1 DEF Moves
        <3> QED
            BY <1>8, <3>1, <3>2, <3>3 DEF Known
    <2>7. ServeOK(p)'
        BY <1>8, <2>1 DEF RemoveList, Moves, ServeOK
    <2> QED
        BY <1>8, <1>0, <2>1, <2>2, <2>3, <2>5, <2>6, <2>7, ServeQuiet DEF Moves
<1>9. ASSUME NEW p \in Procs, RemoveDelete(p)
      PROVE  ServeInv'
    <2>1. Moves(p, "truncating", proc[p].id, proc[p].key, Mapped(proc[p].copy, proc[p].item, None))
        BY <1>9, RemoveDeleteMoves
    <2>2. /\ file' = file /\ credential' = credential /\ registered' = registered
        BY <1>9 DEF RemoveDelete, remoteVars, localVars
    <2>3. history'.raced <=> history.raced
        BY <1>9 DEF RemoveDelete
    <2>4. file \in Carried
        BY <1>9 DEF Carried
    <2>a. /\ Mapped(proc[p].copy, proc[p].item, None).cred = proc[p].copy.cred
          /\ Mapped(proc[p].copy, proc[p].item, None).pinned = proc[p].copy.pinned
        <3>1. proc[p].copy \in Configs /\ proc[p].item \in Names /\ None \in Ids \cup {None}
            BY <1>9, Fields, Items DEF RemoveDelete, TypeInv, TypeOK
        <3> QED
            BY <1>9, <3>1, MappedConfig
    <2>5. \A f : f = file' => Known(f)
        BY <1>9, <2>2, <2>4 DEF Known
    <2>6. Unenrolled(proc'[p]) \/ \A a : a = proc'[p].copy => Known(a)
        <3>1. proc[p].copy \in Carried
            BY <1>9 DEF RemoveDelete, Carried, Unenrolled
        <3> QED
            BY <1>9, <2>1, <2>a, <3>1 DEF Moves, Known
    <2>7. ServeOK(p)'
        BY <1>9, <2>1 DEF RemoveDelete, Moves, ServeOK
    <2> QED
        BY <1>9, <1>0, <2>1, <2>2, <2>3, <2>5, <2>6, <2>7, ServeQuiet DEF Moves
<1>10. ASSUME NEW p \in Procs, ReadIdentity(p)
      PROVE  ServeInv'
    <2>1. Moves(p, AfterIdentity(p), proc[p].id, identity, proc[p].copy)
        BY <1>10, ReadIdentityMoves
    <2>2. /\ file' = file /\ credential' = credential /\ registered' = registered
        BY <1>10 DEF ReadIdentity, remoteVars, localVars
    <2>3. history'.raced <=> history.raced
        BY <1>10 DEF ReadIdentity
    <2>4. file \in Carried
        BY <1>10 DEF Carried
    <2>5. \A f : f = file' => Known(f)
        BY <1>10, <2>2, <2>4 DEF Known
    <2>6. Unenrolled(proc'[p]) \/ \A a : a = proc'[p].copy => Known(a)
        <3>1. Unenrolled(proc'[p]) \/ ~Unenrolled(proc[p])
            BY <1>10, <2>1, Items
                DEF ReadIdentity, Moves, Unenrolled, StepOK, AfterIdentity
        <3>2. ~Unenrolled(proc[p]) => proc[p].copy \in Carried
            BY <1>10 DEF Carried
        <3>3. proc'[p].copy = proc[p].copy
            BY <1>10, <2>1 DEF Moves
        <3> QED
            BY <1>10, <3>1, <3>2, <3>3 DEF Known
    <2>7. ServeOK(p)'
        BY <1>10, <2>1 DEF ReadIdentity, Moves, ServeOK, AfterIdentity
    <2> QED
        BY <1>10, <1>0, <2>1, <2>2, <2>3, <2>5, <2>6, <2>7, ServeQuiet
            DEF Moves
<1>11. ASSUME NEW p \in Procs, GenerateIdentity(p)
      PROVE  ServeInv'
    <2>1. \E k \in FreshKeys : Moves(p, "generated", proc[p].id, k, proc[p].copy)
        BY <1>11, GenerateIdentityMoves
    <2>2. /\ file' = file /\ credential' = credential /\ registered' = registered
        BY <1>11 DEF GenerateIdentity, remoteVars, localVars
    <2>3. history'.raced <=> history.raced
        <3>1. PICK b : history' = [history EXCEPT !.forked = b]
            BY <1>11 DEF GenerateIdentity
        <3> QED
            BY <1>11, <3>1 DEF TypeInv, TypeOK
    <2>4. file \in Carried
        BY <1>11 DEF Carried
    <2>5. \A f : f = file' => Known(f)
        BY <1>11, <2>2, <2>4 DEF Known
    <2>6. Unenrolled(proc'[p]) \/ \A a : a = proc'[p].copy => Known(a)
        <3>1. Unenrolled(proc'[p]) \/ ~Unenrolled(proc[p])
            BY <1>11, <2>1, Items
                DEF GenerateIdentity, Moves, Unenrolled, StepOK, AfterIdentity
        <3>2. ~Unenrolled(proc[p]) => proc[p].copy \in Carried
            BY <1>11 DEF Carried
        <3>3. proc'[p].copy = proc[p].copy
            BY <1>11, <2>1 DEF Moves
        <3> QED
            BY <1>11, <3>1, <3>2, <3>3 DEF Known
    <2>7. ServeOK(p)'
        BY <1>11, <2>1 DEF GenerateIdentity, Moves, ServeOK, AfterIdentity
    <2> QED
        BY <1>11, <1>0, <2>1, <2>2, <2>3, <2>5, <2>6, <2>7, ServeQuiet
            DEF Moves
<1>12. ASSUME NEW p \in Procs, TruncateIdentity(p)
      PROVE  ServeInv'
    <2>1. Moves(p, "keying", proc[p].id, proc[p].key, proc[p].copy)
        BY <1>12, TruncateIdentityMoves
    <2>2. /\ file' = file /\ credential' = credential /\ registered' = registered
        BY <1>12 DEF TruncateIdentity, remoteVars, localVars
    <2>3. history'.raced <=> history.raced
        BY <1>12 DEF TruncateIdentity
    <2>4. file \in Carried
        BY <1>12 DEF Carried
    <2>5. \A f : f = file' => Known(f)
        BY <1>12, <2>2, <2>4 DEF Known
    <2>6. Unenrolled(proc'[p]) \/ \A a : a = proc'[p].copy => Known(a)
        <3>1. Unenrolled(proc'[p]) \/ ~Unenrolled(proc[p])
            BY <1>12, <2>1, Items
                DEF TruncateIdentity, Moves, Unenrolled, StepOK, AfterIdentity
        <3>2. ~Unenrolled(proc[p]) => proc[p].copy \in Carried
            BY <1>12 DEF Carried
        <3>3. proc'[p].copy = proc[p].copy
            BY <1>12, <2>1 DEF Moves
        <3> QED
            BY <1>12, <3>1, <3>2, <3>3 DEF Known
    <2>7. ServeOK(p)'
        BY <1>12, <2>1 DEF TruncateIdentity, Moves, ServeOK, AfterIdentity
    <2> QED
        BY <1>12, <1>0, <2>1, <2>2, <2>3, <2>5, <2>6, <2>7, ServeQuiet
            DEF Moves
<1>13. ASSUME NEW p \in Procs, WriteIdentity(p)
      PROVE  ServeInv'
    <2>1. Moves(p, AfterIdentity(p), proc[p].id, proc[p].key, proc[p].copy)
        BY <1>13, WriteIdentityMoves
    <2>2. /\ file' = file /\ credential' = credential /\ registered' = registered
        BY <1>13 DEF WriteIdentity, remoteVars, localVars
    <2>3. history'.raced <=> history.raced
        BY <1>13 DEF WriteIdentity
    <2>4. file \in Carried
        BY <1>13 DEF Carried
    <2>5. \A f : f = file' => Known(f)
        BY <1>13, <2>2, <2>4 DEF Known
    <2>6. Unenrolled(proc'[p]) \/ \A a : a = proc'[p].copy => Known(a)
        <3>1. Unenrolled(proc'[p]) \/ ~Unenrolled(proc[p])
            BY <1>13, <2>1, Items
                DEF WriteIdentity, Moves, Unenrolled, StepOK, AfterIdentity
        <3>2. ~Unenrolled(proc[p]) => proc[p].copy \in Carried
            BY <1>13 DEF Carried
        <3>3. proc'[p].copy = proc[p].copy
            BY <1>13, <2>1 DEF Moves
        <3> QED
            BY <1>13, <3>1, <3>2, <3>3 DEF Known
    <2>7. ServeOK(p)'
        BY <1>13, <2>1 DEF WriteIdentity, Moves, ServeOK, AfterIdentity
    <2> QED
        BY <1>13, <1>0, <2>1, <2>2, <2>3, <2>5, <2>6, <2>7, ServeQuiet
            DEF Moves
<1>14. ASSUME NEW p \in Procs, LoginEnroll(p)
      PROVE  ServeInv'
    <2>0. PICK c \in Credentials : c = proc[p].copy.cred
        BY <1>14, Items DEF LoginEnroll, StepOK
    <2>1. Moves(p, "confirming", proc[p].id, proc[p].key, proc[p].copy)
        BY <1>14, LoginEnrollMoves
    <2>2. /\ proc[p].cmd = "login" /\ proc[p].at = "enrolling"
          /\ credential[c].status = "ticket"
          /\ credential' = [credential EXCEPT ![c] =
                 [status |-> "enrolled", key |-> proc[p].key]]
          /\ file' = file /\ history' = history /\ registered' = registered
        BY <1>14, <2>0 DEF LoginEnroll, localVars
    <2>3. /\ credential'[c].status = "enrolled"
          /\ \A d \in Credentials : d # c => credential'[d] = credential[d]
        BY <1>14, <2>2 DEF TypeInv, TypeOK
    <2>4. /\ Aside(p) /\ proc'[p].cmd = "login" /\ proc'[p].at = "confirming"
          /\ proc'[p].copy = proc[p].copy
        BY <1>14, <2>1, <2>2 DEF Moves
    <2>5. \A b \in Carried : b.cred # c /\ b.cred \in Credentials \cup {None}
        <3>1. \A b \in Carried : b.cred \in Credentials \cup {None}
            BY <1>14, Fields, ConfigFields DEF Carried, TypeInv, TypeOK
        <3> QED
            BY <1>14, <2>2, <3>1, HostConfigAssumption DEF ServeInv, PinInv
    <2>6. ASSUME NEW b \in Carried' PROVE b \in Carried \/ b = proc[p].copy
        <3>1. CASE b = file'
            BY <1>14, <2>2, <3>1 DEF Carried
        <3>2. CASE b # file'
            <4>1. PICK q \in Procs : ~Unenrolled(proc'[q]) /\ b = proc'[q].copy
                BY <1>14, <2>6, <3>2 DEF Carried
            <4>2. CASE q = p
                BY <1>14, <2>4, <4>1, <4>2
            <4>3. CASE q # p
                <5>1. ~Unenrolled(proc[q]) /\ b = proc[q].copy
                    BY <1>14, <2>4, <4>1, <4>3 DEF Aside, Unenrolled
                <5> QED
                    BY <1>14, <5>1 DEF Carried
            <4> QED
                BY <1>14, <4>2, <4>3
        <3> QED
            BY <1>14, <3>1, <3>2
    <2>7. ASSUME NEW b \in Carried', b.cred # None
          PROVE  credential'[b.cred].status \in {"enrolled", "revoked"}
        BY <1>14, <2>0, <2>3, <2>5, <2>6, <2>7 DEF ServeInv, PinInv
    <2>8. ASSUME NEW b \in Carried', NEW d \in Carried', b.cred # None, b.cred = d.cred
          PROVE  b.pinned = d.pinned
        BY <1>14, <2>0, <2>5, <2>6, <2>8 DEF ServeInv, PinInv
    <2>9. PinInv'
        BY <1>14, <2>7, <2>8 DEF PinInv
    <2>10. ServeOK(p)'
        BY <1>14, <2>4 DEF ServeOK
    <2>11. \A d \in Credentials : credential[d].status # "ticket" =>
              credential'[d] = credential[d]
        BY <1>14, <2>2, <2>3
    <2> QED
        BY <1>14, <2>2, <2>4, <2>9, <2>10, <2>11, ServeOthers DEF ServeInv
<1>15. ASSUME NEW p \in Procs, LoginConfirm(p)
      PROVE  ServeInv'
    <2>1. Moves(p, "truncating", proc[p].id, proc[p].key, [file EXCEPT !.cred = proc[p].copy.cred,
                                  !.pinned = proc[p].copy.pinned])
        BY <1>15, LoginConfirmMoves
    <2>2. /\ file' = file /\ credential' = credential /\ registered' = registered
        BY <1>15 DEF LoginConfirm, remoteVars, localVars
    <2>3. history'.raced <=> history.raced
        BY <1>15 DEF LoginConfirm
    <2>4. file \in Carried
        BY <1>15 DEF Carried
    <2>a. /\ [file EXCEPT !.cred = proc[p].copy.cred, !.pinned = proc[p].copy.pinned].cred
                 = proc[p].copy.cred
          /\ [file EXCEPT !.cred = proc[p].copy.cred, !.pinned = proc[p].copy.pinned].pinned
                 = proc[p].copy.pinned
        <3>1. proc[p].copy \in Configs /\ file \in Configs
            BY <1>15, Fields DEF TypeInv, TypeOK
        <3> QED
            BY <1>15, <3>1, EditedConfig
    <2>5. \A f : f = file' => Known(f)
        BY <1>15, <2>2, <2>4 DEF Known
    <2>6. Unenrolled(proc'[p]) \/ \A a : a = proc'[p].copy => Known(a)
        <3>1. proc[p].copy \in Carried
            BY <1>15, Items DEF LoginConfirm, Carried, Unenrolled, StepOK
        <3>2. /\ proc'[p].copy.cred = proc[p].copy.cred
              /\ proc'[p].copy.pinned = proc[p].copy.pinned
            BY <2>1, <2>a DEF Moves
        <3> QED
            BY <3>1, <3>2 DEF Known
    <2>7. ServeOK(p)'
        BY <1>15, <2>1 DEF LoginConfirm, Moves, ServeOK
    <2> QED
        BY <1>15, <1>0, <2>1, <2>2, <2>3, <2>5, <2>6, <2>7, ServeQuiet
            DEF Moves
<1>16. ASSUME NEW p \in Procs, DaemonLock(p)
      PROVE  ServeInv'
    <2>1. Moves(p, "identity", proc[p].id, proc[p].key, proc[p].copy)
        BY <1>16, DaemonLockMoves
    <2>2. /\ file' = file /\ credential' = credential /\ registered' = registered
        BY <1>16 DEF DaemonLock, remoteVars, localVars
    <2>3. history'.raced <=> history.raced
        BY <1>16 DEF DaemonLock
    <2>4. file \in Carried
        BY <1>16 DEF Carried
    <2>5. \A f : f = file' => Known(f)
        BY <1>16, <2>2, <2>4 DEF Known
    <2>6. Unenrolled(proc'[p]) \/ \A a : a = proc'[p].copy => Known(a)
        <3>1. Unenrolled(proc'[p]) \/ ~Unenrolled(proc[p])
            BY <1>16, <2>1, Items
                DEF DaemonLock, Moves, Unenrolled, StepOK, AfterIdentity
        <3>2. ~Unenrolled(proc[p]) => proc[p].copy \in Carried
            BY <1>16 DEF Carried
        <3>3. proc'[p].copy = proc[p].copy
            BY <1>16, <2>1 DEF Moves
        <3> QED
            BY <1>16, <3>1, <3>2, <3>3 DEF Known
    <2>7. ServeOK(p)'
        BY <1>16, <2>1 DEF DaemonLock, Moves, ServeOK
    <2> QED
        BY <1>16, <1>0, <2>1, <2>2, <2>3, <2>5, <2>6, <2>7, ServeQuiet
            DEF Moves
<1>17. ASSUME NEW p \in Procs, DaemonProve(p)
      PROVE  ServeInv'
    <2>1. Moves(p, "registering", proc[p].id, proc[p].key, proc[p].copy)
        BY <1>17, DaemonProveMoves
    <2>2. /\ file' = file /\ credential' = credential /\ registered' = registered
        BY <1>17 DEF DaemonProve, remoteVars, localVars
    <2>3. history'.raced <=> history.raced
        BY <1>17 DEF DaemonProve
    <2>4. file \in Carried
        BY <1>17 DEF Carried
    <2>5. \A f : f = file' => Known(f)
        BY <1>17, <2>2, <2>4 DEF Known
    <2>6. Unenrolled(proc'[p]) \/ \A a : a = proc'[p].copy => Known(a)
        <3>1. Unenrolled(proc'[p]) \/ ~Unenrolled(proc[p])
            BY <1>17, <2>1, Items
                DEF DaemonProve, Moves, Unenrolled, StepOK, AfterIdentity
        <3>2. ~Unenrolled(proc[p]) => proc[p].copy \in Carried
            BY <1>17 DEF Carried
        <3>3. proc'[p].copy = proc[p].copy
            BY <1>17, <2>1 DEF Moves
        <3> QED
            BY <1>17, <3>1, <3>2, <3>3 DEF Known
    <2>7. ServeOK(p)'
        <3>1. /\ Enrolled(proc[p].copy.cred)
              /\ credential[proc[p].copy.cred].key = proc[p].key
            BY <1>17 DEF DaemonProve
        <3> QED
            BY <1>17, <2>1, <2>2, <3>1 DEF Moves, ServeOK, Enrolled
    <2> QED
        BY <1>17, <1>0, <2>1, <2>2, <2>3, <2>5, <2>6, <2>7, ServeQuiet
            DEF Moves
<1>18. ASSUME NEW p \in Procs, DaemonRegister(p)
      PROVE  ServeInv'
    <2>1. Moves(p, "serving", proc[p].id, proc[p].key, proc[p].copy)
        BY <1>18, DaemonRegisterMoves
    <2>2. /\ proc[p].cmd = "daemon" /\ proc[p].at = "registering"
          /\ registered' = proc[p].key
          /\ file' = file /\ credential' = credential /\ history' = history
        BY <1>18 DEF DaemonRegister, localVars
    <2>3. /\ Aside(p) /\ proc'[p].at = "serving" /\ proc'[p].key = proc[p].key
          /\ proc'[p].copy = proc[p].copy
        BY <1>18, <2>1 DEF Moves
    <2>4. file \in Carried /\ proc[p].copy \in Carried
        BY <1>18, <2>2 DEF Carried, Unenrolled
    <2>7. \A a : a \in {file', proc'[p].copy} => Known(a)
        BY <1>18, <2>2, <2>3, <2>4 DEF Known
    <2>8. PinInv'
        BY <1>18, <1>0, <2>2, <2>3, <2>7, PinKept DEF ServeInv
    <2>9. ServeOK(p)'
        <3>1. ServeOK(p)
            BY <1>18 DEF ServeInv
        <3> QED
            BY <1>18, <2>2, <2>3, <3>1 DEF ServeOK, Enrolled
    <2>10. ASSUME NEW q \in Procs, q # p PROVE ServeOK(q)'
        <3>1. lock = p
            BY <1>18, <2>2 DEF TypeInv, LockInv, Holder
        <3>2. proc'[q].at = proc[q].at
            BY <1>18, <2>3, <2>10 DEF Aside
        <3>3. proc[q].at \notin {"registering", "serving"}
            <4>1. proc[q].at \in {"registering", "serving"} => Holder(proc[q])
                BY <1>18, Items DEF StepOK, Holder
            <4> QED
                BY <1>18, <2>10, <3>1, <4>1 DEF TypeInv, LockInv
        <3> QED
            BY <1>18, <3>2, <3>3 DEF ServeOK
    <2> QED
        BY <1>18, <2>8, <2>9, <2>10 DEF ServeInv
<1>19. ASSUME NEW p \in Procs, Reload(p)
      PROVE  ServeInv'
    <2>1. Moves(p, "serving", proc[p].id, proc[p].key, [proc[p].copy EXCEPT !.services = file.services])
        BY <1>19, ReloadMoves
    <2>2. /\ file' = file /\ credential' = credential /\ registered' = registered
        BY <1>19 DEF Reload, remoteVars, localVars
    <2>3. history'.raced <=> history.raced
        BY <1>19 DEF Reload
    <2>4. file \in Carried
        BY <1>19 DEF Carried
    <2>a. /\ [proc[p].copy EXCEPT !.services = file.services].cred
                 = proc[p].copy.cred
          /\ [proc[p].copy EXCEPT !.services = file.services].pinned
                 = proc[p].copy.pinned
        <3>1. proc[p].copy \in Configs /\ file \in Configs
            BY <1>19, Fields DEF TypeInv, TypeOK
        <3> QED
            BY <1>19, <3>1, EditedConfig
    <2>5. \A f : f = file' => Known(f)
        BY <1>19, <2>2, <2>4 DEF Known
    <2>6. Unenrolled(proc'[p]) \/ \A a : a = proc'[p].copy => Known(a)
        <3>1. proc[p].copy \in Carried
            BY <1>19, Items DEF Reload, Carried, Unenrolled, StepOK
        <3>2. /\ proc'[p].copy.cred = proc[p].copy.cred
              /\ proc'[p].copy.pinned = proc[p].copy.pinned
            BY <2>1, <2>a DEF Moves
        <3> QED
            BY <3>1, <3>2 DEF Known
    <2>7. ServeOK(p)'
        <3>1. ServeOK(p) /\ proc[p].at = "serving"
            BY <1>19 DEF ServeInv, Reload
        <3> QED
            BY <1>19, <2>1, <2>2, <2>3, <2>a, <3>1 DEF Moves, ServeOK, Enrolled
    <2> QED
        BY <1>19, <1>0, <2>1, <2>2, <2>3, <2>5, <2>6, <2>7, ServeQuiet
            DEF Moves
<1>20. ASSUME NEW p \in Procs, Truncate(p)
      PROVE  ServeInv'
    <2>1. Moves(p, "writing", proc[p].id, proc[p].key, proc[p].copy)
        BY <1>20, TruncateMoves
    <2>2. /\ file' = Torn /\ credential' = credential /\ registered' = registered
        BY <1>20 DEF Truncate, remoteVars, localVars
    <2>3. history'.raced <=> history.raced
        BY <1>20 DEF Truncate
    <2>4. file \in Carried
        BY <1>20 DEF Carried
    <2>5. \A f : f = file' => Known(f)
        BY <1>20, <2>2, Defaults DEF Known
    <2>6. Unenrolled(proc'[p]) \/ \A a : a = proc'[p].copy => Known(a)
        <3>1. Unenrolled(proc'[p]) \/ ~Unenrolled(proc[p])
            BY <1>20, <2>1, Items
                DEF Truncate, Moves, Unenrolled, StepOK, AfterIdentity
        <3>2. ~Unenrolled(proc[p]) => proc[p].copy \in Carried
            BY <1>20 DEF Carried
        <3>3. proc'[p].copy = proc[p].copy
            BY <1>20, <2>1 DEF Moves
        <3> QED
            BY <1>20, <3>1, <3>2, <3>3 DEF Known
    <2>7. ServeOK(p)'
        BY <1>20, <2>1 DEF Truncate, Moves, ServeOK
    <2> QED
        BY <1>20, <1>0, <2>1, <2>2, <2>3, <2>5, <2>6, <2>7, ServeQuiet
            DEF Moves
<1>21. ASSUME NEW p \in Procs, Write(p)
      PROVE  ServeInv'
    <2>1. Ends(p)
        BY <1>21, WriteEnds
    <2>2. /\ file' \in {proc[p].copy, Torn} /\ credential' = credential /\ registered' = registered
        BY <1>21 DEF Write, remoteVars, localVars
    <2>3. history'.raced <=> history.raced
        <3>1. PICK e : history' = [history EXCEPT !.excused = e]
            BY <1>21 DEF Write
        <3> QED
            BY <1>21, <3>1, ExcusedOnly
    <2>4. proc[p].copy \in Carried
        BY <1>21 DEF Carried, Write, Unenrolled
    <2>5. \A f : f = file' => Known(f)
        BY <1>21, <2>2, <2>4, Defaults DEF Known
    <2>6. Unenrolled(proc'[p]) \/ \A a : a = proc'[p].copy => Known(a)
        BY <1>21, <2>1, Defaults DEF Ends, Known
    <2>7. ServeOK(p)'
        BY <1>21, <2>1, Defaults DEF Write, Ends, ServeOK
    <2> QED
        BY <1>21, <1>0, <2>1, <2>2, <2>3, <2>5, <2>6, <2>7, ServeQuiet DEF Ends
<1>22. ASSUME NEW p \in Procs, Stop(p)
      PROVE  ServeInv'
    <2>1. Ends(p)
        BY <1>22, StopEnds
    <2>2. /\ file' = file /\ credential' = credential /\ registered' = registered
        BY <1>22 DEF Stop, remoteVars, localVars
    <2>3. history'.raced <=> history.raced
        <3>1. \/ history' = history
              \/ history' = [history EXCEPT !.excused = history.excused \cup {proc[p].item}]
            BY <1>22 DEF Stop
        <3> QED
            BY <1>22, <3>1, ExcusedOnly
    <2>4. file \in Carried
        BY <1>22 DEF Carried
    <2>5. \A f : f = file' => Known(f)
        BY <1>22, <2>2, <2>4 DEF Known
    <2>6. Unenrolled(proc'[p]) \/ \A a : a = proc'[p].copy => Known(a)
        BY <1>22, <2>1, Defaults DEF Ends, Known
    <2>7. ServeOK(p)'
        BY <1>22, <2>1, Defaults DEF Stop, Ends, ServeOK
    <2> QED
        BY <1>22, <1>0, <2>1, <2>2, <2>3, <2>5, <2>6, <2>7, ServeQuiet DEF Ends
<1>23. ASSUME NEW c \in Credentials, CreateTicket(c)
      PROVE  ServeInv'
    <2>1. /\ credential' = [credential EXCEPT ![c].status = "ticket"]
          /\ credential[c].status = "unused"
          /\ file' = file /\ proc' = proc
        BY <1>23 DEF CreateTicket, Elsewhere, localVars
    <2>2. history' = history /\ registered' = registered
        BY <1>23 DEF CreateTicket
    <2>3. /\ credential'[c].status = "ticket" /\ credential'[c].key = credential[c].key
          /\ \A d \in Credentials : d # c => credential'[d] = credential[d]
        <3>1. credential' = [credential EXCEPT ![c] =
                  [credential[c] EXCEPT !.status = "ticket"]]
            BY <1>23, <2>1
        <3> QED
            BY <1>23, <3>1 DEF TypeInv, TypeOK
    <2>4. Carried' = Carried
        BY <1>23, <2>1 DEF Carried
    <2>5. \A b \in Carried : b.cred \in Credentials \cup {None}
        BY <1>23, Fields, ConfigFields DEF Carried, TypeInv, TypeOK
    <2>6. PinInv'
        BY <1>23, <2>1, <2>3, <2>4, <2>5 DEF ServeInv, PinInv
    <2>7. ASSUME NEW q \in Procs PROVE ServeOK(q)'
        <3>1. ServeOK(q)
            BY <1>23 DEF ServeInv
        <3>2. CASE proc[q].at \notin {"registering", "serving"}
            BY <1>23, <2>1, <3>2 DEF ServeOK
        <3>3. CASE proc[q].at \in {"registering", "serving"}
            <4>1. proc[q].copy.cred \in Credentials /\ proc[q].cmd = "daemon"
                BY <1>23, <3>3, Items DEF StepOK
            <4>2. proc[q].copy \in Carried
                BY <1>23, <4>1 DEF Carried, Unenrolled
            <4>3. proc[q].copy.cred # c
                BY <1>23, <2>1, <4>1, <4>2, HostConfigAssumption
                    DEF ServeInv, PinInv
            <4> QED
                BY <1>23, <2>1, <2>2, <2>3, <3>1, <4>1, <4>3
                    DEF ServeOK, Enrolled
        <3> QED
            BY <1>23, <3>2, <3>3
    <2> QED
        BY <1>23, <2>6, <2>7 DEF ServeInv
<1>24. ASSUME NEW c \in Credentials, Revoke(c)
      PROVE  ServeInv'
    <2>1. /\ credential' = [credential EXCEPT ![c].status = "revoked"]
          /\ credential[c].status \in {"ticket", "enrolled"}
          /\ file' = file /\ proc' = proc
        BY <1>24 DEF Revoke, Elsewhere, localVars
    <2>2. /\ ~history'.raced => ~history.raced
          /\ ~history'.raced => \A q \in Procs :
                proc[q].at = "registering" => proc[q].copy.cred # c
        <3> DEFINE b == history.raced \/
                   \E q \in Procs : proc[q].at = "registering" /\ proc[q].copy.cred = c
        <3>1. history' = [history EXCEPT !.raced = b]
            BY <1>24 DEF Revoke
        <3>2. b \in BOOLEAN
            BY <1>24 DEF TypeInv, TypeOK
        <3>3. /\ ~b => ~history.raced
              /\ ~b => \A q \in Procs :
                    proc[q].at = "registering" => proc[q].copy.cred # c
            OBVIOUS
        <3> HIDE DEF b
        <3>4. history'.raced <=> b
            BY <1>24, <3>1, <3>2 DEF TypeInv, TypeOK
        <3> QED
            BY <1>24, <3>3, <3>4
    <2>3. /\ credential'[c].status = "revoked" /\ credential'[c].key = credential[c].key
          /\ \A d \in Credentials : d # c => credential'[d] = credential[d]
        <3>1. credential' = [credential EXCEPT ![c] =
                  [credential[c] EXCEPT !.status = "revoked"]]
            BY <1>24, <2>1
        <3> QED
            BY <1>24, <3>1 DEF TypeInv, TypeOK
    <2>4. Carried' = Carried
        BY <1>24, <2>1 DEF Carried
    <2>5. \A b \in Carried : b.cred \in Credentials \cup {None}
        BY <1>24, Fields, ConfigFields DEF Carried, TypeInv, TypeOK
    <2>6. PinInv'
        BY <1>24, <2>1, <2>3, <2>4, <2>5 DEF ServeInv, PinInv
    <2>7. ASSUME NEW q \in Procs PROVE ServeOK(q)'
        <3>1. ServeOK(q)
            BY <1>24 DEF ServeInv
        <3>2. CASE proc[q].at \notin {"registering", "serving"}
            BY <1>24, <2>1, <3>2 DEF ServeOK
        <3>3. CASE proc[q].at \in {"registering", "serving"}
            <4>1. proc[q].copy.cred \in Credentials /\ proc[q].cmd = "daemon"
                BY <1>24, <3>3, Items DEF StepOK
            <4>2. proc[q].key \in Keys /\ proc[q].key # None
                BY <1>24, <3>3, HostConfigAssumption DEF KeyInv, KeyedOK
            <4>3. registered' = IF registered # None /\ registered = credential[c].key
                                THEN None ELSE registered
                BY <1>24 DEF Revoke
            <4>4. credential[proc[q].copy.cred].key = proc[q].key
                BY <1>24, <3>1, <3>3 DEF ServeOK
            <4>5. CASE proc[q].copy.cred = c
                <5>1. registered' # proc[q].key
                    BY <1>24, <4>2, <4>3, <4>4, <4>5
                <5>2. proc[q].at = "registering" => history'.raced
                    BY <1>24, <2>2, <4>5
                <5> QED
                    BY <1>24, <2>1, <2>3, <3>1, <4>3, <4>4, <4>5, <5>1, <5>2
                        DEF ServeOK
            <4>6. CASE proc[q].copy.cred # c
                <5>1. credential'[proc[q].copy.cred] = credential[proc[q].copy.cred]
                    BY <1>24, <2>3, <4>1, <4>6
                <5>2. registered' \in {registered, None}
                    BY <1>24, <4>3
                <5> QED
                    BY <1>24, <2>1, <2>2, <3>1, <4>2, <5>1, <5>2
                        DEF ServeOK, Enrolled
            <4> QED
                BY <1>24, <4>5, <4>6
        <3> QED
            BY <1>24, <3>2, <3>3
    <2> QED
        BY <1>24, <2>6, <2>7 DEF ServeInv
<1>25. ASSUME NEW n \in Names, DeleteElsewhere(n)
      PROVE  ServeInv'
    <2>1. /\ credential' = credential /\ registered' = registered /\ file' = file
          /\ history' = [history EXCEPT !.excused = history.excused \cup {n}]
        BY <1>25 DEF DeleteElsewhere, Elsewhere, localVars
    <2>2. history'.raced <=> history.raced
        BY <1>25, <2>1, ExcusedOnly
    <2>3. \A q \in Procs :
              /\ proc'[q].at = proc[q].at /\ proc'[q].key = proc[q].key
              /\ proc'[q].copy = proc[q].copy
              /\ Unenrolled(proc'[q]) <=> Unenrolled(proc[q])
        BY <1>25, DeleteDisturbs DEF Unenrolled
    <2>4. Carried' = Carried
        BY <1>25, <2>1, <2>3 DEF Carried
    <2>5. PinInv'
        BY <1>25, <2>1, <2>4 DEF ServeInv, PinInv
    <2>6. ASSUME NEW q \in Procs PROVE ServeOK(q)'
        BY <1>25, <2>1, <2>2, <2>3 DEF ServeInv, ServeOK, Enrolled
    <2> QED
        BY <1>25, <2>5, <2>6 DEF ServeInv
<1>26. ASSUME RegisterElsewhere
      PROVE  ServeInv'
    <2>1. /\ credential' = credential /\ file' = file /\ proc' = proc
          /\ history' = history /\ registered' = ForeignKey
        BY <1>26 DEF RegisterElsewhere, Elsewhere, localVars
    <2>2. Carried' = Carried
        BY <1>26, <2>1 DEF Carried
    <2>3. PinInv'
        BY <1>26, <2>1, <2>2 DEF ServeInv, PinInv
    <2>4. ASSUME NEW q \in Procs PROVE ServeOK(q)'
        <3>1. ServeOK(q)
            BY <1>26 DEF ServeInv
        <3>2. proc[q].at = "serving" => proc[q].key # ForeignKey
            BY <1>26, HostConfigAssumption DEF KeyInv, KeyedOK
        <3> QED
            BY <1>26, <2>1, <3>1, <3>2 DEF ServeOK, Enrolled
    <2> QED
        BY <1>26, <2>3, <2>4 DEF ServeInv
<1>27. ASSUME NEW k \in SigningKeys, RotateSigningKey(k)
      PROVE  ServeInv'
    <2>1. /\ credential' = credential /\ file' = file /\ proc' = proc
          /\ history' = history /\ registered' = registered
        BY <1>27 DEF RotateSigningKey, Elsewhere, localVars
    <2> QED
        BY <1>27, <2>1
            DEF ServeInv, PinInv, ServeOK, Carried, Unenrolled, Enrolled
<1>28. CASE UNCHANGED vars
    BY <1>28
        DEF ServeInv, PinInv, ServeOK, Carried, Unenrolled, Enrolled, vars,
            remoteVars, localVars
<1> QED
    BY <1>1, <1>2, <1>3, <1>4, <1>5, <1>6, <1>7, <1>8, <1>9, <1>10, <1>11,
       <1>12, <1>13, <1>14, <1>15, <1>16, <1>17, <1>18, <1>19, <1>20, <1>21,
       <1>22, <1>23, <1>24, <1>25, <1>26, <1>27, <1>28
    DEF Next, Process, Outside, Identity

LEMMA ServeInit == Init => ServeInv
<1> SUFFICES ASSUME Init PROVE ServeInv
    OBVIOUS
<1> DEFINE k == Any(Keys)
           c == Any(Credentials)
<1>1. c \in Credentials /\ c # None
    BY HostConfigAssumption DEF Any
<1>2. proc = [p \in Procs |-> Idle]
    BY DEF Init
<1>3. \/ file = Default
      \/ /\ credential = [d \in Credentials |->
                IF d = c THEN [status |-> "enrolled", key |-> k]
                ELSE [status |-> "unused", key |-> None]]
         /\ file = [Default EXCEPT !.cred = c, !.pinned = signingKey]
    BY DEF Init
<1> HIDE DEF k, c
<1>4. \A p \in Procs : proc[p].at = "idle" /\ proc[p].copy.cred = None
    BY <1>2, Defaults
<1>5. [Default EXCEPT !.cred = c, !.pinned = signingKey].cred = c
    BY Defaults DEF Configs
<1>6. file.cred # None => credential[file.cred].status = "enrolled"
    <2>1. CASE file = Default
        BY <2>1, Defaults
    <2>2. CASE file # Default
        <3>1. /\ credential = [d \in Credentials |->
                    IF d = c THEN [status |-> "enrolled", key |-> k]
                    ELSE [status |-> "unused", key |-> None]]
              /\ file = [Default EXCEPT !.cred = c, !.pinned = signingKey]
            BY <1>3, <2>2
        <3>2. file.cred = c
            BY <1>5, <3>1
        <3>3. credential[c].status = "enrolled"
            BY <1>1, <3>1
        <3> QED
            BY <3>2, <3>3
    <2> QED
        BY <2>1, <2>2
<1>7. \A a \in Carried : a = file \/ a.cred = None
    BY <1>4 DEF Carried
<1>8. PinInv
    BY <1>6, <1>7 DEF PinInv
<1>9. \A p \in Procs : ServeOK(p)
    BY <1>4 DEF ServeOK
<1> QED
    BY <1>8, <1>9 DEF ServeInv

\* When the doctor finds nothing wrong and has nothing to ask for, a daemon that
\* serves has a valid secret, is the registered one, and checks capabilities
\* against the key they are signed with: what it loaded when it was started is
\* then what the file says, because two valid secrets never share a key and a
\* secret is never stored with two pinned keys.
THEOREM CleanBillsServe == Spec => []CleanBillServes
<1>1. Init => TypeInv /\ KeyInv /\ ServeInv
    BY TypeInit, KeyInit, ServeInit
<1>2. TypeInv /\ KeyInv /\ ServeInv /\ [Next]_vars => (TypeInv /\ KeyInv /\ ServeInv)'
    BY TypeStep, KeyStep, ServeStep
<1>3. TypeInv /\ KeyInv /\ ServeInv => CleanBillServes
    <2> SUFFICES ASSUME TypeInv, KeyInv, ServeInv,
                        Healthy, NothingToDo, Hosted # {}, ~history.raced,
                        NEW p \in Procs, proc[p].at = "serving"
                 PROVE  /\ Enrolled(proc[p].copy.cred)
                        /\ proc[p].key = registered
                        /\ proc[p].copy.pinned = signingKey
        BY DEF CleanBillServes
    <2>1. /\ file.cred # None /\ Enrolled(file.cred) /\ SignedIn
          /\ file.pinned = signingKey
        BY DEF NothingToDo, Login, SignedIn, VerifySigningKeyChange
    <2>2. LocalKey # None /\ LocalKey = credential[file.cred].key
        BY <2>1 DEF Healthy, CredentialBinding, BoundMatches, Bound
    <2>3. registered = LocalKey
        BY <2>1, <2>2
            DEF NothingToDo, RegisterThisEndpoint, BoundMatches, Bound,
                          RegisteredMatches
    <2>4. registered \in Keys
        BY <2>2, <2>3 DEF LocalKey
    <2>5. ServeOK(p)
        BY DEF ServeInv
    <2>6. registered = proc[p].key
        BY <2>4, <2>5, HostConfigAssumption DEF ServeOK
    <2>7. /\ Enrolled(proc[p].copy.cred)
          /\ credential[proc[p].copy.cred].key = registered
        BY <2>5, <2>6 DEF ServeOK
    <2>8. /\ file.cred \in Credentials /\ proc[p].copy.cred \in Credentials
          /\ proc[p].cmd = "daemon"
        <3>1. file \in Configs
            BY DEF TypeInv, TypeOK
        <3>2. proc[p].cmd = "daemon" /\ proc[p].copy.cred \in Credentials
            BY Items DEF StepOK
        <3> QED
            BY <2>1, <3>1, <3>2, ConfigFields
    <2>9. file.cred = proc[p].copy.cred
        BY <2>1, <2>2, <2>3, <2>7, <2>8 DEF KeyInv, EnrolledOK, Enrolled
    <2>10. file \in Carried /\ proc[p].copy \in Carried
        BY <2>8 DEF Carried, Unenrolled
    <2>11. proc[p].copy.pinned = signingKey
        BY <2>1, <2>9, <2>10 DEF ServeInv, PinInv
    <2> QED
        BY <2>6, <2>7, <2>11
<1> QED
    BY <1>1, <1>2, <1>3, PTL DEF Spec
=============================================================================

--------------------------- MODULE Machines_proof ---------------------------
(***************************************************************************)
(* Proofs about Machines, for any sets of accounts, credentials, endpoint  *)
(* keys and concurrent calls, and any limit on credentials.                *)
(***************************************************************************)
EXTENDS Machines, TLAPS

-----------------------------------------------------------------------------
(* What the steps do to a row.                                             *)

\* A credential changes in one of three ways, or not at all: the dashboard
\* creates it, one machine enrols with it, or it is revoked.
Created(c) ==
    /\ credential[c].status = "unused"
    /\ credential'[c].status = "ticket"
    /\ credential'[c].account \in Accounts
    /\ credential'[c].key = NoKey

Enrolled(c) ==
    /\ Enrollable(c, credential'[c].key)
    /\ credential'[c].status = "enrolled"
    /\ credential'[c].account = credential[c].account
    /\ credential'[c].key \in Endpoints

Revoked(c) ==
    /\ credential[c].status \in {"ticket", "enrolled"}
    /\ credential'[c].status = "revoked"
    /\ credential'[c].account = credential[c].account
    /\ credential'[c].key = credential[c].key

LEMMA CreateEffect ==
    ASSUME MachineTypeOK, NEW c \in Credentials, NEW a \in Accounts,
           NEW broker \in BOOLEAN, CreateMachineCredential(c, a, broker)
    PROVE  /\ credential' \in [Credentials -> CredentialRows]
           /\ Created(c)
           /\ \A d \in Credentials : d # c => credential'[d] = credential[d]
  <1>1. [status |-> "ticket", account |-> a, key |-> NoKey, broker |-> broker]
          \in CredentialRows
    BY DEF CredentialRows
  <1> QED
    BY <1>1 DEF CreateMachineCredential, MachineTypeOK, Created

LEMMA EnrollEffect ==
    ASSUME MachineTypeOK, NEW h \in Handlers, EnrollCommit(h)
    PROVE  /\ handler[h].credential \in Credentials
           /\ credential' \in [Credentials -> CredentialRows]
           /\ \/ credential' = credential
              \/ /\ Enrolled(handler[h].credential)
                 /\ \A d \in Credentials :
                      d # handler[h].credential => credential'[d] = credential[d]
  <1> DEFINE c == handler[h].credential
             k == handler[h].key
             bound == [credential EXCEPT ![c].status = "enrolled", ![c].key = k]
  <1>1. c \in Credentials /\ k \in Endpoints
    BY DEF EnrollCommit, MachineTypeOK, Calls, Free
  <1>2. credential \in [Credentials -> CredentialRows]
    BY DEF MachineTypeOK
  <1>3. /\ bound \in [Credentials -> CredentialRows]
        /\ bound[c].status = "enrolled"
        /\ bound[c].key = k
        /\ bound[c].account = credential[c].account
        /\ \A d \in Credentials : d # c => bound[d] = credential[d]
    BY <1>1, <1>2 DEF CredentialRows
  <1>4. CASE Enrollable(c, k)
    <2>1. credential' = bound
      BY <1>4 DEF EnrollCommit
    <2> QED
      BY <1>1, <1>3, <1>4, <2>1 DEF Enrolled
  <1>5. CASE ~Enrollable(c, k)
    BY <1>1, <1>2, <1>5 DEF EnrollCommit
  <1> QED
    BY <1>4, <1>5

LEMMA RevokeEffect ==
    ASSUME MachineTypeOK, NEW c \in Credentials, RevokeMachineCredential(c)
    PROVE  /\ credential' \in [Credentials -> CredentialRows]
           /\ Revoked(c)
           /\ \A d \in Credentials : d # c => credential'[d] = credential[d]
  BY DEF RevokeMachineCredential, MachineTypeOK, CredentialRows, Revoked

\* The table daemons keeps its type when a credential is revoked.
LEMMA UnregisteredType ==
    ASSUME MachineTypeOK, NEW c \in Credentials
    PROVE  Unregistered(c) \in [Accounts -> Endpoints \cup {NoKey}]
  BY DEF MachineTypeOK, Unregistered

-----------------------------------------------------------------------------
(* Type correctness.                                                       *)

\* What MachineTypeOK says of the rows and of the registrations in flight.
RowsOK ==
    \A c \in Credentials :
      /\ credential[c].status \in {"ticket", "enrolled"} =>
             credential[c].account \in Accounts
      /\ credential[c].status = "enrolled" => credential[c].key \in Endpoints
      /\ credential[c].status \in {"unused", "ticket"} => credential[c].key = NoKey

RegistrationsOK ==
    \A h \in Handlers : handler[h].op = "register" =>
      LET row == credential[handler[h].credential] IN
      /\ row.status \in {"enrolled", "revoked"}
      /\ row.account = handler[h].account
      /\ row.key = handler[h].key

TablesOK ==
    /\ credential \in [Credentials -> CredentialRows]
    /\ daemons \in [Accounts -> Endpoints \cup {NoKey}]
    /\ handler \in [Handlers -> Calls \cup {Free}]
    /\ raced \subseteq Accounts \X Endpoints

LEMMA TypeParts == MachineTypeOK <=> TablesOK /\ RowsOK /\ RegistrationsOK
  BY DEF MachineTypeOK, TablesOK, RowsOK, RegistrationsOK

LEMMA FreeIsNoCall == Free \notin Calls /\ Free.op = "none"
  BY DEF Free, Calls

\* A registration in flight was authenticated by an existing credential.
LEMMA RegistrationType ==
    ASSUME MachineTypeOK, NEW h \in Handlers, handler[h].op = "register"
    PROVE  /\ handler[h].credential \in Credentials
           /\ handler[h].account \in Accounts
           /\ handler[h].key \in Endpoints
  BY DEF MachineTypeOK, Calls, Free

\* A step that touches no row keeps what is known of rows and registrations, if
\* every call it starts is one.
LEMMA SlotsKeepType ==
    ASSUME MachineTypeOK, UNCHANGED credential, NEW h \in Handlers,
           NEW call \in Calls \cup {Free},
           handler' = [handler EXCEPT ![h] = call],
           call.op = "register" =>
               /\ credential[call.credential].status \in {"enrolled", "revoked"}
               /\ credential[call.credential].account = call.account
               /\ credential[call.credential].key = call.key
    PROVE  /\ handler' \in [Handlers -> Calls \cup {Free}]
           /\ RowsOK' /\ RegistrationsOK'
  BY DEF MachineTypeOK, RowsOK, RegistrationsOK

\* A step that changes one row in one of the three ways keeps them too.
LEMMA RowsKeepType ==
    ASSUME MachineTypeOK, NEW c \in Credentials,
           Created(c) \/ Enrolled(c) \/ Revoked(c),
           \A d \in Credentials : d # c => credential'[d] = credential[d],
           NEW g \in [Handlers -> Calls \cup {Free}], handler' = g,
           \A h \in Handlers : g[h] = handler[h] \/ g[h] = Free
    PROVE  RowsOK' /\ RegistrationsOK'
  <1>1. RowsOK /\ RegistrationsOK
    BY TypeParts
  <1>2. RowsOK'
    BY <1>1 DEF RowsOK, Created, Enrolled, Revoked, Enrollable
  <1>3. ASSUME NEW h \in Handlers, handler'[h].op = "register"
        PROVE  LET row == credential'[handler'[h].credential] IN
               /\ row.status \in {"enrolled", "revoked"}
               /\ row.account = handler'[h].account
               /\ row.key = handler'[h].key
    <2>1. handler'[h] = handler[h]
      BY <1>3, FreeIsNoCall
    <2>2. handler[h].credential \in Credentials
      BY <1>3, <2>1, RegistrationType
    <2>3. CASE handler[h].credential = c
      BY <1>1, <1>3, <2>1, <2>2, <2>3
      DEF RegistrationsOK, Created, Enrolled, Revoked, Enrollable
    <2>4. CASE handler[h].credential # c
      BY <1>1, <1>3, <2>1, <2>2, <2>4 DEF RegistrationsOK
    <2> QED
      BY <2>3, <2>4
  <1> QED
    BY <1>2, <1>3 DEF RegistrationsOK

LEMMA InitMachineType == MachineInit => MachineTypeOK
  BY DEF MachineInit, MachineTypeOK, CredentialRows, Unused, Calls, Free

LEMMA NextMachineType ==
    MachineTypeOK /\ [MachineNext]_machineVars => MachineTypeOK'
  <1> SUFFICES ASSUME MachineTypeOK, [MachineNext]_machineVars
               PROVE  TablesOK' /\ RowsOK' /\ RegistrationsOK'
    BY TypeParts, PTL
  <1>t. TablesOK /\ RowsOK /\ RegistrationsOK
    BY TypeParts
  <1>1. ASSUME NEW c \in Credentials, NEW a \in Accounts, NEW broker \in BOOLEAN,
               CreateMachineCredential(c, a, broker)
        PROVE  TablesOK' /\ RowsOK' /\ RegistrationsOK'
    <2>1. UNCHANGED <<daemons, handler, raced>>
      BY <1>1 DEF CreateMachineCredential
    <2> QED
      BY <1>1, <1>t, <2>1, CreateEffect, RowsKeepType DEF TablesOK
  <1>2. ASSUME NEW h \in Handlers, NEW c \in Credentials, NEW k \in Endpoints,
               EnrollLookup(h, c, k)
        PROVE  TablesOK' /\ RowsOK' /\ RegistrationsOK'
    <2> DEFINE call == [op |-> "enroll", credential |-> c,
                        account |-> credential[c].account, key |-> k]
    <2>1. credential[c].account \in Accounts
      BY <1>2, <1>t DEF EnrollLookup, RowsOK
    <2>2. call \in Calls
      BY <2>1 DEF Calls
    <2>3. call.op # "register"
      OBVIOUS
    <2>4. handler' = [handler EXCEPT ![h] = call] /\ UNCHANGED <<credential, daemons, raced>>
      BY <1>2 DEF EnrollLookup
    <2> HIDE DEF call
    <2> QED
      BY <1>t, <2>2, <2>3, <2>4, SlotsKeepType DEF TablesOK
  <1>3. ASSUME NEW h \in Handlers, EnrollCommit(h)
        PROVE  TablesOK' /\ RowsOK' /\ RegistrationsOK'
    <2>1. handler' = [handler EXCEPT ![h] = Free] /\ UNCHANGED <<daemons, raced>>
      BY <1>3 DEF EnrollCommit
    <2>2. handler' \in [Handlers -> Calls \cup {Free}]
      BY <1>t, <2>1 DEF TablesOK
    <2>3. \A g \in Handlers : handler'[g] = handler[g] \/ handler'[g] = Free
      BY <1>t, <2>1 DEF TablesOK
    <2>4. CASE credential' = credential
      BY <1>3, <1>t, <2>1, <2>2, <2>4, FreeIsNoCall, SlotsKeepType DEF TablesOK
    <2>5. CASE credential' # credential
      BY <1>3, <1>t, <2>1, <2>2, <2>3, <2>5, EnrollEffect, RowsKeepType DEF TablesOK
    <2> QED
      BY <2>4, <2>5
  <1>4. ASSUME NEW h \in Handlers, NEW c \in Credentials, RegisterAuthenticated(h, c)
        PROVE  TablesOK' /\ RowsOK' /\ RegistrationsOK'
    <2> DEFINE call == [op |-> "register", credential |-> c,
                        account |-> credential[c].account,
                        key |-> credential[c].key]
    <2>1. /\ credential[c].account \in Accounts
          /\ credential[c].key \in Endpoints
          /\ credential[c].status = "enrolled"
      BY <1>4, <1>t DEF RegisterAuthenticated, RowsOK
    <2>2. call \in Calls
      BY <2>1 DEF Calls
    <2>3. /\ credential[call.credential].status \in {"enrolled", "revoked"}
          /\ credential[call.credential].account = call.account
          /\ credential[call.credential].key = call.key
      BY <2>1
    <2>4. handler' = [handler EXCEPT ![h] = call] /\ UNCHANGED <<credential, daemons, raced>>
      BY <1>4 DEF RegisterAuthenticated
    <2> HIDE DEF call
    <2> QED
      BY <1>t, <2>2, <2>3, <2>4, SlotsKeepType DEF TablesOK
  <1>5. ASSUME NEW h \in Handlers, RegisterCommit(h)
        PROVE  TablesOK' /\ RowsOK' /\ RegistrationsOK'
    <2>1. /\ handler' = [handler EXCEPT ![h] = Free]
          /\ daemons' = [daemons EXCEPT ![handler[h].account] = handler[h].key]
          /\ UNCHANGED <<credential, raced>>
      BY <1>5 DEF RegisterCommit
    <2>2. handler[h].account \in Accounts /\ handler[h].key \in Endpoints
      BY <1>5, RegistrationType DEF RegisterCommit
    <2>3. daemons' \in [Accounts -> Endpoints \cup {NoKey}]
      BY <1>t, <2>1, <2>2 DEF TablesOK
    <2> QED
      BY <1>t, <2>1, <2>3, FreeIsNoCall, SlotsKeepType DEF TablesOK
  <1>6. ASSUME NEW h \in Handlers, Abandon(h)
        PROVE  TablesOK' /\ RowsOK' /\ RegistrationsOK'
    BY <1>6, <1>t, FreeIsNoCall, SlotsKeepType DEF Abandon, TablesOK
  <1>7. ASSUME NEW c \in Credentials, RevokeMachineCredential(c)
        PROVE  TablesOK' /\ RowsOK' /\ RegistrationsOK'
    <2>1. handler' = handler /\ daemons' = Unregistered(c) /\ raced' = raced \cup InFlight(c)
      BY <1>7 DEF RevokeMachineCredential
    <2>2. InFlight(c) \subseteq Accounts \X Endpoints
      <3> SUFFICES ASSUME NEW h \in Handlers, handler[h].op = "register",
                          handler[h].credential = c
                   PROVE  <<credential[c].account, handler[h].key>>
                            \in Accounts \X Endpoints
        BY DEF InFlight
      <3> QED
        BY <1>t, RegistrationType DEF RegistrationsOK
    <2> QED
      BY <1>7, <1>t, <2>1, <2>2, RevokeEffect, RowsKeepType, UnregisteredType
      DEF TablesOK
  <1>8. ASSUME NEW c \in Credentials, RevokeCutShort(c)
        PROVE  TablesOK' /\ RowsOK' /\ RegistrationsOK'
    BY <1>8, <1>t, UnregisteredType
    DEF RevokeCutShort, TablesOK, RowsOK, RegistrationsOK
  <1>9. CASE UNCHANGED machineVars
    BY <1>9, <1>t DEF machineVars, TablesOK, RowsOK, RegistrationsOK
  <1> QED
    BY <1>1, <1>2, <1>3, <1>4, <1>5, <1>6, <1>7, <1>8, <1>9 DEF MachineNext

\* The tables and the calls in flight keep their types, and what a registration
\* read under its first lock stays true of its credential.
THEOREM MachineTypeCorrect == MachineSpec => []MachineTypeOK
  BY InitMachineType, NextMachineType, PTL DEF MachineSpec

-----------------------------------------------------------------------------
(* One credential per key.                                                 *)

\* How a step changes the credentials.
RowsMove ==
    \/ credential' = credential
    \/ \E c \in Credentials :
         /\ Created(c) \/ Enrolled(c) \/ Revoked(c)
         /\ \A d \in Credentials : d # c => credential'[d] = credential[d]

LEMMA NextMovesOneRow ==
    MachineTypeOK /\ [MachineNext]_machineVars => RowsMove
  <1> SUFFICES ASSUME MachineTypeOK, [MachineNext]_machineVars
               PROVE  RowsMove
    OBVIOUS
  <1>1. ASSUME NEW c \in Credentials, NEW a \in Accounts, NEW broker \in BOOLEAN,
               CreateMachineCredential(c, a, broker)
        PROVE  RowsMove
    BY <1>1, CreateEffect DEF RowsMove
  <1>2. ASSUME NEW h \in Handlers, EnrollCommit(h)
        PROVE  RowsMove
    BY <1>2, EnrollEffect DEF RowsMove
  <1>3. ASSUME NEW c \in Credentials, RevokeMachineCredential(c)
        PROVE  RowsMove
    BY <1>3, RevokeEffect DEF RowsMove
  <1>4. ASSUME NEW h \in Handlers,
               \/ \E c \in Credentials, k \in Endpoints : EnrollLookup(h, c, k)
               \/ \E c \in Credentials : RegisterAuthenticated(h, c)
               \/ RegisterCommit(h)
               \/ Abandon(h)
        PROVE  RowsMove
    BY <1>4
    DEF EnrollLookup, RegisterAuthenticated, RegisterCommit, Abandon, RowsMove
  <1>5. ASSUME NEW c \in Credentials, RevokeCutShort(c)
        PROVE  RowsMove
    BY <1>5 DEF RevokeCutShort, RowsMove
  <1>6. CASE UNCHANGED machineVars
    BY <1>6 DEF machineVars, RowsMove
  <1> QED
    BY <1>1, <1>2, <1>3, <1>4, <1>5, <1>6 DEF MachineNext

LEMMA NextOneCredential ==
    MachineTypeOK /\ OneCredentialPerKey /\ [MachineNext]_machineVars
        => OneCredentialPerKey'
  <1> SUFFICES ASSUME MachineTypeOK, OneCredentialPerKey, RowsMove
               PROVE  OneCredentialPerKey'
    BY NextMovesOneRow
  <1>1. CASE credential' = credential
    BY <1>1 DEF OneCredentialPerKey
  <1>2. ASSUME NEW c \in Credentials,
               \A d \in Credentials : d # c => credential'[d] = credential[d],
               Created(c) \/ Revoked(c)
        PROVE  OneCredentialPerKey'
    BY <1>2 DEF OneCredentialPerKey, Created, Revoked
  <1>3. ASSUME NEW c \in Credentials,
               \A d \in Credentials : d # c => credential'[d] = credential[d],
               Enrolled(c)
        PROVE  OneCredentialPerKey'
    BY <1>3 DEF OneCredentialPerKey, Enrolled, Enrollable
  <1> QED
    BY <1>1, <1>2, <1>3 DEF RowsMove

\* No two credentials ever answer for one endpoint key.
THEOREM KeysAreNotShared == MachineSpec => []OneCredentialPerKey
  <1>1. MachineInit => OneCredentialPerKey
    BY DEF MachineInit, OneCredentialPerKey, Unused
  <1> QED
    BY <1>1, NextOneCredential, MachineTypeCorrect, PTL DEF MachineSpec

LEMMA StepKeepsEnrolment ==
    MachineTypeOK /\ [MachineNext]_machineVars =>
        \A c \in Credentials : credential[c].status = "enrolled" =>
            /\ credential'[c].key = credential[c].key
            /\ credential'[c].account = credential[c].account
  BY NextMovesOneRow DEF RowsMove, Created, Enrolled, Enrollable, Revoked

\* A ticket enrols one machine, and the key it bound is never exchanged.
THEOREM EnrolmentIsFinal == MachineSpec => EnrolledForGood
  BY StepKeepsEnrolment, MachineTypeCorrect, PTL DEF MachineSpec, EnrolledForGood

-----------------------------------------------------------------------------
(* Registered daemons.                                                     *)

\* The strengthening of RegisteredIsBound: a registration whose credential was
\* revoked while it was between its two locks has been recorded in `raced`.
RacedInv ==
    \A h \in Handlers :
      /\ handler[h].op = "register"
      /\ credential[handler[h].credential].status = "revoked"
      => <<handler[h].account, handler[h].key>> \in raced

LEMMA NextRegistered ==
    MachineTypeOK /\ RegisteredIsBound /\ RacedInv /\ [MachineNext]_machineVars
        => RegisteredIsBound' /\ RacedInv'
  <1> SUFFICES ASSUME MachineTypeOK, RegisteredIsBound, RacedInv,
                      [MachineNext]_machineVars
               PROVE  RegisteredIsBound' /\ RacedInv'
    OBVIOUS
  <1>t. /\ handler \in [Handlers -> Calls \cup {Free}]
        /\ daemons \in [Accounts -> Endpoints \cup {NoKey}]
        /\ RegistrationsOK
    BY TypeParts DEF TablesOK
  <1>1. ASSUME NEW c \in Credentials, Created(c) \/ Enrolled(c),
               \A d \in Credentials : d # c => credential'[d] = credential[d],
               UNCHANGED <<daemons, raced>>,
               \A h \in Handlers : handler'[h] = handler[h] \/ handler'[h] = Free
        PROVE  RegisteredIsBound' /\ RacedInv'
    <2>1. ASSUME NEW h \in Handlers, handler'[h].op = "register",
                 credential'[handler'[h].credential].status = "revoked"
          PROVE  <<handler'[h].account, handler'[h].key>> \in raced
      <3>1. handler'[h] = handler[h]
        BY <1>1, <2>1, FreeIsNoCall
      <3>2. handler[h].credential \in Credentials
        BY <2>1, <3>1, RegistrationType
      <3>3. credential[handler[h].credential].status = "revoked"
        BY <1>1, <2>1, <3>1, <3>2 DEF Created, Enrolled
      <3> QED
        BY <2>1, <3>1, <3>3 DEF RacedInv
    <2>2. ASSUME NEW a \in Accounts
          PROVE  \/ daemons'[a] = NoKey
                 \/ Bound(a, daemons[a])'
                 \/ <<a, daemons'[a]>> \in raced'
      <3>1. CASE daemons[a] # NoKey /\ Bound(a, daemons[a])
        <4>1. daemons[a] \in Endpoints
          BY <1>t, <3>1
        <4>2. PICK d \in Credentials : /\ credential[d].status = "enrolled"
                                       /\ credential[d].account = a
                                       /\ credential[d].key = daemons[a]
          BY <3>1 DEF Bound
        <4>3. d # c
          BY <1>1, <4>2 DEF Created, Enrolled, Enrollable
        <4> QED
          BY <1>1, <4>2, <4>3 DEF Bound
      <3> QED
        BY <1>1, <3>1 DEF RegisteredIsBound
    <2> QED
      BY <1>1, <2>1, <2>2 DEF RegisteredIsBound, RacedInv
  <1>2. ASSUME NEW c \in Credentials, NEW a \in Accounts, NEW broker \in BOOLEAN,
               CreateMachineCredential(c, a, broker)
        PROVE  RegisteredIsBound' /\ RacedInv'
    BY <1>1, <1>2, CreateEffect DEF CreateMachineCredential
  <1>3. ASSUME NEW h \in Handlers, UNCHANGED <<credential, daemons, raced>>,
               NEW call, handler' = [handler EXCEPT ![h] = call],
               call.op = "register" => credential[call.credential].status # "revoked"
        PROVE  RegisteredIsBound' /\ RacedInv'
    BY <1>t, <1>3 DEF RegisteredIsBound, RacedInv, Bound
  <1>4. ASSUME NEW h \in Handlers, EnrollCommit(h)
        PROVE  RegisteredIsBound' /\ RacedInv'
    <2>1. /\ handler' = [handler EXCEPT ![h] = Free] /\ UNCHANGED <<daemons, raced>>
          /\ \A g \in Handlers : handler'[g] = handler[g] \/ handler'[g] = Free
      BY <1>4, <1>t DEF EnrollCommit
    <2>2. CASE credential' = credential
      BY <1>3, <2>1, <2>2, FreeIsNoCall
    <2>3. CASE credential' # credential
      BY <1>1, <1>4, <2>1, <2>3, EnrollEffect
    <2> QED
      BY <2>2, <2>3
  <1>5. ASSUME NEW h \in Handlers, NEW c \in Credentials, RegisterAuthenticated(h, c)
        PROVE  RegisteredIsBound' /\ RacedInv'
    <2> DEFINE call == [op |-> "register", credential |-> c,
                        account |-> credential[c].account,
                        key |-> credential[c].key]
    <2>1. /\ handler' = [handler EXCEPT ![h] = call]
          /\ credential[call.credential].status # "revoked"
          /\ UNCHANGED <<credential, daemons, raced>>
      BY <1>5 DEF RegisterAuthenticated
    <2> HIDE DEF call
    <2> QED
      BY <1>3, <2>1
  <1>6. ASSUME NEW h \in Handlers, RegisterCommit(h)
        PROVE  RegisteredIsBound' /\ RacedInv'
    <2> DEFINE a == handler[h].account
               k == handler[h].key
               row == credential[handler[h].credential]
    <2>1. /\ handler' = [handler EXCEPT ![h] = Free]
          /\ daemons' = [daemons EXCEPT ![a] = k]
          /\ UNCHANGED <<credential, raced>>
          /\ handler[h].op = "register"
      BY <1>6 DEF RegisterCommit
    <2>2. handler[h].credential \in Credentials /\ a \in Accounts /\ k \in Endpoints
      BY <2>1, RegistrationType
    <2>3. /\ row.status \in {"enrolled", "revoked"}
          /\ row.account = a
          /\ row.key = k
      BY <1>t, <2>1 DEF RegistrationsOK
    <2>4. Bound(a, k) \/ <<a, k>> \in raced
      <3>1. CASE row.status = "enrolled"
        BY <2>2, <2>3, <3>1 DEF Bound
      <3>2. CASE row.status = "revoked"
        BY <2>1, <3>2 DEF RacedInv
      <3> QED
        BY <2>3, <3>1, <3>2
    <2>5. daemons'[a] = k /\ \A b \in Accounts : b # a => daemons'[b] = daemons[b]
      BY <1>t, <2>1, <2>2
    <2>6. RacedInv'
      BY <1>t, <2>1, FreeIsNoCall DEF RacedInv
    <2> HIDE DEF a, k, row
    <2> QED
      BY <2>1, <2>4, <2>5, <2>6 DEF RegisteredIsBound, Bound
  <1>7. ASSUME NEW h \in Handlers, Abandon(h)
        PROVE  RegisteredIsBound' /\ RacedInv'
    BY <1>3, <1>7, FreeIsNoCall DEF Abandon
  <1>8. ASSUME NEW c \in Credentials, RevokeMachineCredential(c)
        PROVE  RegisteredIsBound' /\ RacedInv'
    <2>1. /\ handler' = handler /\ daemons' = Unregistered(c)
          /\ raced' = raced \cup InFlight(c)
      BY <1>8 DEF RevokeMachineCredential
    <2>2. /\ Revoked(c)
          /\ \A d \in Credentials : d # c => credential'[d] = credential[d]
      BY <1>8, RevokeEffect
    <2>3. ASSUME NEW a \in Accounts, daemons'[a] # NoKey
          PROVE  Bound(a, daemons[a])' \/ <<a, daemons'[a]>> \in raced'
      <3>1. /\ daemons'[a] = daemons[a]
            /\ a = credential[c].account => daemons[a] # credential[c].key
        BY <2>1, <2>3 DEF Unregistered
      <3>2. CASE Bound(a, daemons[a])
        <4>1. PICK d \in Credentials : /\ credential[d].status = "enrolled"
                                       /\ credential[d].account = a
                                       /\ credential[d].key = daemons[a]
          BY <3>2 DEF Bound
        <4>2. d # c
          BY <3>1, <4>1
        <4> QED
          BY <2>2, <3>1, <4>1, <4>2 DEF Bound
      <3> QED
        BY <2>1, <2>3, <3>1, <3>2 DEF RegisteredIsBound
    <2>4. ASSUME NEW h \in Handlers, handler'[h].op = "register",
                 credential'[handler'[h].credential].status = "revoked"
          PROVE  <<handler'[h].account, handler'[h].key>> \in raced'
      <3>1. handler[h].credential \in Credentials /\ handler'[h] = handler[h]
        BY <2>1, <2>4, RegistrationType
      <3>2. CASE handler[h].credential = c
        <4>1. credential[c].account = handler[h].account
          BY <1>t, <2>4, <3>1, <3>2 DEF RegistrationsOK
        <4>2. <<credential[c].account, handler[h].key>> \in InFlight(c)
          BY <2>4, <3>1, <3>2 DEF InFlight
        <4> QED
          BY <2>1, <3>1, <4>1, <4>2
      <3>3. CASE handler[h].credential # c
        BY <2>1, <2>2, <2>4, <3>1, <3>3 DEF RacedInv
      <3> QED
        BY <3>2, <3>3
    <2> QED
      BY <2>3, <2>4 DEF RegisteredIsBound, RacedInv
  <1>9. ASSUME NEW c \in Credentials, RevokeCutShort(c)
        PROVE  RegisteredIsBound' /\ RacedInv'
    <2>1. daemons' = Unregistered(c) /\ UNCHANGED <<credential, handler, raced>>
      BY <1>9 DEF RevokeCutShort
    <2>2. \A a \in Accounts : daemons'[a] = daemons[a] \/ daemons'[a] = NoKey
      BY <2>1 DEF Unregistered
    <2> QED
      BY <2>1, <2>2 DEF RegisteredIsBound, RacedInv, Bound
  <1>10. ASSUME NEW h \in Handlers, NEW c \in Credentials, NEW k \in Endpoints,
                EnrollLookup(h, c, k)
         PROVE  RegisteredIsBound' /\ RacedInv'
    <2> DEFINE call == [op |-> "enroll", credential |-> c,
                        account |-> credential[c].account, key |-> k]
    <2>1. /\ handler' = [handler EXCEPT ![h] = call]
          /\ call.op # "register"
          /\ UNCHANGED <<credential, daemons, raced>>
      BY <1>10 DEF EnrollLookup
    <2> HIDE DEF call
    <2> QED
      BY <1>3, <2>1
  <1>11. CASE UNCHANGED machineVars
    BY <1>11 DEF machineVars, RegisteredIsBound, RacedInv, Bound
  <1> QED
    BY <1>2, <1>4, <1>5, <1>6, <1>7, <1>8, <1>9, <1>10, <1>11 DEF MachineNext

\* The endpoint a capability is addressed to belongs to an enrolled credential
\* of the account, but for registrations that a revocation overtook.
THEOREM RegisteredDaemonIsBound == MachineSpec => []RegisteredIsBound
  <1>1. MachineInit => RegisteredIsBound /\ RacedInv
    BY DEF MachineInit, RegisteredIsBound, RacedInv, Free
  <1> QED
    BY <1>1, NextRegistered, MachineTypeCorrect, PTL DEF MachineSpec

LEMMA StepSparesSiblings ==
    MachineTypeOK /\ [MachineNext]_machineVars =>
        \A a \in Accounts : \A c \in Credentials :
            /\ daemons[a] # NoKey
            /\ daemons'[a] = NoKey
            /\ credential'[c].status # credential[c].status
            => credential[c].key = daemons[a]
  <1> SUFFICES ASSUME MachineTypeOK, [MachineNext]_machineVars,
                      NEW a \in Accounts, NEW c \in Credentials,
                      daemons[a] # NoKey, daemons'[a] = NoKey,
                      credential'[c].status # credential[c].status
               PROVE  credential[c].key = daemons[a]
    OBVIOUS
  <1>1. PICK d \in Credentials : RevokeMachineCredential(d)
    <2>1. daemons' # daemons /\ credential' # credential
      OBVIOUS
    <2> QED
      BY <2>1
      DEF MachineNext, machineVars, CreateMachineCredential, EnrollLookup,
          EnrollCommit, RegisterAuthenticated, RegisterCommit, Abandon,
          RevokeCutShort
  <1>2. c = d
    BY <1>1, RevokeEffect
  <1>3. daemons'[a] = Unregistered(c)[a]
    BY <1>1, <1>2 DEF RevokeMachineCredential
  <1> QED
    BY <1>3 DEF Unregistered

\* A revocation never unregisters the daemon of another machine.
THEOREM SiblingsKeepTheirDaemon == MachineSpec => SiblingStaysRegistered
  BY StepSparesSiblings, MachineTypeCorrect, PTL
  DEF MachineSpec, SiblingStaysRegistered
=============================================================================

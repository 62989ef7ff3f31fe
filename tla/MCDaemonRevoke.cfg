\* One viewer and one service, one stream slot; the bound of RevocationBound is
\* five seconds here, and the clock runs one second past it.
SPECIFICATION Spec
CONSTANTS
    Accounts = {viewer}
    Services = {hermes}
    Endpoints = {me}
    Clients = {laptop}
    Nonces = {n1}
    StreamIds = {s1}
    Me = me
    NoClaims = NoClaims
    Lifetime = 2
    Skew = 1
    Drifts <- NoDrift
    Refresh = 1
    Lease = 2
    AnswerWithin = 1
    MaxNow = 6
INVARIANTS TypeOK RevocationBound FailClosed
PROPERTIES KeepsPromise

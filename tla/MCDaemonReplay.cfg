\* Two capabilities, two stream slots and two daemon clocks; the sync task only
\* asks once, so that the seconds are spent on the replay guard.
SPECIFICATION Spec
CONSTANTS
    Accounts = {viewer}
    Services = {hermes}
    Endpoints = {me}
    Clients = {laptop}
    Nonces = {n1, n2}
    StreamIds = {s1, s2}
    Me = me
    NoClaims = NoClaims
    Lifetime = 1
    Skew = 0
    Drifts <- MCDrifts
    Refresh = 9
    Lease = 9
    AnswerWithin = 0
    MaxNow = 2
PROPERTIES AdmitOnce

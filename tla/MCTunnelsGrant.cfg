\* Two signed requests of one requester, and one broker, who is the owner or not.
SPECIFICATION Spec
CONSTANTS
    ann = ann
    hermes = hermes
    Accounts = {ann, bob}
    Credentials = {c1}
    Endpoints = {k1}
    Handlers = {h1}
    NoAccount = NoAccount
    NoKey = NoKey
    MaxCredentials = 1
    Services = {hermes}
    OwnerOf <- MCOwnerOf
    Clients = {laptop}
    Tickets = {}
    Requests = {q1, q2}
    Callers = {h1}
    NoIssuer = NoIssuer
    TicketLife = 1
    SessionLife = 2
    RequestLife = 2
    GrantLife = 1
    MaxGrants = 1
    MaxSigned = 2
    MaxMinted = 1
    MaxNow = 2
INVARIANTS RevokedIssuerHasNoSessions CapabilityWindow GrantAsApproved
SYMMETRY MCSymmetry
VIEW MCGrantView
CHECK_DEADLOCK FALSE

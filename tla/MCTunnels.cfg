\* One connection ticket and one signed request, applied again and again.
SPECIFICATION Spec
CONSTANTS
    ann = ann
    hermes = hermes
    Accounts = {ann, bob}
    Credentials = {c1}
    Endpoints = {k1}
    Handlers = {h1}
    NoAccount = NoAccount
    NoKey = NoKey
    MaxCredentials = 1
    Services = {hermes}
    OwnerOf <- MCOwnerOf
    Clients = {laptop}
    Tickets = {t1}
    Requests = {q1}
    Callers = {h1}
    NoIssuer = NoIssuer
    TicketLife = 1
    SessionLife = 1
    RequestLife = 1
    GrantLife = 2
    MaxGrants = 2
    MaxSigned = 1
    MaxMinted = 1
    MaxNow = 2
INVARIANTS TypeOK TicketBuysOneSession OneSessionPerOrigin
VIEW MCTicketView
CHECK_DEADLOCK FALSE

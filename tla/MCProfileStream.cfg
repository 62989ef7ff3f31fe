\* One page whose handle changes hands, two handlers at once, a channel of one
\* change.
SPECIFICATION FairSpec
CONSTANTS
    bob = bob
    home = home
    Accounts = {ann, bob}
    Host = ann
    Anonymous = Anonymous
    Handles = {home, desk}
    NoHandle = NoHandle
    Urls = {u1}
    Absent = Absent
    Watches <- MCOnePage
    Handlers = {h1, h2}
    Capacity = 1
INVARIANTS TypeOK PageIsCurrent
PROPERTIES PageCatchesUp

\* One link with two destinations or one service, and two viewers, so that the
\* recipients of a resource have different standings; the owner is at the limit.
SPECIFICATION Spec
CONSTANTS
    Names = {site, hermes}
    LinkNames = {site}
    Viewers = {ann, bob}
    Owner = owner
    Urls = {u1, u2}
    NoUrl = NoUrl
    Absent = Absent
    NoRequest = NoRequest
    MaxResources = 1
    MaxShares = 2
INVARIANTS TypeOK RowsOnlyWhileShared SnapshotMatchesGate ApprovalIsCurrent
PROPERTIES DeclineSticks PlanIsWhatHappened

\* One link, two viewers, two destinations: checked against the comment at db.rs:719.
SPECIFICATION Spec
CONSTANTS
    Names = {site}
    LinkNames = {site}
    Viewers = {ann, bob}
    Owner = owner
    Urls = {u1, u2}
    NoUrl = NoUrl
    Absent = Absent
    NoRequest = NoRequest
    MaxResources = 1
    MaxShares = 2
PROPERTIES AcceptedWhatWasInspected

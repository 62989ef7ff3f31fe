SPECIFICATION Spec
CONSTANTS
    Browsers = {b1, b2}
    Logins = {l1, l2, l3}
    Subjects = {alice, bob}
    Tasks = {t1, t2}
    Nobody = Nobody
    MaxPending = 2
    AttemptTtl = 2
    JwksTtl = 1
    FetchTime = 1
    Limit = 1
    Window = 2
    MaxWindows = 1
    MaxKey = 1
    MaxNow = 2
INVARIANTS TypeOK OwnLogin LoginOnce LoginSurvives KeysAreRecent SessionRate
SYMMETRY Symmetry
CHECK_DEADLOCK FALSE

SPECIFICATION Spec
CONSTANTS
    Names = {hermes, argus}
    Ids = {i1, i2, i3}
    Credentials = {c1, c2}
    Keys = {k1, k2}
    ForeignKey = foreign
    SigningKeys = {s1, s2}
    Procs = {p1, p2}
    None = None
    LoginItem = LoginItem
    MaxCommands = 3
    MaxChanges = 3
INVARIANTS TypeOK LocalMatchesRemote SecretIsHeld SecretFitsIdentity CleanBillServes
PROPERTIES ListedIsServed
CHECK_DEADLOCK FALSE

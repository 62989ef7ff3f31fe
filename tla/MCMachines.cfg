\* Two machines of two accounts, two calls between their locks.
SPECIFICATION MachineSpec
CONSTANTS
    Accounts = {ann, bob}
    Credentials = {c1, c2}
    Endpoints = {k1, k2}
    Handlers = {h1, h2}
    NoAccount = NoAccount
    NoKey = NoKey
    MaxCredentials = 2
INVARIANTS MachineTypeOK RegisteredIsBound
PROPERTIES EnrolledForGood SiblingStaysRegistered
CHECK_DEADLOCK FALSE

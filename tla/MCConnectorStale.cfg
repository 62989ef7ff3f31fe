SPECIFICATION Spec
CONSTANTS
    Locals = {i1, i2}
    Connections = {q1, q2}
    NoConnection = NoConnection
    MaxStreams = 1
    MaxStops = 1
INVARIANTS ReusedIsLive
CHECK_DEADLOCK FALSE

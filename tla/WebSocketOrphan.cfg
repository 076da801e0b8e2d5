SPECIFICATION Spec
CONSTANTS
    Sessions = {s1}
    Connecting = {s1}
    Outputs = {}
    MaxQueued <- MCMaxQueued
CHECK_DEADLOCK FALSE
INVARIANTS
    FailedHandshakeTerminates

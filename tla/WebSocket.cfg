SPECIFICATION FairSpec
CONSTANTS
    Sessions = {s1, s2}
    Connecting = {s1}
    Outputs = {s1}
    MaxQueued <- MCMaxQueued
CHECK_DEADLOCK FALSE
INVARIANTS
    TypeOK
    CloseAfterSends
PROPERTIES
    ImplementsLeases
    SessionsEnd

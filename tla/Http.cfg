SPECIFICATION FairSpec
CONSTANTS
    Requests = {r1, r2}
    Streaming = {r1}
CHECK_DEADLOCK FALSE
INVARIANTS
    TypeOK
PROPERTIES
    ImplementsLeases
    RequestsEnd

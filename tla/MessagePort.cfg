SPECIFICATION FairSpec
CONSTANTS
    Streams = {s1, s2}
    Streaming = {s1}
    Ops = {o1, o2}
CHECK_DEADLOCK FALSE
INVARIANTS
    TypeOK
PROPERTIES
    ReturnNotReentered
    ImplementsLeases
    StreamsEnd

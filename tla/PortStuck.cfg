SPECIFICATION FairSpec
CONSTANTS
    Streams = {s1}
    Streaming = {s1}
    Ops = {o1}
CHECK_DEADLOCK FALSE
PROPERTIES
    RejectionLetsRetry

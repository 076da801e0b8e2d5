SPECIFICATION Spec
CONSTANTS
    Requests = {r1}
    Streaming = {}
CHECK_DEADLOCK FALSE
INVARIANTS
    NoDetachedHandler

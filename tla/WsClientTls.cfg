\* A wss:// client against a peer that accepts the connection.
CONSTANTS
    Items = {i1}
    MAX_SEND_QUEUE = 1
    MaxFrames = 1
    UseTls = TRUE
    HeartBeat = FALSE
SPECIFICATION Spec
INVARIANT ErrorMeansRefused
CHECK_DEADLOCK FALSE

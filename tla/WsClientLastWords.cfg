\* A ws:// client whose connection never breaks, disconnected with a frame queued.
CONSTANTS
    Items = {i1}
    MAX_SEND_QUEUE = 1
    MaxFrames = 1
    UseTls = FALSE
    HeartBeat = FALSE
SPECIFICATION Spec
INVARIANT LastWordsSent
CHECK_DEADLOCK FALSE

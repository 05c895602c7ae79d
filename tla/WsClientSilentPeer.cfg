\* A ws:// client and a peer that may never answer the upgrade request.
CONSTANTS
    Items = {i1}
    MAX_SEND_QUEUE = 1
    MaxFrames = 1
    UseTls = FALSE
    HeartBeat = FALSE
SPECIFICATION LonelySpec
PROPERTY DisconnectReturns
CHECK_DEADLOCK FALSE

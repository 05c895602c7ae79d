\* A wss:// client with heart beat; two frames compete for one place in the
\* queue, and the peer sends up to two frames, together or one by one.
CONSTANTS
    Items = {i1, i2}
    MAX_SEND_QUEUE = 1
    MaxFrames = 2
    UseTls = TRUE
    HeartBeat = TRUE
SPECIFICATION FairSpec
INVARIANTS
    TypeOK
    DisconnectJoins
PROPERTIES
    ImplementsLifecycle
    DisconnectReturns
    QueueDrains
    IdleLinePinged
\* The worker ends and disconnect() returns: nothing is left to do.
CHECK_DEADLOCK FALSE

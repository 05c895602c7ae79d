\* One stream whose connection may fail.
CONSTANTS
    Streams = {s1}
    Api = {a1}
    Starters = {a1}
    Stoppers = {}
    Senders = {}
    Pausers = {}
    Breakers = {}
    None = None
SPECIFICATION Spec
INVARIANT ClientOutlivesWorker
CHECK_DEADLOCK FALSE

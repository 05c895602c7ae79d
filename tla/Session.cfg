\* One stream, an API thread that starts it and breaks its playback and one that gives
\* the other commands, the media thread, the core and the worker.
CONSTANTS
    Streams = {s1}
    Api = {a1, a2}
    Starters = {a1}
    Stoppers = {a2}
    Senders = {a2}
    Pausers = {a2}
    Breakers = {a1}
    None = None
SPECIFICATION FairSpec
INVARIANTS
    TypeOK
    OneTeardown
    SafeLocks
    TeardownComplete
PROPERTIES
    CommandsReturn
    UsesClient
\* A thread that locks a destroyed mutex ends the program.
CHECK_DEADLOCK FALSE

\* A stream is stopped by one thread while another starts the next.
CONSTANTS
    Streams = {s1, s2}
    Api = {a1, a2}
    Starters = {a1, a2}
    Stoppers = {a1, a2}
    Senders = {}
    Pausers = {}
    Breakers = {}
    None = None
SPECIFICATION Spec
INVARIANT ClosureMeansHangup
CHECK_DEADLOCK FALSE

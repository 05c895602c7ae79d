\* One item more than fits, and room for a drain to fail on one item, succeed on
\* the next and go round again.
CONSTANTS
    Items = {i1, i2, i3, i4}
    MAX_SEND_QUEUE = 3
SPECIFICATION FairSpec
INVARIANTS
    TypeOK
    QueueBounded
    Conserved
    OrderKept
PROPERTIES
    DrainEnds
    EventuallySent
    ImplementsChannel
\* Once every item is sent or dropped nothing is left to do.
CHECK_DEADLOCK FALSE

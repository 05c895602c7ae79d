\* Reads of two units; a text of three is split by every read.
CONSTANTS
    Frames <- MCFrames
    ReadSize = 2
    MaxFrames = 3
    Native = 8000
    VarRates = {0, 32000}
    Playbacks = {TRUE}
SPECIFICATION FairSpec
INVARIANTS
    TypeOK
    Reassembled
    PlayedAsMeant
    PlayedAtNativeRate
    EventsAsDocumented
PROPERTIES
    HandledInTheEnd
CHECK_DEADLOCK FALSE

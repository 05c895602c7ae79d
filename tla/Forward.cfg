\* Frames of 10 to 40 ms, no buffering and buffers of 40 and 60 ms (30 ms and 50 ms are
\* refused), with and without resampling.
CONSTANTS
    Ptimes = {1, 2, 3, 4}
    BufferSizes = {0, 20, 50, 40, 60}
    Rates = {0, 8000, 11025, 16000}
    NativeRates = {8000}
    MaxBacklog = 3
    MaxFrames = 7
SPECIFICATION FairSpec
INVARIANTS
    TypeOK
    NothingDropped
    PacketsWhole
    PauseHolds
PROPERTIES
    BacklogDrained

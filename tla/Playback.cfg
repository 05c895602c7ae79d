\* Two units make a frame: messages of half a frame, one frame, one and a half and
\* two; three messages of two frames overrun a buffer that holds three frames.
CONSTANTS
    Sizes = {1, 2, 3, 4}
    FrameBytes = 2
    Capacity = 6
    MaxMessages = 3
    Pauses = TRUE
SPECIFICATION FairSpec
INVARIANTS
    TypeOK
    BreakSilences
    CountsMatch
PROPERTIES
    TracksWholeFrames
    ResponseEnds
    WholeFramesPlayed
\* When no more messages come and nothing is queued, only break and pause are left;
\* they are always possible.

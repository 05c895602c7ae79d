\* Half a frame at a time, and nobody pauses the call.
CONSTANTS
    Sizes = {1}
    FrameBytes = 2
    Capacity = 6
    MaxMessages = 4
    Pauses = FALSE
SPECIFICATION Spec
INVARIANT NothingQueued

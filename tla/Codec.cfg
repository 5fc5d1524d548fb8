\* Bytes of 8 values: frames of at most 62 bytes, cut anywhere.
CONSTANTS
    Radix = 8
    Batches <- ThreeFrames
SPECIFICATION FairSpec
INVARIANTS
    FramesIntact
    BufferIsPartial
PROPERTY AllFramesArrive
CHECK_DEADLOCK FALSE

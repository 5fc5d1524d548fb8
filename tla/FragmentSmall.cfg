\* Frames of 26 bytes: 8 bytes of arguments in a continuation frame, 6 in the first.
CONSTANTS
    FRAME_MAX_LENGTH = 26
    FieldsLen = 2
    ArgLens <- SmallLens
    Schemes <- RawAndJson
SPECIFICATION FairSpec
INVARIANTS
    TypeOK
    FramesWellFormed
    FailsOnlyWhenTight
    RoundTripUnlessTight
    BytesConserved
    NoArgumentSplit
    JsonIntact
    AcceptedOnlyIfSent
PROPERTY EventuallyRead
CHECK_DEADLOCK FALSE

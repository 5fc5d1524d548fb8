\* The constants of the code and the lengths around its frame boundaries.
CONSTANTS
    FRAME_MAX_LENGTH = 65534
    FieldsLen = 56
    ArgLens <- RealLens
    Schemes <- OnlyRaw
SPECIFICATION Spec
INVARIANT RoundTrip
CHECK_DEADLOCK FALSE

\* write() takes part of what it is given.
CONSTANTS
    p1 = p1
    p2 = p2
    p3 = p3
    Proc <- MCProc
    Nobody = Nobody
    BlockSize = 40
    MaxTarget = 2
    Payload <- MCPayload
    FlockMayFail = FALSE
    WriteMayBeShort = TRUE
SPECIFICATION Spec
INVARIANT PrintedReadsBack

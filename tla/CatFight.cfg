\* Three invocations, records of 16 to 33 bytes, files of 40 bytes.
CONSTANTS
    p1 = p1
    p2 = p2
    p3 = p3
    Proc <- MCProc3
    Nobody = Nobody
    BlockSize = 40
    MaxTarget = 3
    Payload <- MCPayload
    FlockMayFail = FALSE
    WriteMayBeShort = FALSE
SPECIFICATION Spec
SYMMETRY MCSymmetry
INVARIANTS
    TypeOK
    LocksAreHeld
    NoOverlap
    PrintedReadsBack
    SuccessIsPrinted
PROPERTY ImplementsStore

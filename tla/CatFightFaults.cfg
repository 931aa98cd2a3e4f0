\* Three invocations that fill a file each, two files: locks that fail, short
\* writes, no file left for the last one.  Only p1 is scheduled fairly.
CONSTANTS
    p1 = p1
    p2 = p2
    p3 = p3
    Proc <- MCProc3
    Nobody = Nobody
    BlockSize = 17
    MaxTarget = 2
    Payload <- MCOnePayload
    FlockMayFail = TRUE
    WriteMayBeShort = TRUE
SPECIFICATION FairSpec
INVARIANT HintIsSound
PROPERTY NeverWaits

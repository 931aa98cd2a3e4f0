\* Files and records of up to four bytes, stdio in chunks of two; sources that
\* shrink, records cut in their header or at any byte behind it, with the next
\* record appended or not, and every call may fail.
CONSTANTS
    MaxLen = 4
    ChunkSize = 2
    SourceMayShrink = TRUE
    StdioMayFail = TRUE
    Extra <- MCExtra
    RecordMayBeCut = TRUE
SPECIFICATION USpec
INVARIANTS
    ArrivesInOrder
    ZeroMeansWhole
PROPERTY UEnds

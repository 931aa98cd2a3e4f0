\* The source is truncated during the copy.
CONSTANTS
    MaxLen = 5
    ChunkSize = 2
    SourceMayShrink = TRUE
    StdioMayFail = FALSE
SPECIFICATION Spec
INVARIANT ZeroMeansCopied

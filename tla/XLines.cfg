\* Two commands, which may end or be killed at any time, forks, freopens and
\* fopens that fail, and every way to cut the input into lines.
CONSTANTS
    Parallelism = 2
    InputLen = 5
    BufSize = 2
    PipeSize = 1
SPECIFICATION FairSpec
INVARIANTS
    LinesAreDealt
    NothingIsLost
PROPERTY EverybodyEnds

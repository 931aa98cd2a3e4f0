\* Two invocations with one output file; one call may fail of itself, and the
\* programs may leave processes behind.
CONSTANTS
    p1 = p1
    p2 = p2
    Proc <- MCProc
    Nobody = Nobody
    Output = 2
    MaxFaults = 1
SPECIFICATION FairSpec
INVARIANTS
    StatusTells
PROPERTIES
    ReplacesAtomically
    EndsAfterProgram

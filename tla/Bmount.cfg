\* Anything at src (two levels deep, and whosever they are) with a good dest, and anything at
\* dest with a good src; one call that fails of itself, and a user who changes one of the two
\* as often as he likes.
CONSTANTS
    MaxFaults = 1
    MaxTouched = 1
    Requests <- MCAll
SPECIFICATION Spec
INVARIANTS
    BindsWhatWasChecked
    StaysInMounts
PROPERTIES
    GoodRequestSucceeds

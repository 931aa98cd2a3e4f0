\* Capabilities 0 to 3, two calls that fail of themselves.
CONSTANTS
    LastCap = 3
    SetPcap = 2
    MaxFaults = 2
SPECIFICATION Spec
INVARIANTS
    ShellIsDropped
PROPERTIES
    ShellStarts

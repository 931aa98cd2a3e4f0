\* The directory to be read is the root directory.
CONSTANTS
    MaxFaults = 0
    Jobs <- MCJobsRoot
    Grants <- MCGrantReadGrants
SPECIFICATION Spec
INVARIANTS
    AssertHolds

\* Seven paths, five templates, with and without --disable-security; every
\* grant with at most one capability missing; one call that fails of itself.
CONSTANTS
    MaxFaults = 1
    Jobs <- MCJobs
    Grants <- MCGrantReadGrants
SPECIFICATION ReadersSpec
INVARIANTS
    HostUntouched
    OnlyReadingLeft
    TemplateReadAsUser
    CommandFindsEverything
PROPERTIES
    CommandStarts

CONSTANTS
    MaxHosts = 2
    MaxMembers = 2
    Trees = {2}
    Bounds <- MCBounds
SPECIFICATION FairSpec
INVARIANTS
    AppliedOnce
    ReportTrue
    EditsKept
PROPERTIES
    Reported
CHECK_DEADLOCK FALSE

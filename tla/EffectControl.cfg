CONSTANTS
    MaxHosts = 2
    MaxCalls = 2
    Effects = {1}
SPECIFICATION FairSpec
INVARIANTS
    AtMostOnce
    OutcomeTrue
    RowsAgree
PROPERTIES
    SettledOnce
    SettledOrInFlight
CHECK_DEADLOCK FALSE

SPECIFICATION FairSpec
CONSTANTS
    Peer = {p1, p2}
    Key = {k}
    Value = {v}
    NoEntry = NoEntry
    Torn = Torn
    Retention = 1
    Repeat = 1
    MaxTime = 2
    MaxLogs = 2
    MaxCrashes = 1
 
PROPERTIES LoggedIsVisible Convergence
CHECK_DEADLOCK FALSE

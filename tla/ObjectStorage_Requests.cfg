\* Three requests on one object and its bucket, pools of one connection.
SPECIFICATION FairSpec
CONSTANTS
    MaxRequests = 3
    Callers = {1, 2, 3}
    MaxConns = 1
    MaxPools = 2
    Usages <- AllUsages
CHECK_DEADLOCK FALSE
INVARIANTS TypeOK NoPoolLost ViewsAgree
PROPERTIES EveryRequestAnswered

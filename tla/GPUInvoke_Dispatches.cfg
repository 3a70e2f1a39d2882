\* Three dispatched invocations, two and a restart, or five and the rate limiter.
SPECIFICATION Spec
CONSTANTS
    MaxInvocations = 5
    maxConsecutiveErrors = 2
    Interval = 2
    MaxTime = 6
    Usages <- AllUsages
CHECK_DEADLOCK FALSE
INVARIANTS TypeOK BilledOnceAnsweredTruly RateKept

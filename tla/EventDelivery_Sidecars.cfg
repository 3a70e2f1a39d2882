\* Two events; two sidecars, or one and a consumer that changes; two
\* deliveries of up to two attempts each.
SPECIFICATION FairSpec
CONSTANTS
    MaxEvents = 2
    Subjects = {"database", "storage"}
    Sidecars = {1, 2}
    maxRetries = 1
    MaxDeliver = 2
    Usages <- BothUsages
CHECK_DEADLOCK FALSE
INVARIANTS TypeOK
PROPERTIES ImplementsContract EverySettled

\* One project that changes between the largest stack and a cache only,
\* and is deleted anywhere, or two small ones and room for one.
SPECIFICATION LiveSpec
CONSTANTS
    a = a
    b = b
    Projects <- TwoProjects
    Scenarios <- OneOrTwo
    MaxTotalProjects = 1
    MaxGen = 2
    MaxKeys = 2
    MaxFaults = 1
CHECK_DEADLOCK FALSE
INVARIANTS TypeOK KeysConsistent ReadyIsExact
PROPERTIES ImplementsContract ProjectsSettle

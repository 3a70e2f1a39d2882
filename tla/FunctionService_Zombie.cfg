\* GetFunction heals a function that is being deleted.
SPECIFICATION Spec
CONSTANTS
    NoSpec = NoSpec
    Fields = {f}
    Values = {a, b}
    Specs <- MCSpecs
    Reqs = {r1, r2}
    MaxFails = 0
    MaxUid = 2
    MaxGen = 2
INVARIANTS NoZombie
CHECK_DEADLOCK FALSE

\* Two requests at a time, one failing call, a function deleted and created again.
SPECIFICATION FairSpec
CONSTANTS
    NoSpec = NoSpec
    Fields = {f}
    Values = {a}
    Specs <- MCSpecs
    Reqs = {r1, r2}
    MaxFails = 1
    MaxUid = 2
    MaxGen = 1
INVARIANTS TypeOK ReadyRowHasImage
PROPERTIES DeletedForGood SelfHeals StatusConverges
CHECK_DEADLOCK FALSE

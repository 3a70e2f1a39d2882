\* Progress of one object, through one update and a deletion.
SPECIFICATION MCSpec
CONSTANTS
    NoSpec = NoSpec
    First = s1
    Specs = {s1, s2}
    InvalidSpecs = {}
    UnbuildableSpecs = {}
    MaxUid = 1
    MaxGen = 2
PROPERTIES Settles DeletionCompletes
CHECK_DEADLOCK FALSE

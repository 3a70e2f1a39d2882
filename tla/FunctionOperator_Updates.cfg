\* One object whose spec is changed once, among good, invalid and unbuildable specs.
SPECIFICATION Spec
CONSTANTS
    NoSpec = NoSpec
    Specs = {s1, s2, bad, odd}
    InvalidSpecs = {bad}
    UnbuildableSpecs = {odd}
    MaxUid = 1
    MaxGen = 2
SYMMETRY SpecSymmetry
INVARIANTS TypeOK OwnImageMatchesSpec
PROPERTIES ImplementsContract ReadyOnlyWhenServing
CHECK_DEADLOCK FALSE

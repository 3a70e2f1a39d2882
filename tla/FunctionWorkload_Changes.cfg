\* Every kind, event triggers with, without subjects or none, external GPU or not, changed twice.
SPECIFICATION WorkloadSpec
CONSTANTS
    Kinds <- AllKinds
    GPUs = {TRUE, FALSE}
    MaxGen = 3
INVARIANTS WorkloadTypeOK ReadyIsComplete LeftoversAccounted
PROPERTIES InClusterKeepsServing

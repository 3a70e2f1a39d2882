\* Two concurrent requests: creations against a limit of one, the life of one
\* project, its API keys, or two secrets whose names share a Secret; or three
\* that create and delete one secret.
SPECIFICATION FairSpec
CONSTANTS
    a = a
    b = b
    c = c
    Ids <- ThreeIds
    Home = a
    KeyNames = {"default"}
    SecretNames <- TwoNames
    ToK8sSecretName <- SharedSecret
    Reqs = {1, 2, 3}
    Usages <- AllUsages
    maxProjectsPerTenant = 1
    MaxTotalProjects = 0
    MaxSids = 2
CHECK_DEADLOCK FALSE
INVARIANTS TypeOK OverrunBounded StoresAgree
PROPERTY NotLeftProvisioning

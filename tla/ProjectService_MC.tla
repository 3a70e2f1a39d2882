--------------------------- MODULE ProjectService_MC ---------------------------
(* Instances of ProjectService for TLC.                                    *)
EXTENDS ProjectService

CONSTANTS a, b, c
ThreeIds == {a, b, c}

(* API_KEY and API_KEY_ share the Secret api-key.                          *)
TwoNames == {"API_KEY", "API_KEY_"}
SharedSecret == [n \in TwoNames |-> "api-key"]

Two == {1, 2}
Creating == [calls |-> {"CreateProject", "DeleteProject"}, ids |-> ThreeIds,
             names |-> {}, reqs |-> Two, fails |-> 1]
Living == [calls |-> {"CreateProject", "GetProject", "PauseProject", "ResumeProject",
                      "DeleteProject"}, ids |-> {a}, names |-> {}, reqs |-> Two, fails |-> 1]
Keys == [calls |-> {"CreateProject", "DeleteProject", "CreateApiKey", "RevokeApiKey"},
         ids |-> {a}, names |-> {}, reqs |-> Two, fails |-> 1]
Secrets == [calls |-> {"CreateProject", "CreateSecret", "UpdateSecretValue",
                       "DeleteSecret", "DeleteProject"}, ids |-> {a},
            names |-> TwoNames, reqs |-> Two, fails |-> 1]
(* Two deletions of one secret, and a creation between them.               *)
Deletions == [calls |-> {"CreateProject", "CreateSecret", "DeleteSecret"}, ids |-> {a},
              names |-> {"API_KEY"}, reqs |-> Reqs, fails |-> 0]
AllUsages == {Creating, Living, Keys, Secrets, Deletions}
=============================================================================

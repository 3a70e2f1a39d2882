-------------------------- MODULE ProjectOperator_MC --------------------------
(* Instances of ProjectOperator for TLC.                                   *)
EXTENDS ProjectOperator

CONSTANTS a, b
TwoProjects == {a, b}

Full == [pg |-> TRUE, pooler |-> TRUE, redis |-> TRUE, rest |-> TRUE]
CacheOnly == [pg |-> FALSE, pooler |-> FALSE, redis |-> TRUE, rest |-> FALSE]
OneChanging == [p \in {a, b} |-> IF p = a THEN {Full, CacheOnly} ELSE {}]
Bare == [pg |-> FALSE, pooler |-> FALSE, redis |-> FALSE, rest |-> FALSE]
TwoSmall == [p \in {a, b} |-> {Bare}]
OneOrTwo == {OneChanging, TwoSmall}
OnlySmall == {TwoSmall}
=============================================================================

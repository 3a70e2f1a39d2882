-------------------------- MODULE CDCReplicator_MC --------------------------
(* Instances of CDCReplicator for TLC: a decoded message may be shorter or   *)
(* longer than its record, Begin and Commit messages are shorter.            *)
EXTENDS CDCReplicator
=============================================================================

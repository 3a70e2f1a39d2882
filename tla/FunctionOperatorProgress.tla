------------------------ MODULE FunctionOperatorProgress ------------------------
(***************************************************************************)
(* Progress of the Function controller.  The workqueue retries a key for   *)
(* as long as it is not done, so progress is promised once clients stop    *)
(* changing the function, API calls stop failing and replicas stop dying.  *)
(* When that happens is recorded in a history variable: an abandoned       *)
(* reconcile cannot be told by its effect from one that asks for a requeue *)
(* (Requeue) or writes what is already stored (AwaitBuild), and a          *)
(* reconcile that does so for ever must count against progress.            *)
(***************************************************************************)
EXTENDS FunctionOperator

VARIABLE calm  \* history: no client step and no fault happens any more

progressVars == <<vars, calm>>

ProgressInit == Init /\ calm = FALSE

Subside == ~calm /\ calm' = TRUE /\ UNCHANGED vars
Disturbance == ~calm /\ (Client \/ WorkerFault \/ ClusterFault) /\ UNCHANGED calm
Regular == (Worker \/ Cluster) /\ UNCHANGED calm

ProgressNext == Subside \/ Disturbance \/ Regular

(* The worker runs, informers catch up, pods are scheduled and end,        *)
(* replicas become ready.  A build may fail, but need not.                 *)
Fairness ==
    /\ WF_progressVars(Subside)
    /\ WF_progressVars(Worker /\ UNCHANGED calm)
    /\ WF_progressVars(SyncFunction /\ UNCHANGED calm)
    /\ WF_progressVars(SyncJobs /\ UNCHANGED calm)
    /\ \A g \in Gens : /\ WF_progressVars(PodStart(g) /\ UNCHANGED calm)
                      /\ WF_progressVars(BuildSucceeds(g) /\ UNCHANGED calm)
    /\ WF_progressVars(ReplicaReady /\ UNCHANGED calm)
    /\ WF_progressVars(RolloutCompletes /\ UNCHANGED calm)

ProgressSpec == ProgressInit /\ [][ProgressNext]_progressVars /\ Fairness

-----------------------------------------------------------------------------
(* Properties.                                                             *)

(* Every generation of a valid spec that stays current is either serving   *)
(* and Ready or recorded as a failed build in the end, after any number of *)
(* stale reads, conflicts, abandoned reconciles, failed wirings and lost   *)
(* replicas (Reconcile and its requeues).                                  *)
Buildable == Specs \ (InvalidSpecs \cup UnbuildableSpecs)
Settled == \/ Ready /\ Serving
           \/ Current /\ cr.phase = "Failed" /\ cr.build = "Failed"
Settles == (calm /\ Live(cr) /\ cr.spec \in Buildable) ~> []Settled

(* An object marked for deletion is gone in the end: cleanup failures and  *)
(* conflicts never strand the finalizer (handleDeletion).                  *)
DeletionCompletes == cr.deleting ~> ~Exists(cr)
=============================================================================

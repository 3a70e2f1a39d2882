--------------------------- MODULE FunctionOperator ---------------------------
(***************************************************************************)
(* The Function controller: its single worker (Reconcile and everything it *)
(* calls), the informer caches it reads from, the Kaniko build Jobs, the   *)
(* image registry, the Deployment and its replicas, and the trigger wiring *)
(* (NATS consumer, HTTPRoute) of one light-deployment function with an     *)
(* inline source, an Http and a DatabaseChange trigger.                    *)
(* Code: operator/internal/controller/function_controller.go and           *)
(* operator/internal/build/kaniko.go.                                      *)
(*                                                                         *)
(* One action is one API call of the worker with the pure code around it;  *)
(* between two of them clients, the cluster and the informers take steps.  *)
(***************************************************************************)
EXTENDS FunctionCR

CONSTANTS InvalidSpecs,     \* of a project with another namespace, or refused by
                            \* validateGPUConfig or GenerateDockerfile
          UnbuildableSpecs  \* KanikoBuildJob returns an error (git url, ref, path)

ASSUME SpecKindsAssumption ==
    InvalidSpecs \subseteq Specs /\ UnbuildableSpecs \subseteq Specs

VARIABLES
    seen,      \* the object in the Function informer: what r.Get returns
    op,        \* the worker: the call it is about to make and its copy fn
    cm,        \* spec written in the build ConfigMaps, NoSpec when absent
    jobs,      \* build Job of each generation number
    jobsSeen,  \* the Jobs in the informer: what r.List returns
    registry,  \* spec each image tag was built from, NoSpec when not pushed
    deploy,    \* Deployment: tmpl, the image tag of its template (0: absent),
               \* and ready, the tags that have a ready replica
    wired      \* what routes invocations here: "consumer", "route"

opVars == <<seen, op, cm, jobs, jobsSeen, registry, deploy, wired>>
vars == <<crVars, opVars>>

JobStates == {"absent", "pending", "running", "succeeded", "failed"}
ActiveStates == {"pending", "running"}
(* src is the spec the build pod mounted.                                  *)
JobRecs == [st : JobStates, src : Specs \cup {NoSpec}]
NoJob == [st |-> "absent", src |-> NoSpec]

PCs == {"idle", "reject", "build", "jobs", "mark", "workload", "consumer",
        "route", "ready", "cleanup", "unsubscribe", "release"}
Idle == [pc |-> "idle", fn |-> NoCR]
At(pc) == op.pc = pc
Goto(pc) == op' = [op EXCEPT !.pc = pc]

Init ==
    /\ cr = NoCR /\ uids = 0 /\ seen = NoCR
    /\ op = Idle
    /\ cm = NoSpec
    /\ jobs = [g \in Gens |-> NoJob] /\ jobsSeen = jobs
    /\ registry = [g \in Gens |-> NoSpec]
    /\ deploy = [tmpl |-> 0, ready |-> {}]
    /\ wired = {}

-----------------------------------------------------------------------------
(* Reconcile up to the first write.                                        *)

(* What GenerateDockerfile, validateGPUConfig or the check of the          *)
(* namespace refuses is refused for good.                                  *)
Invalid(fn) == fn.spec \in InvalidSpecs

(* Where Reconcile goes with an object that carries the finalizer.         *)
Plan(fn) == IF Invalid(fn) THEN "reject"
            ELSE IF NeedsBuild(fn) THEN "build"
            ELSE IF fn.image = 0 THEN "idle"     \* no image, requeue
            ELSE "workload"

Enter(pc, fn) == op' = IF pc = "idle" THEN Idle ELSE [pc |-> pc, fn |-> fn]

StartReconcile ==
    /\ At("idle")
    /\ Live(seen) /\ seen.fin
    /\ Enter(Plan(seen), seen)
    /\ UNCHANGED <<crVars, seen, cm, jobs, jobsSeen, registry, deploy, wired>>

(* The finalizer is missing: the Update fails if the cache was stale.      *)
AddFinalizer ==
    /\ At("idle")
    /\ Live(seen) /\ ~seen.fin
    /\ seen = cr
    /\ cr' = [cr EXCEPT !.fin = TRUE]
    /\ Enter(Plan(cr'), cr')
    /\ UNCHANGED <<uids, seen, cm, jobs, jobsSeen, registry, deploy, wired>>

StartDeletion ==
    /\ At("idle")
    /\ Exists(seen) /\ seen.deleting
    /\ op' = [pc |-> "cleanup", fn |-> seen]
    /\ UNCHANGED <<crVars, seen, cm, jobs, jobsSeen, registry, deploy, wired>>

(* A conflict, any other API error, a missing project or a restart of the  *)
(* operator ends the reconcile; what was written stays, and the key is     *)
(* queued again.                                                           *)
Abandon ==
    /\ ~At("idle")
    /\ op' = Idle
    /\ UNCHANGED <<crVars, seen, cm, jobs, jobsSeen, registry, deploy, wired>>

(* Mutant: a write that does not carry the resourceVersion.                *)
WriteStatusBlind(c) == cr' = c /\ op' = Idle /\ UNCHANGED uids

(* r.Status().Update: refused when the object changed since it was read;   *)
(* either way the reconcile ends and the key is queued again.              *)
WriteStatus(c) == /\ cr' = IF cr = op.fn THEN c ELSE cr
                  /\ op' = Idle
                  /\ UNCHANGED uids

RejectSpec ==
    /\ At("reject")
    /\ WriteStatus(WithFailed(op.fn))
    /\ UNCHANGED <<seen, cm, jobs, jobsSeen, registry, deploy, wired>>

-----------------------------------------------------------------------------
(* reconcileBuild.                                                         *)

(* Both ConfigMaps are computed from the spec alone.                       *)
BuildInput(fn) == fn.spec

(* KanikoBuildJob returns an error: validateGitRepo, ...Ref or ...Path.    *)
Unbuildable(fn) == fn.spec \in UnbuildableSpecs

(* Mutant: existing ConfigMaps are kept.                                   *)
WriteBuildInputOnce ==
    /\ At("build")
    /\ cm' = IF cm = NoSpec THEN BuildInput(op.fn) ELSE cm
    /\ Goto("jobs")
    /\ UNCHANGED <<crVars, seen, jobs, jobsSeen, registry, deploy, wired>>

WriteBuildInput ==
    /\ At("build")
    /\ cm' = BuildInput(op.fn)
    /\ Goto("jobs")
    /\ UNCHANGED <<crVars, seen, jobs, jobsSeen, registry, deploy, wired>>

(* The listed Job whose generation label is the object's generation.       *)
Listed == jobsSeen[op.fn.gen]

AdoptBuild ==
    /\ At("jobs")
    /\ Listed.st = "succeeded"
    /\ WriteStatus(WithBuilt(op.fn))
    /\ UNCHANGED <<seen, cm, jobs, jobsSeen, registry, deploy, wired>>

RecordBuildFailure ==
    /\ At("jobs")
    /\ Listed.st = "failed"
    /\ WriteStatus(WithBuildFailed(op.fn))
    /\ UNCHANGED <<seen, cm, jobs, jobsSeen, registry, deploy, wired>>

AwaitBuild ==
    /\ At("jobs")
    /\ Listed.st \in ActiveStates
    /\ WriteStatus(IF op.fn.phase = "Building" THEN op.fn
                   ELSE WithBuilding(op.fn))
    /\ UNCHANGED <<seen, cm, jobs, jobsSeen, registry, deploy, wired>>

(* No Job in the list and the concurrency limit not reached (when it is    *)
(* reached, the reconcile is abandoned).  Creating a Job whose name exists *)
(* is AlreadyExists, and the reconcile ends.                               *)
CreateBuildJob ==
    /\ At("jobs")
    /\ Listed.st = "absent"
    /\ ~Unbuildable(op.fn)
    /\ IF jobs[op.fn.gen].st = "absent"
       THEN /\ jobs' = [jobs EXCEPT ![op.fn.gen].st = "pending"]
            /\ Goto("mark")
       ELSE op' = Idle /\ UNCHANGED jobs
    /\ UNCHANGED <<crVars, seen, cm, jobsSeen, registry, deploy, wired>>

MarkBuilding ==
    /\ At("mark")
    /\ WriteStatus(WithBuilding(op.fn))
    /\ UNCHANGED <<seen, cm, jobs, jobsSeen, registry, deploy, wired>>

-----------------------------------------------------------------------------
(* reconcileWorkload, the trigger wiring and updateFunctionStatus.         *)

(* Of the pod template, the image.                                         *)
PodTemplate(fn) == fn.image

(* Mutant: an existing Deployment is kept.                                 *)
ApplyDeploymentOnce ==
    /\ At("workload")
    /\ deploy' = IF deploy.tmpl = 0 THEN [deploy EXCEPT !.tmpl = PodTemplate(op.fn)]
                 ELSE deploy
    /\ Goto("consumer")
    /\ UNCHANGED <<crVars, seen, cm, jobs, jobsSeen, registry, wired>>

ApplyDeployment ==
    /\ At("workload")
    /\ deploy' = [deploy EXCEPT !.tmpl = PodTemplate(op.fn)]
    /\ Goto("consumer")
    /\ UNCHANGED <<crVars, seen, cm, jobs, jobsSeen, registry, wired>>

EnsureConsumer ==
    /\ At("consumer")
    /\ wired' = wired \cup {"consumer"}
    /\ Goto("route")
    /\ UNCHANGED <<crVars, seen, cm, jobs, jobsSeen, registry, deploy>>

EnsureRoute ==
    /\ At("route")
    /\ wired' = wired \cup {"route"}
    /\ Goto("ready")
    /\ UNCHANGED <<crVars, seen, cm, jobs, jobsSeen, registry, deploy>>

(* One of these calls fails: setFunctionFailed.                            *)
FailWorkload ==
    /\ op.pc \in {"workload", "consumer", "route"}
    /\ WriteStatus(WithFailed(op.fn))
    /\ UNCHANGED <<seen, cm, jobs, jobsSeen, registry, deploy, wired>>

(* ReadyReplicas >= 1 (else Requeue).                                      *)
MarkReady ==
    /\ At("ready")
    /\ deploy.ready # {}
    /\ WriteStatus(WithReady(op.fn))
    /\ UNCHANGED <<seen, cm, jobs, jobsSeen, registry, deploy, wired>>

(* KanikoBuildJob fails, or no replica is ready: tried again later.        *)
Requeue ==
    /\ \/ At("jobs") /\ Listed.st = "absent" /\ Unbuildable(op.fn)
       \/ At("ready") /\ deploy.ready = {}
    /\ op' = Idle
    /\ UNCHANGED <<crVars, seen, cm, jobs, jobsSeen, registry, deploy, wired>>

-----------------------------------------------------------------------------
(* handleDeletion.  Nothing here, nor an ownerReference, removes the       *)
(* Deployment or the route.                                                *)

CleanupBuilds ==
    /\ At("cleanup")
    /\ jobs' = [g \in Gens |-> IF jobsSeen[g].st = "absent" THEN jobs[g]
                               ELSE NoJob]
    /\ cm' \in {cm, NoSpec}         \* a stale informer may miss a ConfigMap
    /\ Goto("unsubscribe")
    /\ UNCHANGED <<crVars, seen, jobsSeen, registry, deploy, wired>>

(* A failed DeleteConsumer is only logged.                                 *)
DeleteConsumer ==
    /\ At("unsubscribe")
    /\ wired' \in {wired, wired \ {"consumer"}}
    /\ Goto("release")
    /\ UNCHANGED <<crVars, seen, cm, jobs, jobsSeen, registry, deploy>>

(* Mutant: the finalizer is removed from the copy only.                    *)
RemoveFinalizerInMemory ==
    /\ At("release")
    /\ WriteStatus(op.fn)
    /\ UNCHANGED <<seen, cm, jobs, jobsSeen, registry, deploy, wired>>

RemoveFinalizer ==
    /\ At("release")
    /\ WriteStatus(NoCR)
    /\ UNCHANGED <<seen, cm, jobs, jobsSeen, registry, deploy, wired>>

Worker ==
    \/ StartReconcile \/ AddFinalizer \/ StartDeletion
    \/ RejectSpec \/ WriteBuildInput \/ AdoptBuild \/ RecordBuildFailure
    \/ AwaitBuild \/ CreateBuildJob \/ MarkBuilding
    \/ ApplyDeployment \/ EnsureConsumer \/ EnsureRoute \/ MarkReady
    \/ Requeue \/ CleanupBuilds \/ DeleteConsumer \/ RemoveFinalizer

WorkerFault == Abandon \/ FailWorkload

-----------------------------------------------------------------------------
(* The cluster: informers, build pods, replicas.                           *)

SyncFunction ==
    /\ seen # cr /\ seen' = cr
    /\ UNCHANGED <<crVars, op, cm, jobs, jobsSeen, registry, deploy, wired>>

SyncJobs ==
    /\ jobsSeen # jobs /\ jobsSeen' = jobs
    /\ UNCHANGED <<crVars, seen, op, cm, jobs, registry, deploy, wired>>

(* A build pod starts, or is started again under backoffLimit: it mounts   *)
(* the ConfigMaps as they are now, and waits while they are missing.       *)
PodStart(g) ==
    /\ jobs[g].st \in ActiveStates
    /\ cm # NoSpec
    /\ jobs' = [jobs EXCEPT ![g].st = "running", ![g].src = cm]
    /\ UNCHANGED <<crVars, seen, op, cm, jobsSeen, registry, deploy, wired>>

BuildSucceeds(g) ==
    /\ jobs[g].st = "running"
    /\ jobs' = [jobs EXCEPT ![g].st = "succeeded"]
    /\ registry' = [registry EXCEPT ![g] = jobs[g].src]
    /\ UNCHANGED <<crVars, seen, op, cm, jobsSeen, deploy, wired>>

(* backoffLimit or activeDeadlineSeconds is exceeded.                      *)
BuildFails(g) ==
    /\ jobs[g].st \in ActiveStates
    /\ jobs' = [jobs EXCEPT ![g].st = "failed"]
    /\ UNCHANGED <<crVars, seen, op, cm, jobsSeen, registry, deploy, wired>>

ReplicaReady ==
    /\ deploy.tmpl # 0
    /\ registry[deploy.tmpl] # NoSpec
    /\ deploy' = [deploy EXCEPT !.ready = @ \cup {deploy.tmpl}]
    /\ UNCHANGED <<crVars, seen, op, cm, jobs, jobsSeen, registry, wired>>

(* Rolling update: old replicas go once a new one is ready.                *)
RolloutCompletes ==
    /\ deploy.tmpl \in deploy.ready
    /\ deploy' = [deploy EXCEPT !.ready = {deploy.tmpl}]
    /\ UNCHANGED <<crVars, seen, op, cm, jobs, jobsSeen, registry, wired>>

ReplicaLost(t) ==
    /\ t \in deploy.ready
    /\ deploy' = [deploy EXCEPT !.ready = @ \ {t}]
    /\ UNCHANGED <<crVars, seen, op, cm, jobs, jobsSeen, registry, wired>>

Cluster ==
    \/ SyncFunction \/ SyncJobs
    \/ \E g \in Gens : PodStart(g) \/ BuildSucceeds(g) \/ BuildFails(g)
    \/ ReplicaReady \/ RolloutCompletes
ClusterFault == \E t \in Gens : ReplicaLost(t)

Client == /\ (\E s \in Specs : ApiCreate(s) \/ ApiUpdate(cr, s)) \/ ApiDelete
          /\ UNCHANGED opVars

Next == Worker \/ WorkerFault \/ Cluster \/ ClusterFault \/ Client
Spec == Init /\ [][Next]_vars

-----------------------------------------------------------------------------
(* Properties.                                                             *)

TypeOK ==
    /\ cr \in CRs /\ uids \in 0..MaxUid
    /\ seen \in CRs
    /\ op \in [pc : PCs, fn : CRs]
    /\ cm \in Specs \cup {NoSpec}
    /\ jobs \in [Gens -> JobRecs] /\ jobsSeen \in [Gens -> JobRecs]
    /\ registry \in [Gens -> Specs \cup {NoSpec}]
    /\ deploy \in [tmpl : 0..MaxGen, ready : SUBSET Gens]
    /\ wired \subseteq {"consumer", "route"}

Current == Live(cr) /\ cr.obs = cr.gen
Ready == Current /\ cr.phase = "Ready"

Serving == /\ deploy.tmpl = cr.image /\ cr.image = cr.gen
           /\ wired = {"consumer", "route"}

(* The phase becomes Ready only for the generation that is deployed, with  *)
(* the image recorded for it and both triggers wired (Reconcile steps 6 to *)
(* 11), whatever was updated, deleted, recreated, abandoned or retried     *)
(* before.                                                                 *)
BecomesReady == cr'.phase = "Ready" /\ cr.phase # "Ready"
ReadyOnlyWhenServing == [][BecomesReady => Serving]_vars

(* reconcileBuild, on adopting a build: "Phase transitions to Ready after  *)
(* workload deployment is verified", so a Ready phase at the observed,     *)
(* current generation means that this generation is deployed.              *)
ReadyIsServing == Ready => Serving

(* The image adopted for the current generation was built from the spec of *)
(* that generation, although the build pod mounts ConfigMaps that every    *)
(* reconcile overwrites and the image is only found by a generation        *)
(* number.  This holds for an object that was never deleted and recreated:  *)
(* see AdoptedImageMatchesSpec.                                            *)
OwnImageMatchesSpec ==
    (Current /\ cr.image # 0 /\ cr.uid = 1)
        => registry[cr.image] = cr.spec

(* The comment over the Job lookup of reconcileBuild: it finds the "build  *)
(* job matching current generation".                                       *)
AdoptedImageMatchesSpec ==
    (Current /\ cr.image # 0) => registry[cr.image] = cr.spec

(* updateFunctionStatus, by its comment, sets Ready "after verifying       *)
(* Deployment readiness": some replica of the new image was ready.         *)
ReadyWasVerified ==
    [][BecomesReady => cr.image \in deploy.ready]_vars

(* handleDeletion "processes the finalizer cleanup": once the object is    *)
(* gone and the worker has noticed, no build Job is left and nothing       *)
(* consumes events on its behalf.                                          *)
Gone == ~Exists(cr) /\ ~Exists(seen) /\ At("idle")
DeletionCleansUp == Gone => \A g \in Gens : jobs[g].st = "absent"

(* The dashboard: deleting "will permanently delete the function and all   *)
(* its triggers".                                                          *)
DeletionRemovesTriggers == Gone => "route" \notin wired

(* The controller implements the contract the other components rely on.    *)
Contract == INSTANCE FunctionContract
ImplementsContract == Contract!Spec
=============================================================================

--------------------------- MODULE FunctionWorkload ---------------------------
(***************************************************************************)
(* The cluster objects one built function has, and how the controller      *)
(* moves them from the set the previous spec needed to the set the current *)
(* one needs: Deployment, Service, HTTPRoute, NATS consumer, the three     *)
(* kinds of autoscaler, and what an external GPU function has instead.     *)
(* Code: steps 5 to 11 of Reconcile in                                     *)
(* operator/internal/controller/function_controller.go and the conditions  *)
(* of the Desired... builders in operator/internal/resources. Build Jobs   *)
(* and the informer's delay are FunctionOperator's: here a Job ends as it  *)
(* may, and a copy is old when a change has overtaken its reconcile.       *)
(***************************************************************************)
EXTENDS Naturals

CONSTANTS Kinds,   \* kinds in use, of the three below
          GPUs,    \* values of "runs on an external GPU provider" in use
          MaxGen   \* bound: spec changes

ASSUME ParametersAssumption ==
    /\ Kinds \subseteq {"light-deployment", "heavy-deployment", "heavy-job"}
    /\ GPUs \subseteq BOOLEAN /\ MaxGen \in Nat \ {0}

VARIABLES fn,     \* generation and spec of the custom resource
          status, \* its status: what the controller last wrote
          op,     \* the worker: next step and its copy of fn
          objs,   \* the objects that exist
          missed  \* history: stale objects whose delete failed unnoticed

workloadVars == <<fn, status, op, objs, missed>>

(* Event triggers may name no subject: a storage trigger without events.   *)
Specs == [kind : Kinds, gpu : GPUs, event : {"none", "silent", "subjects"}]
Fns == [gen : 1..MaxGen, spec : Specs]
(* image: the build succeeded and named its image. ready: the generation   *)
(* observed by the condition Ready while that is True, 0 while it is not.  *)
Statuses == [phase : {"", "Building", "Ready", "Failed"}, obs : 0..MaxGen,
             image : BOOLEAN, ready : 0..MaxGen]
(* An HTTPRoute has one name: podRoute and gpuRoute are its two targets.   *)
Routes == {"podRoute", "gpuRoute"}
Autoscalers == {"hpa", "scaledObject", "httpScaledObject"}
Objects == {"deployment", "service", "consumer", "gpuGrant", "gpuTimeout"}
             \cup Routes \cup Autoscalers
PCs == {"idle", "build", "workload", "gpuRoute", "gpuGrant", "gpuTimeout",
        "service", "consumer", "autoscaling", "route", "ready"}

WorkloadInit ==
    /\ fn \in [gen : {1}, spec : Specs]
    /\ status = [phase |-> "", obs |-> 0, image |-> FALSE, ready |-> 0]
    /\ op = [pc |-> "idle", fn |-> fn]
    /\ objs = {} /\ missed = {}

At(pc) == op.pc = pc
Goto(pc) == op' = [op EXCEPT !.pc = pc]
Wanted == op.fn.spec

(* A status update is refused when the object changed since it was read.   *)
WriteStatus(new) == status' = IF op.fn = fn THEN new ELSE status

(* Objects are created or updated, and one replaces another.               *)
Provide(new, replaced) ==
    /\ objs' = (objs \ replaced) \cup new
    /\ missed' = missed \ (replaced \cup new)

(* deleteStale...: a Get and a Delete whose errors are dropped.            *)
DropStale(stale, new) ==
    \E left \in SUBSET (objs \cap stale) :
        /\ objs' = (objs \ stale) \cup left \cup new
        /\ missed' = (missed \ (stale \cup new)) \cup left

-----------------------------------------------------------------------------
HasEventTrigger(s) == s.event # "none"
HasDeployment(s) == s.kind # "heavy-job" /\ ~s.gpu

(* DesiredFunctionService and DesiredFunctionHTTPRoute: deployments have   *)
(* implicit HTTP access.                                                   *)
HasHTTP(s) == s.kind # "heavy-job"

(* DesiredHPA, DesiredKEDAScaledObject, DesiredHTTPScaledObject.           *)
Autoscaler(s) ==
    CASE s.kind = "light-deployment" -> {"hpa"}
      [] s.kind = "heavy-deployment" /\ HasEventTrigger(s) -> {"scaledObject"}
      [] s.kind = "heavy-deployment" /\ ~HasEventTrigger(s) -> {"httpScaledObject"}
      [] OTHER -> {}

NeedsBuild == \/ status.obs < fn.gen
              \/ status.phase = "Building" /\ ~status.image

(* Any event of the function or of an object it owns, a status write of    *)
(* its own included, starts a reconcile. Without an image it waits.        *)
Start ==
    /\ At("idle")
    /\ op' = [fn |-> fn, pc |-> IF NeedsBuild THEN "build"
                               ELSE IF status.image THEN "workload" ELSE "idle"]
    /\ UNCHANGED <<fn, status, objs, missed>>

(* The generation's Job is created or runs; has succeeded; or has failed.  *)
(* None of the three touches the condition, and the second keeps the       *)
(* phase: Ready, if the status was not written while the Job ran.          *)
reconcileBuild ==
    /\ At("build")
    /\ \/ WriteStatus([status EXCEPT !.phase = "Building", !.image = FALSE])
       \/ WriteStatus([status EXCEPT !.obs = fn.gen, !.image = TRUE])
       \/ WriteStatus([status EXCEPT !.phase = "Failed", !.obs = fn.gen,
                                     !.image = FALSE])
    /\ Goto("idle")
    /\ UNCHANGED <<fn, objs, missed>>

(* Mutants: nothing is cleaned up for an external GPU function; a clean    *)
(* slate for every Deployment.                                             *)
reconcileWorkloadKeeping ==
    /\ At("workload")
    /\ IF HasDeployment(Wanted) THEN Provide({"deployment"}, {})
       ELSE IF Wanted.gpu THEN UNCHANGED <<objs, missed>>
       ELSE DropStale({"deployment", "service"} \cup Routes, {})
    /\ Goto(IF Wanted.gpu THEN "gpuRoute" ELSE "service")
    /\ UNCHANGED <<fn, status>>
reconcileWorkloadCleanSlate ==
    /\ At("workload")
    /\ DropStale({"deployment", "service"} \cup Routes,
                 IF HasDeployment(Wanted) THEN {"deployment"} ELSE {})
    /\ Goto(IF Wanted.gpu THEN "gpuRoute" ELSE "service")
    /\ UNCHANGED <<fn, status>>

reconcileWorkload ==
    /\ At("workload")
    /\ IF HasDeployment(Wanted) THEN Provide({"deployment"}, {})
       ELSE DropStale({"deployment", "service"} \cup Routes, {})
    /\ Goto(IF Wanted.gpu THEN "gpuRoute" ELSE "service")
    /\ UNCHANGED <<fn, status>>

(* External GPU: three objects, then straight to the status.               *)
reconcileGPUHTTPRoute ==
    /\ At("gpuRoute")
    /\ Provide({"gpuRoute"}, Routes)
    /\ Goto("gpuGrant")
    /\ UNCHANGED <<fn, status>>

reconcileGPUReferenceGrant ==
    /\ At("gpuGrant")
    /\ Provide({"gpuGrant"}, {})
    /\ Goto("gpuTimeout")
    /\ UNCHANGED <<fn, status>>

reconcileGPUBackendTrafficPolicy ==
    /\ At("gpuTimeout")
    /\ Provide({"gpuTimeout"}, {})
    /\ Goto("ready")
    /\ UNCHANGED <<fn, status>>

reconcileFunctionService ==
    /\ At("service")
    /\ IF HasHTTP(Wanted) THEN Provide({"service"}, {})
       ELSE DropStale({"service"}, {})
    /\ Goto("consumer")
    /\ UNCHANGED <<fn, status>>

(* A failed DeleteConsumer fails the reconcile. EnsureConsumer leaves a    *)
(* consumer alone when the triggers name no subject.                       *)
reconcileNATSConsumer ==
    /\ At("consumer")
    /\ CASE Wanted.event = "none" -> Provide({}, {"consumer"})
         [] Wanted.event = "silent" -> UNCHANGED <<objs, missed>>
         [] Wanted.event = "subjects" -> Provide({"consumer"}, {})
    /\ Goto("autoscaling")
    /\ UNCHANGED <<fn, status>>

reconcileAutoscaling ==
    /\ At("autoscaling")
    /\ DropStale(Autoscalers \ Autoscaler(Wanted), Autoscaler(Wanted))
    /\ Goto("route")
    /\ UNCHANGED <<fn, status>>

reconcileFunctionHTTPRoute ==
    /\ At("route")
    /\ IF HasHTTP(Wanted) THEN Provide({"podRoute"}, Routes)
       ELSE DropStale(Routes, {})
    /\ Goto("ready")
    /\ UNCHANGED <<fn, status>>

(* Mutants: without the resourceVersion; one generation too far.           *)
updateFunctionStatusBlind ==
    /\ At("ready")
    /\ HasDeployment(Wanted) => "deployment" \in objs
    /\ status' = [status EXCEPT !.phase = "Ready", !.obs = fn.gen, !.ready = fn.gen]
    /\ Goto("idle")
    /\ UNCHANGED <<fn, objs, missed>>
updateFunctionStatusNext ==
    /\ At("ready")
    /\ HasDeployment(Wanted) => "deployment" \in objs
    /\ WriteStatus([status EXCEPT !.phase = "Ready", !.obs = fn.gen + 1,
                                  !.ready = fn.gen])
    /\ Goto("idle")
    /\ UNCHANGED <<fn, objs, missed>>

(* Not before the Deployment exists (and a light one has a ready replica,  *)
(* else Abandon).                                                          *)
updateFunctionStatus ==
    /\ At("ready")
    /\ HasDeployment(Wanted) => "deployment" \in objs
    /\ WriteStatus([status EXCEPT !.phase = "Ready", !.obs = fn.gen, !.ready = fn.gen])
    /\ Goto("idle")
    /\ UNCHANGED <<fn, objs, missed>>

(* A check or a step fails.                                                *)
setFunctionFailed ==
    /\ op.pc \notin {"idle", "ready"}
    /\ WriteStatus([status EXCEPT !.phase = "Failed", !.ready = 0])
    /\ Goto("idle")
    /\ UNCHANGED <<fn, objs, missed>>

(* A conflict or a restart ends the reconcile; it is tried again.          *)
Abandon ==
    /\ ~At("idle")
    /\ Goto("idle")
    /\ UNCHANGED <<fn, status, objs, missed>>

ChangeSpec ==
    /\ fn.gen < MaxGen
    /\ \E s \in Specs \ {fn.spec} : fn' = [gen |-> fn.gen + 1, spec |-> s]
    /\ UNCHANGED <<status, op, objs, missed>>

ObjectStep == \/ reconcileWorkload
              \/ reconcileGPUHTTPRoute \/ reconcileGPUReferenceGrant
              \/ reconcileGPUBackendTrafficPolicy
              \/ reconcileFunctionService \/ reconcileNATSConsumer
              \/ reconcileAutoscaling \/ reconcileFunctionHTTPRoute
StatusStep == reconcileBuild \/ updateFunctionStatus \/ setFunctionFailed

WorkloadNext == Start \/ ObjectStep \/ StatusStep \/ Abandon \/ ChangeSpec
WorkloadSpec == WorkloadInit /\ [][WorkloadNext]_workloadVars

-----------------------------------------------------------------------------
WorkloadTypeOK ==
    /\ fn \in Fns
    /\ status \in Statuses
    /\ op \in [pc : PCs, fn : Fns]
    /\ objs \subseteq Objects
    /\ missed \subseteq objs

(* What a spec needs.                                                      *)
Needs(s) ==
    IF s.gpu THEN {"gpuRoute", "gpuGrant", "gpuTimeout"}
    ELSE (IF HasDeployment(s) THEN {"deployment"} ELSE {})
         \cup (IF HasHTTP(s) THEN {"service", "podRoute"} ELSE {})
         \cup (IF s.event = "subjects" THEN {"consumer"} ELSE {})
         \cup Autoscaler(s)

(* The condition Ready is True of the current generation.                  *)
ReportedReady == status.ready = fn.gen

(* What the spec needs is there while the condition Ready is True of its   *)
(* generation, and phase and observed generation say so too: for every     *)
(* kind of function and every history of changes, although the worker may  *)
(* have been overtaken by changes, is interrupted anywhere and reconciles  *)
(* again; only the route of an external GPU function need not be there     *)
(* (DeletesOnlyStale). The phase alone shows less (PhaseIsServing).        *)
ReadyIsComplete ==
    ReportedReady =>
        /\ status.phase = "Ready" /\ status.obs = fn.gen
        /\ Needs(fn.spec) \ {"gpuRoute"} \subseteq objs

(* What no step removes when a function moves to an external GPU provider  *)
(* (Reconcile returns before the consumer and autoscaling steps) or back,  *)
(* or keeps event triggers but none that names a subject.                  *)
LeftBehind(s) == IF s.gpu THEN Autoscalers \cup {"consumer"}
                 ELSE {"gpuGrant", "gpuTimeout"}
                      \cup (IF s.event = "silent" THEN {"consumer"} ELSE {})

(* ... and nothing else exists, but for the objects whose best-effort      *)
(* delete failed and those LeftBehind names: in particular no two routes,  *)
(* no pods behind a GPU route, and no two autoscalers of one Deployment.   *)
LeftoversAccounted ==
    ReportedReady => objs \subseteq Needs(fn.spec) \cup LeftBehind(fn.spec) \cup missed

(* "Phase transitions to Ready after workload deployment is verified", so  *)
(* the phase would say of the observed generation what the condition does: *)
(* it does not after a build that was adopted while the phase was Ready.   *)
PhaseIsServing ==
    status.phase = "Ready" /\ status.obs = fn.gen
        => Needs(fn.spec) \ {"gpuRoute"} \subseteq objs

(* The deleteStale... helpers each remove an object "that is no longer     *)
(* needed": a reconcile of the current spec never removes one it needs.    *)
DeletesOnlyStale ==
    [][op.fn = fn /\ fn' = fn => Needs(fn.spec) \cap objs \subseteq objs']_workloadVars

(* It does so for functions that run in the cluster: repeated reconciles   *)
(* of a Ready function never interrupt its service.                        *)
InClusterKeepsServing ==
    [][op.fn = fn /\ fn' = fn /\ ~fn.spec.gpu
          => Needs(fn.spec) \cap objs \subseteq objs']_workloadVars
=============================================================================

------------------------- MODULE FunctionOperatorProofs -------------------------
(***************************************************************************)
(* Theorems about FunctionOperator, for every set of specs and every bound *)
(* on generations and incarnations: its types, that the phase becomes      *)
(* Ready only for what is deployed, that it implements FunctionContract,   *)
(* and that what it adopts was built from the spec it is adopted for.      *)
(***************************************************************************)
EXTENDS FunctionOperator, TLAPS

-----------------------------------------------------------------------------
(* What the writes of FunctionCR preserve.                                 *)

(* The status an object can have: it never runs ahead of the generation,   *)
(* names the image of the generation it observed, and nothing is Ready     *)
(* without one; a build under way is of a generation not yet observed, and *)
(* a deletion only waits for the finalizer.                                *)
Consistent(c) ==
    /\ c.obs <= c.gen
    /\ c.image # 0 => c.image = c.obs /\ c.build = "Succeeded"
    /\ c.build = "Succeeded" => c.image # 0
    /\ c.phase = "Ready" => c.image # 0
    /\ (c.phase = "Building" /\ c.build # "Succeeded") => c.obs < c.gen
    /\ c.deleting => c.fin

(* No object at all is a well-formed, consistent value.                    *)
LEMMA NoCRFacts == /\ NoCR \in CRs /\ Consistent(NoCR) /\ ~Exists(NoCR)
                   /\ NoCR.phase = "None" /\ ~NoCR.deleting
BY BoundsAssumption DEF NoCR, NewCR, CRs, Phases, Builds, Consistent, Exists

(* A created object: generation 1, nothing observed.                       *)
LEMMA NewCRFacts ==
    ASSUME NEW u \in 0..MaxUid, NEW s \in Specs
    PROVE  /\ NewCR(u, 1, s) \in CRs /\ Consistent(NewCR(u, 1, s))
           /\ NewCR(u, 1, s).phase = "None" /\ ~NewCR(u, 1, s).deleting
BY BoundsAssumption DEF NewCR, CRs, Phases, Builds, Consistent

(* An update by a client keeps the status and never brings back an object. *)
LEMMA ReplacedFacts ==
    ASSUME NEW c \in CRs, Consistent(c), NEW s \in Specs, CanReplace(c, s)
    PROVE  /\ Replaced(c, s) \in CRs /\ Consistent(Replaced(c, s))
           /\ Replaced(c, s).phase \in {c.phase, "None"}
           /\ ~Replaced(c, s).deleting
<1>1. CASE c.deleting
  BY <1>1, NoCRFacts DEF Replaced
<1>2. CASE ~c.deleting /\ s = c.spec
  <2>1. Replaced(c, s) = [c EXCEPT !.fin = FALSE]
    BY <1>2 DEF Replaced, CRs
  <2> QED BY <2>1, <1>2 DEF CRs, Consistent
<1>3. CASE ~c.deleting /\ s # c.spec
  <2>1. Replaced(c, s) = [c EXCEPT !.spec = s, !.fin = FALSE,
                                   !.gen = c.gen + 1]
    BY <1>3 DEF Replaced
  <2>2. c.gen < MaxGen
    BY <1>3 DEF CanReplace
  <2>3. Replaced(c, s) \in CRs
    <3>1. c.gen + 1 \in 0..MaxGen
      BY <2>2, BoundsAssumption DEF CRs
    <3> QED BY <2>1, <3>1 DEF CRs
  <2>4. /\ Replaced(c, s).gen = c.gen + 1 /\ Replaced(c, s).obs = c.obs
        /\ Replaced(c, s).image = c.image /\ Replaced(c, s).build = c.build
        /\ Replaced(c, s).phase = c.phase
        /\ Replaced(c, s).deleting = FALSE
    BY <2>1, <1>3 DEF CRs
  <2>5. c.gen \in Nat /\ c.obs \in Nat
    BY DEF CRs
  <2> QED BY <2>3, <2>4, <2>5 DEF Consistent
<1> QED BY <1>1, <1>2, <1>3

(* Marking an object for deletion.                                         *)
LEMMA DeletingFacts ==
    ASSUME NEW c \in CRs, Consistent(c), c.fin
    PROVE  /\ [c EXCEPT !.deleting = TRUE] \in CRs
           /\ Consistent([c EXCEPT !.deleting = TRUE])
           /\ [c EXCEPT !.deleting = TRUE].phase = c.phase
BY DEF CRs, Consistent

(* Adding the finalizer.                                                   *)
LEMMA FinalizerFacts ==
    ASSUME NEW c \in CRs, Consistent(c)
    PROVE  /\ [c EXCEPT !.fin = TRUE] \in CRs
           /\ Consistent([c EXCEPT !.fin = TRUE])
           /\ [c EXCEPT !.fin = TRUE].phase = c.phase
           /\ [c EXCEPT !.fin = TRUE].fin
           /\ Live(c) => Live([c EXCEPT !.fin = TRUE])
BY DEF CRs, Consistent, Live, Exists

(* The operator's status writes over a generation that was not observed.   *)
LEMMA BuildWriteFacts ==
    ASSUME NEW c \in CRs, Consistent(c), c.obs < c.gen
    PROVE  /\ WithBuilding(c) \in CRs /\ Consistent(WithBuilding(c))
           /\ WithBuilding(c).phase = "Building"
           /\ WithBuilt(c) \in CRs /\ Consistent(WithBuilt(c))
           /\ WithBuilt(c).phase = c.phase
           /\ WithBuildFailed(c) \in CRs /\ Consistent(WithBuildFailed(c))
           /\ WithBuildFailed(c).phase = "Failed"
<1>1. c.gen # 0 /\ c.obs \in Nat /\ c.gen \in Nat /\ 0 \in 0..MaxGen
  BY BoundsAssumption DEF CRs
<1>2. /\ WithBuilding(c) \in CRs /\ Consistent(WithBuilding(c))
      /\ WithBuilding(c).phase = "Building"
  BY <1>1 DEF WithBuilding, CRs, Phases, Builds, Consistent
<1>3. /\ WithBuilt(c) \in CRs /\ Consistent(WithBuilt(c))
      /\ WithBuilt(c).phase = c.phase
  <2>1. WithBuilt(c) \in CRs
    BY <1>1 DEF WithBuilt, CRs, Phases, Builds
  <2>2. /\ WithBuilt(c).gen = c.gen /\ WithBuilt(c).obs = c.gen
        /\ WithBuilt(c).phase = c.phase
        /\ WithBuilt(c).build = "Succeeded"
        /\ WithBuilt(c).image = c.gen
        /\ WithBuilt(c).deleting = c.deleting /\ WithBuilt(c).fin = c.fin
    BY DEF WithBuilt, CRs
  <2> QED BY <1>1, <2>1, <2>2 DEF Consistent
<1>4. /\ WithBuildFailed(c) \in CRs /\ Consistent(WithBuildFailed(c))
      /\ WithBuildFailed(c).phase = "Failed"
  <2>1. WithBuildFailed(c) \in CRs
    BY <1>1 DEF WithBuildFailed, CRs, Phases, Builds
  <2>2. /\ WithBuildFailed(c).gen = c.gen /\ WithBuildFailed(c).obs = c.gen
        /\ WithBuildFailed(c).phase = "Failed"
        /\ WithBuildFailed(c).build = "Failed"
        /\ WithBuildFailed(c).image = 0
        /\ WithBuildFailed(c).deleting = c.deleting /\ WithBuildFailed(c).fin = c.fin
    BY DEF WithBuildFailed, CRs
  <2> QED BY <1>1, <2>1, <2>2 DEF Consistent
<1> QED BY <1>2, <1>3, <1>4

(* The operator's Failed and, over a generation that was built, Ready.     *)
LEMMA EndWriteFacts ==
    ASSUME NEW c \in CRs, Consistent(c)
    PROVE  /\ WithFailed(c) \in CRs /\ Consistent(WithFailed(c))
           /\ WithFailed(c).phase = "Failed"
           /\ (c.obs = c.gen /\ c.image # 0)
                => WithReady(c) \in CRs /\ Consistent(WithReady(c))
BY DEF WithFailed, WithReady, CRs, Phases, Consistent

(* For a consistent object, needing a build means that the generation was  *)
(* not observed: the second disjunct of NeedsBuild never decides.          *)
LEMMA NeedsBuildFacts ==
    ASSUME NEW c \in CRs, Consistent(c)
    PROVE  /\ NeedsBuild(c) <=> c.obs < c.gen
           /\ ~NeedsBuild(c) => c.obs = c.gen
BY DEF NeedsBuild, CRs, Consistent

-----------------------------------------------------------------------------
(* The controller.                                                         *)

Building == {"build", "jobs", "mark"}
Deploying == {"workload", "consumer", "route", "ready"}
Deleting == {"cleanup", "unsubscribe", "release"}

(* What the worker established about its copy before the call it is about  *)
(* to make.                                                                *)
WorkerKnows ==
    /\ op.pc \in {"reject"} \cup Building \cup Deploying
         => Live(op.fn) /\ op.fn.fin
    /\ op.pc \in Building => op.fn.obs < op.fn.gen
    /\ op.pc \in Deploying => op.fn.obs = op.fn.gen /\ op.fn.image # 0
    /\ op.pc \in Deleting => op.fn.deleting

(* What it has already written when it goes on to the next call.           *)
WorkerDid ==
    /\ op.pc \in {"consumer", "route", "ready"} => deploy.tmpl = op.fn.image
    /\ op.pc \in {"route", "ready"} => "consumer" \in wired
    /\ op.pc = "ready" => "route" \in wired

(* The inductive invariant.                                                *)
IInv == /\ TypeOK
        /\ Consistent(cr) /\ Consistent(seen) /\ Consistent(op.fn)
        /\ WorkerKnows
        /\ WorkerDid

-----------------------------------------------------------------------------
(* The invariant holds initially.                                          *)
LEMMA InitIInv == Init => IInv
<1> SUFFICES ASSUME Init PROVE IInv
  OBVIOUS
<1>1. NoCR \in CRs /\ Consistent(NoCR)
  BY NoCRFacts
<1>2. TypeOK
  BY <1>1, BoundsAssumption
     DEF Init, TypeOK, Idle, PCs, NoJob, JobRecs, JobStates
<1>3. WorkerKnows /\ WorkerDid
  BY DEF Init, Idle, WorkerKnows, WorkerDid, Building, Deploying, Deleting
<1> QED BY <1>1, <1>2, <1>3 DEF Init, Idle, IInv

(* Entering at Plan establishes what the worker knows.                     *)
LEMMA PlanFacts ==
    ASSUME NEW c \in CRs, Consistent(c), Live(c), c.fin
    PROVE  /\ Plan(c) \in {"reject", "build", "idle", "workload"}
           /\ Plan(c) = "build" => c.obs < c.gen
           /\ Plan(c) = "workload" => c.obs = c.gen /\ c.image # 0
BY NeedsBuildFacts DEF Plan

(* After Enter at Plan, every part of the invariant that mentions the      *)
(* worker holds.                                                           *)
LEMMA EnterFacts ==
    ASSUME NEW c \in CRs, Consistent(c), Live(c), c.fin, Enter(Plan(c), c)
    PROVE  /\ op' \in [pc : PCs, fn : CRs]
           /\ Consistent(op'.fn)
           /\ WorkerKnows' /\ WorkerDid'
<1>1. CASE Plan(c) = "idle"
  <2>1. op' = Idle
    BY <1>1 DEF Enter
  <2> QED BY <2>1, NoCRFacts
          DEF Idle, PCs, WorkerKnows, WorkerDid, Building, Deploying, Deleting
<1>2. CASE Plan(c) # "idle"
  <2>1. op' = [pc |-> Plan(c), fn |-> c]
    BY <1>2 DEF Enter
  <2>2. Plan(c) \in {"reject", "build", "workload"}
    BY <1>2, PlanFacts
  <2> QED BY <2>1, <2>2, PlanFacts
          DEF PCs, WorkerKnows, WorkerDid, Building, Deploying, Deleting
<1> QED BY <1>1, <1>2

(* An idle worker satisfies its parts of the invariant.                    *)
LEMMA IdleFacts ==
    ASSUME op' = Idle
    PROVE  /\ op' \in [pc : PCs, fn : CRs]
           /\ Consistent(op'.fn)
           /\ WorkerKnows' /\ WorkerDid'
BY NoCRFacts DEF Idle, PCs, WorkerKnows, WorkerDid, Building, Deploying, Deleting

(* A status write stores either the old object or the new one.             *)
LEMMA WriteStatusFacts ==
    ASSUME cr \in CRs, Consistent(cr),
           NEW c \in CRs, Consistent(c), WriteStatus(c)
    PROVE  /\ cr' \in CRs /\ Consistent(cr') /\ uids' = uids
           /\ op' \in [pc : PCs, fn : CRs] /\ Consistent(op'.fn)
           /\ WorkerKnows' /\ WorkerDid'
<1>1. op' = Idle
  BY DEF WriteStatus
<1> QED BY <1>1, IdleFacts DEF WriteStatus

-----------------------------------------------------------------------------
(* Worker actions that end in a status write.                              *)
LEMMA StatusStep ==
    ASSUME IInv,
           RejectSpec \/ AdoptBuild \/ RecordBuildFailure \/ AwaitBuild
             \/ MarkBuilding \/ FailWorkload \/ MarkReady \/ RemoveFinalizer
    PROVE  IInv'
<1> DEFINE Others == UNCHANGED <<seen, cm, jobs, jobsSeen, registry, deploy, wired>>
<1>1. op.fn \in CRs /\ Consistent(op.fn)
  BY DEF IInv, TypeOK
<1>2. \E c \in CRs : Consistent(c) /\ WriteStatus(c) /\ Others
  <2>1. CASE RejectSpec \/ FailWorkload
    BY <2>1, <1>1, EndWriteFacts DEF RejectSpec, FailWorkload
  <2>2. CASE AdoptBuild \/ RecordBuildFailure \/ AwaitBuild \/ MarkBuilding
    <3>1. op.fn.obs < op.fn.gen
      BY <2>2 DEF AdoptBuild, RecordBuildFailure, AwaitBuild, MarkBuilding,
                  At, IInv, WorkerKnows, Building
    <3>2. /\ WithBuilt(op.fn) \in CRs /\ Consistent(WithBuilt(op.fn))
          /\ WithBuildFailed(op.fn) \in CRs /\ Consistent(WithBuildFailed(op.fn))
          /\ WithBuilding(op.fn) \in CRs /\ Consistent(WithBuilding(op.fn))
      BY <1>1, <3>1, BuildWriteFacts
    <3> QED BY <2>2, <1>1, <3>2
            DEF AdoptBuild, RecordBuildFailure, AwaitBuild, MarkBuilding
  <2>3. CASE MarkReady
    <3>1. op.fn.obs = op.fn.gen /\ op.fn.image # 0
      BY <2>3 DEF MarkReady, At, IInv, WorkerKnows, Deploying
    <3> QED BY <2>3, <3>1, <1>1, EndWriteFacts DEF MarkReady
  <2>4. CASE RemoveFinalizer
    BY <2>4, NoCRFacts DEF RemoveFinalizer
  <2> QED BY <2>1, <2>2, <2>3, <2>4
<1>3. PICK c \in CRs : Consistent(c) /\ WriteStatus(c) /\ Others
  BY <1>2
<1>4. /\ cr' \in CRs /\ Consistent(cr') /\ uids' = uids
      /\ op' \in [pc : PCs, fn : CRs] /\ Consistent(op'.fn)
      /\ WorkerKnows' /\ WorkerDid'
  BY <1>3, WriteStatusFacts DEF IInv, TypeOK
<1> QED BY <1>3, <1>4 DEF IInv, TypeOK

(* Worker actions that start or end a reconcile.                           *)
LEMMA EnterStep ==
    ASSUME IInv,
           StartReconcile \/ AddFinalizer \/ StartDeletion \/ Abandon \/ Requeue
    PROVE  IInv'
<1> USE DEF IInv, TypeOK
<1>1. CASE StartReconcile
  BY <1>1, EnterFacts DEF StartReconcile, crVars
<1>2. CASE AddFinalizer
  <2>1. cr' \in CRs /\ Consistent(cr') /\ cr'.fin /\ Live(cr')
    BY <1>2, FinalizerFacts DEF AddFinalizer
  <2>2. /\ op' \in [pc : PCs, fn : CRs] /\ Consistent(op'.fn)
        /\ WorkerKnows' /\ WorkerDid'
    <3>1. PICK c \in CRs : c = cr'
      BY <2>1
    <3>2. Enter(Plan(c), c)
      BY <1>2, <3>1 DEF AddFinalizer
    <3> QED BY <2>1, <3>1, <3>2, EnterFacts
  <2> QED BY <1>2, <2>1, <2>2 DEF AddFinalizer
<1>3. CASE StartDeletion
  <2>1. op' = [pc |-> "cleanup", fn |-> seen] /\ seen.deleting
    BY <1>3 DEF StartDeletion
  <2>2. WorkerKnows' /\ WorkerDid' /\ op' \in [pc : PCs, fn : CRs]
    BY <2>1 DEF PCs, WorkerKnows, WorkerDid, Building, Deploying, Deleting
  <2> QED BY <1>3, <2>1, <2>2 DEF StartDeletion, crVars
<1>4. CASE Abandon
  BY <1>4, IdleFacts DEF Abandon, crVars
<1>5. CASE Requeue
  BY <1>5, IdleFacts DEF Requeue, crVars
<1> QED BY <1>1, <1>2, <1>3, <1>4, <1>5

(* Going on to another call about the same copy.                           *)
LEMMA GotoFacts ==
    ASSUME op \in [pc : PCs, fn : CRs], NEW pc \in PCs, Goto(pc)
    PROVE  op' \in [pc : PCs, fn : CRs] /\ op'.pc = pc /\ op'.fn = op.fn
BY DEF Goto

(* Worker actions that write to the cluster and go on.                     *)
LEMMA ClusterWriteStep ==
    ASSUME IInv,
           WriteBuildInput \/ CreateBuildJob \/ ApplyDeployment \/ EnsureConsumer
             \/ EnsureRoute \/ CleanupBuilds \/ DeleteConsumer
    PROVE  IInv'
<1> USE DEF IInv, TypeOK, crVars
<1> DEFINE WorkerParts == /\ op' \in [pc : PCs, fn : CRs]
                          /\ Consistent(op'.fn)
                          /\ WorkerKnows' /\ WorkerDid'
<1>1. CASE WriteBuildInput
  <2>1. op'.pc = "jobs" /\ op'.fn = op.fn /\ op' \in [pc : PCs, fn : CRs]
    BY <1>1, GotoFacts DEF WriteBuildInput, PCs
  <2>2. WorkerParts
    BY <1>1, <2>1 DEF WriteBuildInput, At, WorkerKnows, WorkerDid,
                      Building, Deploying, Deleting
  <2>3. cm' \in Specs \cup {NoSpec}
    BY <1>1 DEF WriteBuildInput, BuildInput, CRs
  <2> QED BY <1>1, <2>2, <2>3 DEF WriteBuildInput
<1>2. CASE CreateBuildJob
  <2>1. WorkerParts
    <3>1. CASE op' = Idle
      BY <3>1, IdleFacts
    <3>2. CASE Goto("mark")
      <4>1. op'.pc = "mark" /\ op'.fn = op.fn /\ op' \in [pc : PCs, fn : CRs]
        BY <3>2, GotoFacts DEF PCs
      <4> QED BY <1>2, <4>1 DEF CreateBuildJob, At, WorkerKnows, WorkerDid,
                                Building, Deploying, Deleting
    <3> QED BY <1>2, <3>1, <3>2 DEF CreateBuildJob
  <2>2. jobs' \in [Gens -> JobRecs]
    <3>1. CASE UNCHANGED jobs
      BY <3>1
    <3>2. CASE jobs' = [jobs EXCEPT ![op.fn.gen].st = "pending"]
      <4>1. \A g \in Gens : [jobs[g] EXCEPT !.st = "pending"] \in JobRecs
        BY DEF JobRecs, JobStates
      <4> QED BY <3>2, <4>1
    <3> QED BY <1>2, <3>1, <3>2 DEF CreateBuildJob
  <2> QED BY <1>2, <2>1, <2>2 DEF CreateBuildJob
<1>3. CASE ApplyDeployment
  <2>1. op'.pc = "consumer" /\ op'.fn = op.fn /\ op' \in [pc : PCs, fn : CRs]
    BY <1>3, GotoFacts DEF ApplyDeployment, PCs
  <2>2. deploy' \in [tmpl : 0..MaxGen, ready : SUBSET Gens] /\ deploy'.tmpl = op.fn.image
    BY <1>3 DEF ApplyDeployment, PodTemplate, CRs
  <2>3. WorkerParts
    BY <1>3, <2>1, <2>2 DEF ApplyDeployment, At, WorkerKnows, WorkerDid,
                      Building, Deploying, Deleting
  <2> QED BY <1>3, <2>2, <2>3 DEF ApplyDeployment
<1>4. CASE EnsureConsumer
  <2>1. op'.pc = "route" /\ op'.fn = op.fn /\ op' \in [pc : PCs, fn : CRs]
    BY <1>4, GotoFacts DEF EnsureConsumer, PCs
  <2>2. WorkerParts
    BY <1>4, <2>1 DEF EnsureConsumer, At, WorkerKnows, WorkerDid,
                      Building, Deploying, Deleting
  <2> QED BY <1>4, <2>2 DEF EnsureConsumer
<1>5. CASE EnsureRoute
  <2>1. op'.pc = "ready" /\ op'.fn = op.fn /\ op' \in [pc : PCs, fn : CRs]
    BY <1>5, GotoFacts DEF EnsureRoute, PCs
  <2>2. WorkerParts
    BY <1>5, <2>1 DEF EnsureRoute, At, WorkerKnows, WorkerDid,
                      Building, Deploying, Deleting
  <2> QED BY <1>5, <2>2 DEF EnsureRoute
<1>6. CASE CleanupBuilds
  <2>1. op'.pc = "unsubscribe" /\ op'.fn = op.fn /\ op' \in [pc : PCs, fn : CRs]
    BY <1>6, GotoFacts DEF CleanupBuilds, PCs
  <2>2. WorkerParts
    BY <1>6, <2>1 DEF CleanupBuilds, At, WorkerKnows, WorkerDid,
                      Building, Deploying, Deleting
  <2>3. jobs' \in [Gens -> JobRecs]
    BY <1>6 DEF CleanupBuilds, JobRecs, JobStates, NoJob
  <2> QED BY <1>6, <2>2, <2>3 DEF CleanupBuilds
<1>7. CASE DeleteConsumer
  <2>1. op'.pc = "release" /\ op'.fn = op.fn /\ op' \in [pc : PCs, fn : CRs]
    BY <1>7, GotoFacts DEF DeleteConsumer, PCs
  <2>2. WorkerParts
    BY <1>7, <2>1 DEF DeleteConsumer, At, WorkerKnows, WorkerDid,
                      Building, Deploying, Deleting
  <2> QED BY <1>7, <2>2 DEF DeleteConsumer
<1> QED BY <1>1, <1>2, <1>3, <1>4, <1>5, <1>6, <1>7

(* Steps of the cluster leave the worker and its object alone, and keep    *)
(* the template of the Deployment.                                         *)
LEMMA ClusterStep == ASSUME IInv, Cluster \/ ClusterFault PROVE IInv'
<1> USE DEF IInv, TypeOK, crVars
<1>1. ASSUME UNCHANGED <<op, wired, deploy.tmpl>> PROVE WorkerKnows' /\ WorkerDid'
  BY <1>1 DEF WorkerKnows, WorkerDid
<1>2. CASE SyncFunction \/ SyncJobs
  BY <1>1, <1>2 DEF SyncFunction, SyncJobs
<1>3. ASSUME NEW g \in Gens, PodStart(g) \/ BuildSucceeds(g) \/ BuildFails(g)
      PROVE  IInv'
  <2>1. jobs' \in [Gens -> JobRecs]
    BY <1>3 DEF PodStart, BuildSucceeds, BuildFails, JobRecs, JobStates
  <2>2. registry' \in [Gens -> Specs \cup {NoSpec}]
    BY <1>3 DEF PodStart, BuildSucceeds, BuildFails, JobRecs
  <2> QED BY <1>1, <1>3, <2>1, <2>2 DEF PodStart, BuildSucceeds, BuildFails
<1>4. ASSUME NEW t \in Gens,
             ReplicaReady \/ RolloutCompletes \/ ReplicaLost(t)
      PROVE  IInv'
  <2>1. /\ deploy' \in [tmpl : 0..MaxGen, ready : SUBSET Gens]
        /\ deploy'.tmpl = deploy.tmpl
    BY <1>4, BoundsAssumption DEF ReplicaReady, RolloutCompletes, ReplicaLost, Gens
  <2> QED BY <1>1, <1>4, <2>1 DEF ReplicaReady, RolloutCompletes, ReplicaLost
<1>5. \E t \in Gens : TRUE
  BY BoundsAssumption DEF Gens
<1> QED BY <1>2, <1>3, <1>4, <1>5 DEF Cluster, ClusterFault

(* What a client can make of the stored object.                            *)
LEMMA ClientFacts ==
    ASSUME cr \in CRs, Consistent(cr), uids \in 0..MaxUid,
           (\E s \in Specs : ApiCreate(s) \/ ApiUpdate(cr, s)) \/ ApiDelete
    PROVE  /\ cr' \in CRs /\ Consistent(cr') /\ uids' \in 0..MaxUid
           /\ cr'.phase \in {cr.phase, "None"}
<1>1. ASSUME NEW s \in Specs, ApiCreate(s)
      PROVE  /\ cr' \in CRs /\ Consistent(cr') /\ uids' \in 0..MaxUid
             /\ cr'.phase \in {cr.phase, "None"}
  <2>1. uids + 1 \in 0..MaxUid
    BY <1>1, BoundsAssumption DEF ApiCreate
  <2> QED BY <1>1, <2>1, NewCRFacts DEF ApiCreate
<1>2. ASSUME NEW s \in Specs, ApiUpdate(cr, s)
      PROVE  /\ cr' \in CRs /\ Consistent(cr') /\ uids' \in 0..MaxUid
             /\ cr'.phase \in {cr.phase, "None"}
  BY <1>2, ReplacedFacts DEF ApiUpdate
<1>3. CASE ApiDelete
  BY <1>3, DeletingFacts, NoCRFacts DEF ApiDelete
<1> QED BY <1>1, <1>2, <1>3

(* Steps of clients change the stored object only.                         *)
LEMMA ClientStep == ASSUME IInv, Client PROVE IInv'
<1>1. cr' \in CRs /\ Consistent(cr') /\ uids' \in 0..MaxUid
  BY ClientFacts DEF Client, IInv, TypeOK
<1> QED BY <1>1 DEF Client, opVars, IInv, TypeOK, WorkerKnows, WorkerDid

(* Every step of the worker, the cluster and the clients keeps it.         *)
LEMMA NextIInv == IInv /\ [Next]_vars => IInv'
<1> SUFFICES ASSUME IInv, [Next]_vars PROVE IInv'
  OBVIOUS
<1>1. CASE UNCHANGED vars
  BY <1>1 DEF vars, crVars, opVars, IInv, TypeOK, WorkerKnows, WorkerDid
<1>2. CASE Worker \/ WorkerFault
  BY <1>2, EnterStep, StatusStep, ClusterWriteStep DEF Worker, WorkerFault
<1>3. CASE Cluster \/ ClusterFault
  BY <1>3, ClusterStep
<1>4. CASE Client
  BY <1>4, ClientStep
<1> QED BY <1>1, <1>2, <1>3, <1>4 DEF Next

(* Every reachable state satisfies the inductive invariant.                *)
THEOREM Invariance == Spec => []IInv
<1> QED BY InitIInv, NextIInv, PTL DEF Spec

(* Every variable keeps its type.                                          *)
THEOREM TypeCorrect == Spec => []TypeOK
<1>1. IInv => TypeOK
  BY DEF IInv
<1> QED BY <1>1, Invariance, PTL

-----------------------------------------------------------------------------
(* The phase becomes Ready only for the generation that is deployed, with  *)
(* both triggers wired (Reconcile steps 6 to 11).                          *)
LEMMA StepReady == IInv /\ [Next]_vars => (BecomesReady => Serving)
<1> SUFFICES ASSUME IInv, [Next]_vars, BecomesReady PROVE Serving
  OBVIOUS
<1>1. op.fn \in CRs /\ Consistent(op.fn)
  BY DEF IInv, TypeOK
<1>2. CASE MarkReady
  <2>1. cr = op.fn
    BY <1>2 DEF MarkReady, WriteStatus, BecomesReady
  <2>2. cr.image = cr.gen /\ deploy.tmpl = cr.image
    BY <1>2, <1>1, <2>1
       DEF MarkReady, At, IInv, WorkerKnows, WorkerDid, Deploying, Consistent
  <2>3. wired = {"consumer", "route"}
    BY <1>2 DEF MarkReady, At, IInv, TypeOK, WorkerDid
  <2> QED BY <2>2, <2>3 DEF Serving
<1>3. ASSUME cr'.phase \in {cr.phase, "None", "Building", "Failed"} PROVE FALSE
  BY <1>3 DEF BecomesReady
<1>4. CASE UNCHANGED cr
  BY <1>4, <1>3
<1>5. CASE RejectSpec \/ FailWorkload
  BY <1>5, <1>1, <1>3, EndWriteFacts DEF RejectSpec, FailWorkload, WriteStatus
<1>6. CASE AdoptBuild \/ RecordBuildFailure \/ AwaitBuild \/ MarkBuilding
  <2>1. op.fn.obs < op.fn.gen
    BY <1>6 DEF AdoptBuild, RecordBuildFailure, AwaitBuild, MarkBuilding,
                At, IInv, WorkerKnows, Building
  <2>2. /\ WithBuilt(op.fn).phase = op.fn.phase
        /\ WithBuildFailed(op.fn).phase = "Failed"
        /\ WithBuilding(op.fn).phase = "Building"
    BY <1>1, <2>1, BuildWriteFacts
  <2> QED BY <1>3, <1>6, <2>2
          DEF AdoptBuild, RecordBuildFailure, AwaitBuild, MarkBuilding, WriteStatus
<1>7. CASE RemoveFinalizer
  BY <1>3, <1>7, NoCRFacts DEF RemoveFinalizer, WriteStatus
<1>8. CASE AddFinalizer
  BY <1>3, <1>8, FinalizerFacts DEF AddFinalizer, IInv, TypeOK
<1>9. CASE Client
  BY <1>3, <1>9, ClientFacts DEF Client, IInv, TypeOK
<1>10. CASE Cluster \/ ClusterFault
  BY <1>4, <1>10 DEF Cluster, ClusterFault, SyncFunction, SyncJobs, PodStart,
     BuildSucceeds, BuildFails, ReplicaReady, RolloutCompletes, ReplicaLost, crVars
<1>11. CASE StartReconcile \/ StartDeletion \/ Abandon \/ Requeue
  BY <1>4, <1>11 DEF StartReconcile, StartDeletion, Abandon, Requeue, crVars
<1>12. CASE WriteBuildInput \/ CreateBuildJob \/ ApplyDeployment \/ EnsureConsumer
              \/ EnsureRoute \/ CleanupBuilds \/ DeleteConsumer
  BY <1>4, <1>12 DEF WriteBuildInput, CreateBuildJob, ApplyDeployment,
     EnsureConsumer, EnsureRoute, CleanupBuilds, DeleteConsumer, crVars
<1>13. CASE UNCHANGED vars
  BY <1>4, <1>13 DEF vars, crVars
<1> QED BY <1>2, <1>4, <1>5, <1>6, <1>7, <1>8, <1>9, <1>10, <1>11, <1>12, <1>13
        DEF Next, Worker, WorkerFault

(* Reconcile steps 6 to 11: the phase becomes Ready only for what is       *)
(* deployed and wired, whatever happened between the worker's calls.       *)
THEOREM ReadyOnlyWhenServed == Spec => ReadyOnlyWhenServing
<1>1. IInv /\ [Next]_vars => [BecomesReady => Serving]_vars
  BY StepReady
<1> QED BY <1>1, Invariance, PTL DEF Spec, ReadyOnlyWhenServing

-----------------------------------------------------------------------------
(* Refinement: what each step of the operator is to the rest of the        *)
(* platform.                                                               *)
LEMMA InitContract == Init => Contract!Init
BY DEF Init, Contract!Init, NoCR, NewCR, Contract!NoCR, Contract!NewCR

(* The definitions FunctionContract inherits from FunctionCR are the same  *)
(* ones here.                                                              *)
LEMMA SameClient ==
    ((\E s \in Specs : ApiCreate(s) \/ ApiUpdate(cr, s)) \/ ApiDelete)
        <=> Contract!Client
BY DEF ApiCreate, ApiUpdate, ApiDelete, Replaced, CanReplace, Exists, NoCR, NewCR,
       Contract!Client, Contract!ApiCreate, Contract!ApiUpdate,
       Contract!ApiDelete, Contract!Replaced, Contract!CanReplace,
       Contract!Exists, Contract!NoCR, Contract!NewCR

(* A status write is the contract's when its author was right about the    *)
(* object, and otherwise nothing.                                          *)
LEMMA StepContract == IInv /\ [Next]_vars => [Contract!Next]_crVars
<1> SUFFICES ASSUME IInv, [Next]_vars PROVE [Contract!Next]_crVars
  OBVIOUS
<1> USE DEF crVars
<1>1. op.fn \in CRs /\ Consistent(op.fn)
  BY DEF IInv, TypeOK
<1>2. ASSUME NEW c, WriteStatus(c),
             cr = op.fn /\ cr' = c /\ uids' = uids => Contract!Controller
      PROVE  [Contract!Next]_crVars
  BY <1>2 DEF WriteStatus, Contract!Next
<1>3. CASE RejectSpec \/ FailWorkload
  <2>1. Live(op.fn) /\ op.fn.fin
    BY <1>3 DEF RejectSpec, FailWorkload, At, IInv, WorkerKnows, Deploying
  <2> QED BY <1>2, <1>3, <2>1
          DEF RejectSpec, FailWorkload, WithFailed, Live, Exists,
              Contract!Controller, Contract!ReportFailed, Contract!Owned,
              Contract!Live, Contract!Exists, Contract!WithFailed
<1>4. CASE AdoptBuild \/ RecordBuildFailure \/ AwaitBuild \/ MarkBuilding
  <2>1. Live(op.fn) /\ op.fn.fin /\ op.fn.obs < op.fn.gen
    BY <1>4 DEF AdoptBuild, RecordBuildFailure, AwaitBuild, MarkBuilding,
                At, IInv, WorkerKnows, Building
  <2> USE DEF Live, Exists, Contract!Controller, Contract!Owned,
              Contract!Live, Contract!Exists
  <2>2. CASE WriteStatus(WithBuilt(op.fn))
    BY <1>2, <2>1, <2>2 DEF WithBuilt, Contract!ReportBuilt, Contract!WithBuilt
  <2>3. CASE WriteStatus(WithBuildFailed(op.fn))
    BY <1>2, <2>1, <2>3
       DEF WithBuildFailed, Contract!ReportBuildFailed, Contract!WithBuildFailed
  <2>4. CASE WriteStatus(WithBuilding(op.fn))
    BY <1>2, <2>1, <2>4
       DEF WithBuilding, Contract!ReportBuilding, Contract!WithBuilding
  <2>5. CASE WriteStatus(op.fn)
    BY <2>5 DEF WriteStatus
  <2> QED BY <1>4, <2>2, <2>3, <2>4, <2>5
          DEF AdoptBuild, RecordBuildFailure, AwaitBuild, MarkBuilding
<1>5. CASE MarkReady
  <2>1. Live(op.fn) /\ op.fn.fin /\ op.fn.obs = op.fn.gen
        /\ op.fn.build = "Succeeded"
    BY <1>5, <1>1 DEF MarkReady, At, IInv, WorkerKnows, Deploying, Consistent
  <2> QED BY <1>2, <1>5, <2>1
          DEF MarkReady, WithReady, Live, Exists,
              Contract!Controller, Contract!ReportReady, Contract!Owned,
              Contract!Live, Contract!Exists, Contract!WithReady
<1>6. CASE RemoveFinalizer
  <2>1. op.fn.deleting
    BY <1>6 DEF RemoveFinalizer, At, IInv, WorkerKnows, Deleting
  <2> QED BY <1>2, <1>6, <2>1
          DEF RemoveFinalizer, NoCR, NewCR, Contract!Controller,
              Contract!Release, Contract!NoCR, Contract!NewCR
<1>7. CASE AddFinalizer
  BY <1>7 DEF AddFinalizer, Live, Exists, Contract!Next, Contract!Controller,
              Contract!AddFinalizer, Contract!Live, Contract!Exists
<1>8. CASE Client
  BY <1>8, SameClient DEF Client, Contract!Next
<1>9. CASE UNCHANGED <<cr, uids>>
  BY <1>9
<1>10. CASE Cluster \/ ClusterFault
  BY <1>9, <1>10 DEF Cluster, ClusterFault, SyncFunction, SyncJobs, PodStart,
     BuildSucceeds, BuildFails, ReplicaReady, RolloutCompletes, ReplicaLost
<1>11. CASE StartReconcile \/ StartDeletion \/ Abandon \/ Requeue
  BY <1>9, <1>11 DEF StartReconcile, StartDeletion, Abandon, Requeue
<1>12. CASE WriteBuildInput \/ CreateBuildJob \/ ApplyDeployment \/ EnsureConsumer
              \/ EnsureRoute \/ CleanupBuilds \/ DeleteConsumer
  BY <1>9, <1>12 DEF WriteBuildInput, CreateBuildJob, ApplyDeployment,
     EnsureConsumer, EnsureRoute, CleanupBuilds, DeleteConsumer
<1>13. CASE UNCHANGED vars
  BY <1>9, <1>13 DEF vars
<1> QED BY <1>3, <1>4, <1>5, <1>6, <1>7, <1>8, <1>10, <1>11, <1>12, <1>13
        DEF Next, Worker, WorkerFault

(* The controller implements the contract the other components rely on.    *)
THEOREM ContractImplemented == Spec => ImplementsContract
<1>1. IInv /\ [Next]_vars => [Contract!Next]_(Contract!crVars)
  BY StepContract DEF Contract!crVars, crVars
<1> QED BY <1>1, InitContract, Invariance, PTL
        DEF Spec, ImplementsContract, Contract!Spec

-----------------------------------------------------------------------------
(* What is built.  An object that was never deleted and recreated only     *)
(* ever adopts an image built from the spec of its own generation.         *)
(*                                                                         *)
(* The informer, the worker and the ConfigMaps may each lag behind the     *)
(* object, but they never go back.  When the Job of the current generation *)
(* is created, the worker holds that generation, so the informer has       *)
(* reached it and the ConfigMaps carry its spec; from then on no reconcile *)
(* can write an older one, and a newer one makes the Job of a past         *)
(* generation.                                                             *)

(* The first incarnation, not yet being deleted.                           *)
First == cr.uid = 1 /\ ~cr.deleting

(* A Job that was created has, or will get, what it builds from its pod;   *)
(* one that succeeded has pushed it.                                       *)
JobsOK == \A g \in Gens :
    /\ jobs[g].st = "absent" => jobs[g].src = NoSpec
    /\ jobs[g].st = "succeeded" => registry[g] = jobs[g].src

(* Before the first object nothing has happened.                           *)
Untouched == /\ cr = NoCR /\ seen = NoCR /\ op = Idle
             /\ \A g \in Gens : jobs[g].st = "absent" /\ jobsSeen[g].st = "absent"

(* The informer's object is an earlier version of the stored one.          *)
SeenLags == /\ seen.uid \in {0, 1} /\ ~seen.deleting
            /\ seen.uid = 1 => /\ seen.gen <= cr.gen
                               /\ seen.gen = cr.gen => seen.spec = cr.spec

(* The worker's copy is an earlier version of the informer's.              *)
WorkerLags ==
    op.pc # "idle" => /\ seen.uid = 1 /\ op.fn.uid = 1 /\ ~op.fn.deleting
                      /\ op.fn.gen <= seen.gen
                      /\ op.fn.gen = cr.gen => op.fn.spec = cr.spec

InputWritten == op.pc = "jobs" => cm = op.fn.spec

(* The Job list is an earlier version of the Jobs.                         *)
JobsLag == \A g \in Gens :
    /\ jobsSeen[g].st # "absent" => jobs[g].st # "absent"
    /\ jobsSeen[g].st = "succeeded" => jobs[g].st = "succeeded"

(* Nothing was built for a future generation, and once the Job of the      *)
(* current one exists, everything is about that generation.                *)
NoFutureJobs == \A g \in Gens : g > cr.gen => jobs[g].st = "absent"
CurrentJob ==
    jobs[cr.gen].st # "absent" =>
        /\ cm = cr.spec
        /\ seen.uid = 1 /\ seen.gen = cr.gen
        /\ op.pc \in Building => op.fn.gen = cr.gen
        /\ jobs[cr.gen].st \in {"running", "succeeded"}
             => jobs[cr.gen].src = cr.spec
AdoptedJob ==
    (cr.image # 0 /\ cr.obs = cr.gen) => jobs[cr.gen].st = "succeeded"

FirstInv == /\ SeenLags /\ WorkerLags /\ InputWritten
            /\ JobsLag /\ NoFutureJobs /\ CurrentJob /\ AdoptedJob

(* The inductive invariant, next to IInv.                                  *)
BuildInv == /\ cr.uid \in {0, uids}
            /\ uids = 0 => Untouched
            /\ JobsOK
            /\ First => cr.gen \in Gens /\ FirstInv

-----------------------------------------------------------------------------
(* The invariant of the build path holds initially.                        *)
LEMMA InitBuildInv == Init => BuildInv
BY DEF Init, BuildInv, Untouched, JobsOK, NoJob, First, NoCR, NewCR

(* The types the arithmetic of the steps below needs.                      *)
LEMMA BuildTypes ==
    ASSUME IInv
    PROVE  /\ uids \in Nat /\ uids \in 0..MaxUid
           /\ cr \in CRs /\ cr.gen \in Nat /\ cr.uid \in Nat /\ cr.obs \in Nat
           /\ seen \in CRs /\ seen.gen \in Nat /\ seen.uid \in Nat
           /\ op.fn \in CRs /\ op.fn.gen \in Nat /\ op.fn.uid \in Nat
           /\ jobs \in [Gens -> JobRecs] /\ jobsSeen \in [Gens -> JobRecs]
           /\ Gens \subseteq Nat
BY BoundsAssumption DEF IInv, TypeOK, CRs, Gens

(* Once an action of a busy worker happens, an object was created.         *)
LEMMA BusyFacts == ASSUME BuildInv, ~At("idle") PROVE uids # 0
BY DEF BuildInv, Untouched, At, Idle

(* Steps that change none of what the invariant relates but the worker.    *)
LEMMA WorkerOnly ==
    ASSUME IInv, BuildInv, uids # 0,
           UNCHANGED <<crVars, seen, cm, jobs, jobsSeen, registry>>,
           First => WorkerLags' /\ InputWritten'
                    /\ (jobs[cr.gen].st # "absent" /\ op'.pc \in Building
                          => op'.fn.gen = cr.gen)
    PROVE  BuildInv'
BY DEF crVars, BuildInv, First, FirstInv, JobsOK, SeenLags, WorkerLags,
       InputWritten, JobsLag, NoFutureJobs, CurrentJob, AdoptedJob

(* Ending a reconcile without a write.                                     *)
LEMMA IdleOnly ==
    ASSUME IInv, BuildInv, uids # 0, op' = Idle,
           UNCHANGED <<crVars, seen, cm, jobs, jobsSeen, registry>>
    PROVE  BuildInv'
BY WorkerOnly DEF Idle, WorkerLags, InputWritten, Building

(* Starting a reconcile: the worker takes the informer's version.          *)
LEMMA StartBuild ==
    ASSUME IInv, BuildInv, StartReconcile \/ StartDeletion \/ Abandon \/ Requeue
    PROVE  BuildInv'
<1>0. uids # 0
  BY NoCRFacts DEF StartReconcile, StartDeletion, Abandon, Requeue, Live, At, Idle,
                   BuildInv, Untouched
<1>1. CASE StartReconcile
  <2>1. CASE op' = Idle
    BY <1>0, <1>1, <2>1, IdleOnly DEF StartReconcile
  <2>2. CASE op' = [pc |-> Plan(seen), fn |-> seen] /\ Plan(seen) # "idle"
    <3>1. Plan(seen) # "jobs"
      BY DEF Plan
    <3>2. seen.uid # 0 /\ ~seen.deleting
      BY <1>1 DEF StartReconcile, Live, Exists
    <3>3. First => WorkerLags' /\ InputWritten'
                   /\ (jobs[cr.gen].st # "absent" => op'.fn.gen = cr.gen)
      BY <1>1, <2>2, <3>1, <3>2, BuildTypes
         DEF StartReconcile, crVars, BuildInv, FirstInv, SeenLags, CurrentJob,
             WorkerLags, InputWritten
    <3> QED BY <1>0, <1>1, <3>3, WorkerOnly DEF StartReconcile
  <2> QED BY <1>1, <2>1, <2>2 DEF StartReconcile, Enter
<1>2. CASE StartDeletion
  <2>1. ~First
    BY <1>2 DEF StartDeletion, BuildInv, FirstInv, SeenLags
  <2> QED BY <1>0, <1>2, <2>1, WorkerOnly DEF StartDeletion
<1>3. CASE Abandon \/ Requeue
  BY <1>0, <1>3, IdleOnly DEF Abandon, Requeue
<1> QED BY <1>1, <1>2, <1>3

(* Adding the finalizer changes the object, and the worker has its newest  *)
(* version.                                                                *)
LEMMA FinalizerBuild == ASSUME IInv, BuildInv, AddFinalizer PROVE BuildInv'
<1>1. /\ cr'.uid = cr.uid /\ cr'.gen = cr.gen /\ cr'.spec = cr.spec
      /\ cr'.deleting = cr.deleting /\ cr'.image = cr.image /\ cr'.obs = cr.obs
      /\ cr.uid # 0 /\ seen = cr /\ ~cr.deleting
  BY BuildTypes DEF AddFinalizer, CRs, Live, Exists
<1>2. uids # 0
  BY <1>1 DEF BuildInv, Untouched, NoCR, NewCR
<1>3. op' = Idle \/ (op'.fn = cr' /\ op'.pc = Plan(cr'))
  BY DEF AddFinalizer, Enter
<1>4. Plan(cr') # "jobs"
  BY DEF Plan
<1>5. First => WorkerLags' /\ InputWritten'
               /\ (op'.pc \in Building => op'.fn.gen = cr'.gen)
  <2>1. seen' = cr
    BY <1>1 DEF AddFinalizer
  <2>2. CASE op' = Idle
    BY <2>2 DEF WorkerLags, InputWritten, Idle, Building
  <2>3. CASE op'.fn = cr' /\ op'.pc # "jobs"
    BY <1>1, <2>1, <2>3, BuildTypes DEF First, WorkerLags, InputWritten
  <2> QED BY <1>3, <1>4, <2>2, <2>3
<1> QED BY <1>1, <1>2, <1>5
        DEF AddFinalizer, BuildInv, First, FirstInv, JobsOK, SeenLags,
            JobsLag, NoFutureJobs, CurrentJob, AdoptedJob

(* A status write leaves the identity and the spec of the object alone.    *)
LEMMA StatusBuild ==
    ASSUME IInv, BuildInv,
           RejectSpec \/ AdoptBuild \/ RecordBuildFailure \/ AwaitBuild
             \/ MarkBuilding \/ FailWorkload \/ MarkReady \/ RemoveFinalizer
    PROVE  BuildInv'
<1> DEFINE Kept == /\ cr'.uid = cr.uid /\ cr'.gen = cr.gen /\ cr'.spec = cr.spec
                   /\ cr'.deleting = cr.deleting
                   /\ First => AdoptedJob'
<1>1. /\ op' = Idle
      /\ UNCHANGED <<uids, seen, cm, jobs, jobsSeen, registry, deploy, wired>>
  BY DEF RejectSpec, AdoptBuild, RecordBuildFailure, AwaitBuild, MarkBuilding,
         FailWorkload, MarkReady, RemoveFinalizer, WriteStatus
<1>2. uids # 0
  BY BusyFacts DEF RejectSpec, AdoptBuild, RecordBuildFailure, AwaitBuild,
         MarkBuilding, FailWorkload, MarkReady, RemoveFinalizer, At
<1>3. Kept \/ cr' = NoCR
  <2>0. UNCHANGED cr => Kept
    BY <1>1, BuildTypes DEF BuildInv, FirstInv, AdoptedJob
  <2>1. CASE RejectSpec \/ FailWorkload
    BY <1>1, <2>0, <2>1, BuildTypes
       DEF RejectSpec, FailWorkload, WriteStatus, WithFailed, CRs,
           BuildInv, FirstInv, AdoptedJob
  <2>2. CASE AdoptBuild
    <3>1. CASE cr = op.fn /\ cr' = WithBuilt(op.fn)
      <4>1. /\ cr'.uid = cr.uid /\ cr'.gen = cr.gen /\ cr'.spec = cr.spec
            /\ cr'.deleting = cr.deleting
        BY <3>1, BuildTypes DEF WithBuilt, CRs
      <4>2. First => jobs[cr.gen].st = "succeeded"
        BY <2>2, <3>1 DEF AdoptBuild, Listed, BuildInv, FirstInv, JobsLag
      <4> QED BY <1>1, <4>1, <4>2 DEF AdoptedJob
    <3> QED BY <2>0, <2>2, <3>1 DEF AdoptBuild, WriteStatus
  <2>3. CASE RecordBuildFailure
    BY <1>1, <2>0, <2>3, BuildTypes
       DEF RecordBuildFailure, WriteStatus, WithBuildFailed, CRs, AdoptedJob
  <2>4. CASE AwaitBuild \/ MarkBuilding
    BY <1>1, <2>0, <2>4, BuildTypes
       DEF AwaitBuild, MarkBuilding, WriteStatus, WithBuilding, CRs, AdoptedJob
  <2>5. CASE MarkReady
    <3>1. op.fn.obs = op.fn.gen
      BY <2>5 DEF MarkReady, At, IInv, WorkerKnows, Deploying
    <3> QED BY <1>1, <2>0, <2>5, <3>1, BuildTypes
            DEF MarkReady, WriteStatus, WithReady, CRs,
                BuildInv, FirstInv, AdoptedJob
  <2>6. CASE RemoveFinalizer
    BY <2>0, <2>6 DEF RemoveFinalizer, WriteStatus
  <2> QED BY <2>1, <2>2, <2>3, <2>4, <2>5, <2>6
<1>4. CASE cr' = NoCR
  <2>1. cr'.uid = 0
    BY <1>4 DEF NoCR, NewCR
  <2> QED BY <1>1, <1>2, <2>1 DEF BuildInv, First, JobsOK
<1>5. CASE Kept
  BY <1>1, <1>2, <1>5
     DEF BuildInv, First, FirstInv, JobsOK, SeenLags, WorkerLags, InputWritten,
         JobsLag, NoFutureJobs, CurrentJob, Idle, Building
<1> QED BY <1>3, <1>4, <1>5

-----------------------------------------------------------------------------
(* Writing the ConfigMaps, creating the Job.                               *)
LEMMA InputBuild == ASSUME IInv, BuildInv, WriteBuildInput PROVE BuildInv'
<1>1. uids # 0
  BY BusyFacts DEF WriteBuildInput, At
<1>2. /\ op'.pc = "jobs" /\ op'.fn = op.fn /\ cm' = op.fn.spec
      /\ op.pc = "build"
      /\ UNCHANGED <<cr, uids, seen, jobs, jobsSeen, registry>>
  BY GotoFacts DEF WriteBuildInput, BuildInput, At, IInv, TypeOK, PCs, crVars
<1>3. First => WorkerLags' /\ InputWritten' /\ CurrentJob'
  BY <1>2 DEF BuildInv, FirstInv, WorkerLags, InputWritten, CurrentJob, Building
<1> QED BY <1>1, <1>2, <1>3
        DEF BuildInv, First, FirstInv, JobsOK, SeenLags, JobsLag, NoFutureJobs,
            AdoptedJob

(* Creating the Job of the generation the ConfigMaps were written for.     *)
LEMMA CreateBuild == ASSUME IInv, BuildInv, CreateBuildJob PROVE BuildInv'
<1>1. uids # 0
  BY BusyFacts DEF CreateBuildJob, At
<1>2. CASE op' = Idle /\ UNCHANGED jobs
  BY <1>1, <1>2, IdleOnly DEF CreateBuildJob
<1>3. CASE /\ jobs[op.fn.gen].st = "absent"
           /\ jobs' = [jobs EXCEPT ![op.fn.gen].st = "pending"]
           /\ Goto("mark")
  <2>1. /\ op'.pc = "mark" /\ op'.fn = op.fn /\ op.pc = "jobs"
        /\ UNCHANGED <<cr, uids, seen, cm, jobsSeen, registry>>
    BY <1>3, GotoFacts DEF CreateBuildJob, At, IInv, TypeOK, PCs, crVars
  <2>2. op.fn.obs < op.fn.gen
    BY <2>1 DEF IInv, WorkerKnows, Building
  <2>3. op.fn.gen \in Gens
    BY <2>2, BuildTypes, BoundsAssumption DEF CRs, Gens
  <2>4. /\ \A g \in Gens \ {op.fn.gen} : jobs'[g] = jobs[g]
        /\ jobs'[op.fn.gen].st = "pending"
        /\ jobs'[op.fn.gen].src = jobs[op.fn.gen].src
    BY <1>3, <2>3, BuildTypes DEF JobRecs
  <2>5. JobsOK'
    BY <2>1, <2>4 DEF BuildInv, JobsOK
  <2>6. ASSUME First PROVE cr.gen \in Gens /\ FirstInv'
    <3>1. /\ cr.gen \in Gens /\ FirstInv
          /\ op.fn.gen <= seen.gen /\ seen.gen <= cr.gen /\ cm = op.fn.spec
          /\ op.fn.gen = cr.gen => op.fn.spec = cr.spec
          /\ seen.uid = 1
      BY <2>1, <2>6 DEF BuildInv, FirstInv, SeenLags, WorkerLags, InputWritten
    <3>2. SeenLags' /\ WorkerLags' /\ InputWritten'
      BY <2>1, <3>1 DEF FirstInv, SeenLags, WorkerLags, InputWritten
    <3>3. JobsLag'
      BY <1>3, <2>1, <2>4, <3>1 DEF FirstInv, JobsLag
    <3>4. NoFutureJobs'
      BY <2>1, <2>3, <2>4, <3>1, BuildTypes DEF FirstInv, NoFutureJobs
    <3>5. CurrentJob'
      <4>1. CASE op.fn.gen = cr.gen
        <5>1. seen.gen = cr.gen
          BY <3>1, <4>1, BuildTypes
        <5> QED BY <2>1, <2>4, <3>1, <4>1, <5>1 DEF CurrentJob
      <4>2. CASE op.fn.gen # cr.gen
        BY <2>1, <2>4, <3>1, <4>2 DEF FirstInv, CurrentJob, Building
      <4> QED BY <4>1, <4>2
    <3>6. AdoptedJob'
      BY <1>3, <2>1, <2>4, <3>1 DEF FirstInv, AdoptedJob
    <3> QED BY <3>1, <3>2, <3>3, <3>4, <3>5, <3>6 DEF FirstInv
  <2> QED BY <1>1, <2>1, <2>5, <2>6 DEF BuildInv, First
<1> QED BY <1>2, <1>3 DEF CreateBuildJob

(* Deploying, and cleaning up.                                             *)
LEMMA DeployBuild ==
    ASSUME IInv, BuildInv,
           ApplyDeployment \/ EnsureConsumer \/ EnsureRoute \/ DeleteConsumer
    PROVE  BuildInv'
<1>1. uids # 0
  BY BusyFacts DEF ApplyDeployment, EnsureConsumer, EnsureRoute, DeleteConsumer, At
<1>2. /\ op'.pc \in {"consumer", "route", "ready", "release"} /\ op'.fn = op.fn
      /\ op.pc # "idle"
      /\ UNCHANGED <<crVars, seen, cm, jobs, jobsSeen, registry>>
  BY GotoFacts DEF ApplyDeployment, EnsureConsumer, EnsureRoute, DeleteConsumer,
     At, IInv, TypeOK, PCs
<1>3. First => WorkerLags' /\ InputWritten'
  BY <1>2 DEF crVars, BuildInv, FirstInv, WorkerLags, InputWritten
<1> QED BY <1>1, <1>2, <1>3, WorkerOnly DEF Building

(* Deleting the Jobs and ConfigMaps of an object marked for deletion.      *)
LEMMA CleanupBuild == ASSUME IInv, BuildInv, CleanupBuilds PROVE BuildInv'
<1>1. uids # 0
  BY BusyFacts DEF CleanupBuilds, At
<1>2. ~First
  BY DEF CleanupBuilds, At, IInv, WorkerKnows, Deleting, BuildInv, FirstInv, WorkerLags
<1>3. JobsOK'
  BY DEF CleanupBuilds, NoJob, BuildInv, JobsOK
<1> QED BY <1>1, <1>2, <1>3 DEF CleanupBuilds, crVars, BuildInv, First

-----------------------------------------------------------------------------
(* The informers.                                                          *)
LEMMA SyncBuild == ASSUME IInv, BuildInv, SyncFunction \/ SyncJobs PROVE BuildInv'
<1>1. CASE SyncFunction
  <2>1. /\ seen' = cr /\ seen # cr
        /\ UNCHANGED <<cr, uids, op, cm, jobs, jobsSeen, registry>>
    BY <1>1 DEF SyncFunction, crVars
  <2>2. uids # 0
    BY <2>1 DEF BuildInv, Untouched
  <2>3. First => FirstInv'
    BY <2>1, BuildTypes
       DEF BuildInv, First, FirstInv, SeenLags, WorkerLags, InputWritten,
           JobsLag, NoFutureJobs, CurrentJob, AdoptedJob
  <2> QED BY <2>1, <2>2, <2>3 DEF BuildInv, First, JobsOK
<1>2. CASE SyncJobs
  <2>1. /\ jobsSeen' = jobs
        /\ UNCHANGED <<cr, uids, seen, op, cm, jobs, registry>>
    BY <1>2 DEF SyncJobs, crVars
  <2>2. JobsLag'
    BY <2>1 DEF JobsLag
  <2> QED BY <2>1, <2>2
          DEF BuildInv, Untouched, JobsOK, First, FirstInv, SeenLags, WorkerLags,
              InputWritten, NoFutureJobs, CurrentJob, AdoptedJob
<1> QED BY <1>1, <1>2

(* Build pods: a Job only ever moves towards its end, and takes the spec   *)
(* of the ConfigMaps.                                                      *)
LEMMA PodBuild ==
    ASSUME IInv, BuildInv, NEW g \in Gens,
           PodStart(g) \/ BuildSucceeds(g) \/ BuildFails(g)
    PROVE  BuildInv'
<1>1. /\ jobs[g].st \in ActiveStates
      /\ jobs'[g].st \in {"running", "succeeded", "failed"}
      /\ \A h \in Gens \ {g} : jobs'[h] = jobs[h] /\ registry'[h] = registry[h]
      /\ UNCHANGED <<cr, uids, seen, op, cm, jobsSeen>>
  BY BuildTypes DEF PodStart, BuildSucceeds, BuildFails, ActiveStates, JobRecs,
                    crVars, IInv, TypeOK
<1>2. uids # 0
  BY <1>1 DEF BuildInv, Untouched, ActiveStates
<1>3. JobsOK'
  <2>1. jobs'[g].st = "succeeded" => registry'[g] = jobs'[g].src
    BY BuildTypes DEF PodStart, BuildSucceeds, BuildFails, JobRecs, IInv, TypeOK
  <2> QED BY <1>1, <2>1 DEF BuildInv, JobsOK
<1>4. \/ jobs'[g].st = "running" /\ jobs'[g].src = cm
      \/ /\ jobs[g].st = "running" /\ jobs'[g].st = "succeeded"
         /\ jobs'[g].src = jobs[g].src
      \/ jobs'[g].st = "failed"
  BY BuildTypes DEF PodStart, BuildSucceeds, BuildFails, JobRecs
<1>5. ASSUME First PROVE FirstInv'
  <2>1. FirstInv /\ cr.gen \in Gens
    BY <1>5 DEF BuildInv
  <2>2. SeenLags' /\ WorkerLags' /\ InputWritten'
    BY <1>1, <2>1 DEF FirstInv, SeenLags, WorkerLags, InputWritten
  <2>3. JobsLag' /\ NoFutureJobs' /\ AdoptedJob'
    BY <1>1, <2>1 DEF FirstInv, JobsLag, NoFutureJobs, AdoptedJob, ActiveStates
  <2>4. CurrentJob'
    BY <1>1, <1>4, <2>1 DEF FirstInv, CurrentJob, ActiveStates
  <2> QED BY <2>2, <2>3, <2>4 DEF FirstInv
<1> QED BY <1>1, <1>2, <1>3, <1>5 DEF BuildInv, First

(* Replicas.                                                               *)
LEMMA ReplicaBuild ==
    ASSUME IInv, BuildInv, NEW t, ReplicaReady \/ RolloutCompletes \/ ReplicaLost(t)
    PROVE  BuildInv'
BY DEF ReplicaReady, RolloutCompletes, ReplicaLost, crVars, BuildInv, Untouched,
       First, FirstInv, JobsOK, SeenLags, WorkerLags, InputWritten, JobsLag,
       NoFutureJobs, CurrentJob, AdoptedJob

-----------------------------------------------------------------------------
(* Clients: a changed spec is a new generation, for which nothing exists.  *)
LEMMA ClientBuild == ASSUME IInv, BuildInv, Client PROVE BuildInv'
<1> USE DEF Client, opVars
<1>1. UNCHANGED <<seen, op, cm, jobs, jobsSeen, registry>>
  OBVIOUS
<1>2. ASSUME NEW s \in Specs, ApiCreate(s) PROVE BuildInv'
  <2>1. /\ cr' = NewCR(uids + 1, 1, s) /\ uids' = uids + 1 /\ cr.uid = 0
    BY <1>2 DEF ApiCreate, Exists
  <2>2. CASE uids = 0
    <3>1. Untouched
      BY <2>2 DEF BuildInv
    <3>2. /\ cr'.gen = 1 /\ cr'.uid = 1 /\ cr'.image = 0
          /\ seen.uid = 0 /\ ~seen.deleting /\ op.pc = "idle"
      BY <2>1, <2>2, <3>1 DEF NewCR, Untouched, NoCR, Idle
    <3>3. 1 \in Gens
      BY BoundsAssumption DEF Gens
    <3>4. FirstInv'
      BY <1>1, <3>1, <3>2, <3>3
         DEF Untouched, FirstInv, SeenLags, WorkerLags, InputWritten, JobsLag,
             NoFutureJobs, CurrentJob, AdoptedJob
    <3> QED BY <1>1, <2>1, <2>2, <3>2, <3>3, <3>4 DEF BuildInv, JobsOK
  <2>3. CASE uids # 0
    <3>1. cr'.uid = uids' /\ uids' # 0 /\ uids' # 1
      BY <2>1, <2>3, BuildTypes DEF NewCR
    <3> QED BY <1>1, <3>1 DEF BuildInv, First, JobsOK
  <2> QED BY <2>2, <2>3
<1>3. CASE /\ \/ \E s \in Specs : ApiUpdate(cr, s)
              \/ ApiDelete
           /\ UNCHANGED uids
  <2>1. cr.uid # 0 /\ uids # 0
    BY <1>3 DEF ApiUpdate, ApiDelete, Exists, BuildInv
  <2>2. \/ ~First'
        \/ First /\ cr'.gen = cr.gen /\ cr'.spec = cr.spec
             /\ cr'.image = cr.image /\ cr'.obs = cr.obs
        \/ First /\ cr'.gen = cr.gen + 1 /\ cr.gen < MaxGen /\ cr'.obs = cr.obs
    <3>1. CASE ApiDelete
      BY <3>1, BuildTypes DEF ApiDelete, First, NoCR, NewCR, CRs
    <3>2. ASSUME NEW s \in Specs, ApiUpdate(cr, s) PROVE <2>2
      <4>1. CASE cr.deleting
        BY <3>2, <4>1 DEF ApiUpdate, Replaced, First, NoCR, NewCR
      <4>2. CASE ~cr.deleting
        BY <3>2, <4>2, BuildTypes
           DEF ApiUpdate, Replaced, CanReplace, First, CRs
      <4> QED BY <4>1, <4>2
    <3> QED BY <1>3, <3>1, <3>2
  <2>3. cr'.uid \in {0, uids}
    <3>1. CASE ApiDelete
      BY <3>1, BuildTypes DEF ApiDelete, NoCR, NewCR, CRs, BuildInv
    <3>2. ASSUME NEW s \in Specs, ApiUpdate(cr, s) PROVE cr'.uid \in {0, uids}
      BY <3>2, BuildTypes DEF ApiUpdate, Replaced, NoCR, NewCR, CRs, BuildInv
    <3> QED BY <1>3, <3>1, <3>2
  <2>4. CASE First /\ cr'.gen = cr.gen /\ cr'.spec = cr.spec
              /\ cr'.image = cr.image /\ cr'.obs = cr.obs
    BY <1>1, <1>3, <2>1, <2>3, <2>4
       DEF BuildInv, FirstInv, JobsOK, SeenLags, WorkerLags, InputWritten, JobsLag,
           NoFutureJobs, CurrentJob, AdoptedJob
  <2>5. CASE First /\ cr'.gen = cr.gen + 1 /\ cr.gen < MaxGen /\ cr'.obs = cr.obs
    <3>1. /\ cr'.gen \in Gens /\ cr'.gen > cr.gen
          /\ jobs[cr'.gen].st = "absent" /\ FirstInv
      BY <2>5, BuildTypes, BoundsAssumption
         DEF Gens, BuildInv, FirstInv, NoFutureJobs
    <3>2. cr.obs <= cr.gen
      BY DEF IInv, Consistent
    <3>3. FirstInv'
      <4>1. SeenLags' /\ WorkerLags' /\ InputWritten'
        BY <1>1, <2>5, <3>1, BuildTypes
           DEF FirstInv, SeenLags, WorkerLags, InputWritten
      <4>2. JobsLag' /\ NoFutureJobs' /\ CurrentJob' /\ AdoptedJob'
        BY <1>1, <2>5, <3>1, <3>2, BuildTypes
           DEF FirstInv, JobsLag, NoFutureJobs, CurrentJob, AdoptedJob
      <4> QED BY <4>1, <4>2 DEF FirstInv
    <3> QED BY <1>1, <1>3, <2>1, <2>3, <3>1, <3>3 DEF BuildInv, JobsOK
  <2>6. CASE ~First'
    BY <1>1, <1>3, <2>1, <2>3, <2>6 DEF BuildInv, JobsOK
  <2> QED BY <2>2, <2>4, <2>5, <2>6
<1> QED BY <1>2, <1>3 DEF ApiUpdate, ApiDelete

-----------------------------------------------------------------------------
(* Every step keeps the invariant of the build path.                       *)
LEMMA NextBuildInv == IInv /\ BuildInv /\ [Next]_vars => BuildInv'
<1> SUFFICES ASSUME IInv, BuildInv, [Next]_vars PROVE BuildInv'
  OBVIOUS
<1>1. CASE UNCHANGED vars
  BY <1>1 DEF vars, crVars, opVars, BuildInv, Untouched, First, FirstInv, JobsOK,
     SeenLags, WorkerLags, InputWritten, JobsLag, NoFutureJobs, CurrentJob, AdoptedJob
<1>2. CASE Worker \/ WorkerFault
  BY <1>2, StartBuild, FinalizerBuild, StatusBuild, InputBuild, CreateBuild,
     DeployBuild, CleanupBuild DEF Worker, WorkerFault
<1>3. CASE Cluster \/ ClusterFault
  BY <1>3, SyncBuild, PodBuild, ReplicaBuild DEF Cluster, ClusterFault
<1>4. CASE Client
  BY <1>4, ClientBuild
<1> QED BY <1>1, <1>2, <1>3, <1>4 DEF Next

(* The image adopted for the current generation was built from the spec of *)
(* that generation.                                                        *)
THEOREM OwnImageCorrect == Spec => []OwnImageMatchesSpec
<1>1. IInv /\ BuildInv => OwnImageMatchesSpec
  BY DEF IInv, BuildInv, First, FirstInv, JobsOK, CurrentJob, AdoptedJob,
         Consistent, OwnImageMatchesSpec, Current, Live
<1>2. Spec => []BuildInv
  BY InitBuildInv, NextBuildInv, Invariance, PTL DEF Spec
<1> QED BY <1>1, <1>2, Invariance, PTL
=============================================================================

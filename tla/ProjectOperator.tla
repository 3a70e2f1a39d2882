---------------------------- MODULE ProjectOperator ----------------------------
(***************************************************************************)
(* The Project controller: the limit on the number of projects, the        *)
(* provisioning of one project's namespace, database, API and auth objects *)
(* call by call, the JWT key material, and deletion.  Code:                *)
(* operator/internal/controller/project_controller.go, the conditions and  *)
(* Secret references of the builders in operator/internal/resources, and   *)
(* the stream calls of operator/internal/natsadmin/admin.go.               *)
(*                                                                         *)
(* There is one worker.  It reads Projects from an informer (seen), and    *)
(* performs the API calls of a reconcile one after the other; a call that  *)
(* would change nothing (CreateOrUpdate of an equal object, a delete of an *)
(* absent one) is passed over.  A created object that the informer of its  *)
(* kind does not show yet makes the next Create fail, which is a failing   *)
(* call like any other.                                                    *)
(***************************************************************************)
EXTENDS Naturals, Sequences, FiniteSets

CONSTANTS Projects,          \* project ids
          Scenarios,         \* for each project, the values its .spec.stack may take
          MaxTotalProjects,  \* the configured limit, 0 for none
          MaxGen,            \* bound: generations of one Project
          MaxKeys,           \* bound: RSA key pairs generated for one project
          MaxFaults          \* bound: failing calls, conflicts and restarts

StackValues == [pg : BOOLEAN, pooler : BOOLEAN, redis : BOOLEAN, rest : BOOLEAN]

(* CreateProject refuses PostgREST without Postgres.                       *)
ASSUME ParametersAssumption ==
    /\ IsFiniteSet(Projects) /\ Projects # {}
    /\ Scenarios \subseteq [Projects -> SUBSET {s \in StackValues : s.rest => s.pg}]
    /\ MaxTotalProjects \in Nat /\ MaxGen \in Nat \ {0}
    /\ MaxKeys \in Nat /\ MaxFaults \in Nat

VARIABLES stacks,  \* the scenario
          cr,      \* the Project of each id, as the API server keeps it
          seen,    \* the informer's copy of cr
          objs,    \* the objects that exist for each project
          signer,  \* the key pair each JWT Secret belongs to, 0 when absent
          aging,   \* role keys that expire within 30 days
          gone,    \* projects whose namespace is terminating
          skipped, \* history: deletions that did not find their namespace
          missed,  \* history: stale objects whose delete failed unnoticed
          op,      \* the worker
          faults

cluster == <<stacks, objs, signer, aging, gone, skipped, missed>>
vars == <<stacks, cr, seen, objs, signer, aging, gone, skipped, missed, op, faults>>

(* phase "Pending" is written by nothing.                                  *)
Phases == {"", "Provisioning", "Ready", "Failed", "Queued"}
States == {"none", "live", "deleting", "gone"}
CRs == [st : States, fin : BOOLEAN, gen : 1..MaxGen, stack : StackValues,
        phase : Phases, obs : 0..MaxGen]

(* The enum of status.phase in the CRD: the API server refuses a status    *)
(* update with any other value.                                            *)
AdmittedPhases == {"Pending", "Provisioning", "Ready", "Failed"}

-----------------------------------------------------------------------------
(* What the builders want for a stack s, nil otherwise, and the writes of  *)
(* each reconcile... function, in order.                                   *)

Put(o)    == <<[do |-> "put", obj |-> o]>>
Remove(o) == <<[do |-> "delete", obj |-> o]>>
(* deleteIfExists drops the errors of its Get and its Delete.              *)
Drop(o)   == <<[do |-> "drop", obj |-> o]>>
Have(wanted, o) == IF wanted THEN Put(o) ELSE Drop(o)
HaveStrict(wanted, o) == IF wanted THEN Put(o) ELSE Remove(o)
Mint      == <<[do |-> "mint", obj |-> "gotrue-jwt-keys"]>>
Expire(o) == <<[do |-> "expire", obj |-> o]>>
Derive(o) == <<[do |-> "derive", obj |-> o]>>

DesiredNamespace == Put("namespace")
reconcileNamespace == DesiredNamespace

DesiredResourceQuota == Put("quota")
DesiredLimitRange == Put("limits")
reconcileResourceQuota == DesiredResourceQuota \o DesiredLimitRange

(* Six policies, created one after the other; the four that allow traffic  *)
(* from the namespace, the platform, CNPG and the gateway stand as one.    *)
DesiredDefaultDenyNetworkPolicy == Put("default-deny")
DesiredAllowNetworkPolicies == Put("allow-ingress")
DesiredEgressNetworkPolicy == Put("egress-restrict")
reconcileNetworkPolicies == DesiredDefaultDenyNetworkPolicy
                            \o DesiredAllowNetworkPolicies
                            \o DesiredEgressNetworkPolicy

reconcileCDCSecret(s) == Have(s.pg, "db-cdc")

DesiredCloudNativePGCluster(s) == s.pg
DesiredCloudNativePGPooler(s) == s.pg /\ s.pooler
reconcilePostgres(s) ==
    IF DesiredCloudNativePGCluster(s)
    THEN Put("db") \o HaveStrict(DesiredCloudNativePGPooler(s), "db-pooler")
    ELSE Remove("db-pooler") \o Remove("db")

EnsureStream == Put("stream")
DeleteStream == Remove("stream")
reconcileNATSStream(s) == IF s.pg THEN EnsureStream ELSE DeleteStream

DesiredCDCDeployment(s) == s.pg
reconcileCDC(s) == Have(DesiredCDCDeployment(s), "cdc")

DesiredRedisDeployment(s) == s.redis
DesiredRedisService(s) == s.redis
reconcileRedis(s) == Have(DesiredRedisDeployment(s), "redis")
                     \o Have(DesiredRedisService(s), "redis-svc")

(* Mutant: created for no stack.                                           *)
reconcileJWTSecretNever(s) == Drop("project-jwt-secret")
reconcileJWTSecret(s) == Have(s.pg, "project-jwt-secret")

RoleKeys == {"service-role-key", "anon-key"}
Derived == RoleKeys \cup {"jwt-verification-key"}
JwtSecrets == Derived \cup {"gotrue-jwt-keys"}
ensureJWTVerificationKey == Derive("jwt-verification-key")
ensureRoleKeySecret(o) == Expire(o) \o Derive(o)
(* Without Postgres the keys are left as they are.                         *)
reconcileJWTKeys(s) ==
    IF ~s.pg THEN <<>>
    ELSE Mint \o ensureJWTVerificationKey
         \o ensureRoleKeySecret("service-role-key") \o ensureRoleKeySecret("anon-key")

DesiredPostgRESTConfigMap(s) == s.rest
DesiredPostgRESTDeployment(s) == s.rest
DesiredPostgRESTService(s) == s.rest
reconcilePostgREST(s) == Have(DesiredPostgRESTConfigMap(s), "postgrest-config")
                         \o Have(DesiredPostgRESTDeployment(s), "postgrest")
                         \o Have(DesiredPostgRESTService(s), "postgrest-svc")

DesiredPostgresMetaDeployment(s) == s.pg
DesiredPostgresMetaService(s) == s.pg
reconcilePostgresMeta(s) == Have(DesiredPostgresMetaDeployment(s), "postgres-meta")
                            \o Have(DesiredPostgresMetaService(s), "postgres-meta-svc")

(* gotrue-db-url is derived from CNPG's db-app, and never removed.         *)
ensureGoTrueDBURL == Put("gotrue-db-url")
DesiredGoTrueDeployment(s) == s.pg
DesiredGoTrueService(s) == s.pg
reconcileGoTrue(s) == (IF s.pg THEN ensureGoTrueDBURL ELSE <<>>)
                      \o Have(DesiredGoTrueDeployment(s), "gotrue")
                      \o Have(DesiredGoTrueService(s), "gotrue-svc")

DesiredHTTPRoute(s) == s.rest
(* Mutant: kept once PostgREST is disabled.                                *)
reconcileHTTPRouteKept(s) == IF DesiredHTTPRoute(s) THEN Put("api-route") ELSE <<>>
reconcileHTTPRoute(s) == HaveStrict(DesiredHTTPRoute(s), "api-route")

DesiredTLSRoute(s) == s.pg
reconcileTLSRoute(s) == HaveStrict(DesiredTLSRoute(s), "db-route")

Isolation == reconcileNamespace \o reconcileResourceQuota \o reconcileNetworkPolicies
Database(s) == reconcileCDCSecret(s) \o reconcilePostgres(s)
               \o reconcileNATSStream(s) \o reconcileCDC(s)
Services(s) == reconcileRedis(s) \o reconcileJWTSecret(s) \o reconcileJWTKeys(s)
               \o reconcilePostgREST(s) \o reconcilePostgresMeta(s)
               \o reconcileGoTrue(s) \o reconcileHTTPRoute(s) \o reconcileTLSRoute(s)
Plan(s) == Isolation \o Database(s) \o Services(s)

(* The Secrets and ConfigMaps a Deployment's pods refer to, without which  *)
(* the kubelet does not start them.                                        *)
References(o) ==
    CASE o = "cdc" -> {"db-cdc"}
      [] o = "postgrest" -> {"postgrest-config", "db-app", "jwt-verification-key"}
      [] o = "postgres-meta" -> {"db-app"}
      [] o = "gotrue" -> {"gotrue-db-url", "project-jwt-secret", "gotrue-jwt-keys"}
      [] OTHER -> {}

-----------------------------------------------------------------------------
Isolators == {"namespace", "quota", "limits",
              "default-deny", "allow-ingress", "egress-restrict"}
Objects == Isolators \cup {"db-cdc", "db",
            "db-pooler", "db-app", "stream", "cdc", "redis", "redis-svc",
            "project-jwt-secret", "postgrest-config", "postgrest", "postgrest-svc",
            "postgres-meta", "postgres-meta-svc", "gotrue-db-url", "gotrue",
            "gotrue-svc", "api-route", "db-route"}
Writes == [do : {"put", "delete", "drop", "mint", "expire", "derive"},
           obj : Objects \cup JwtSecrets]
PCs == {"idle", "finalizer", "gate", "apply", "stream", "namespace", "release"}

NoProject == [st |-> "none", fin |-> FALSE, gen |-> 1,
              stack |-> CHOOSE s \in StackValues : TRUE, phase |-> "", obs |-> 0]
Idle == [pc |-> "idle", p |-> CHOOSE p \in Projects : TRUE, cr |-> NoProject,
         todo |-> <<>>]

Init == /\ stacks \in Scenarios
        /\ cr = [p \in Projects |-> NoProject]
        /\ seen = cr
        /\ objs = [p \in Projects |-> {}]
        /\ signer = [p \in Projects |-> [o \in JwtSecrets |-> 0]]
        /\ aging = [p \in Projects |-> {}]
        /\ gone = {} /\ skipped = {}
        /\ missed = [p \in Projects |-> {}]
        /\ op = Idle
        /\ faults = 0

At(pc) == op.pc = pc
Live(p) == cr[p].st = "live"
HasObject(p, o) == IF o \in JwtSecrets THEN signer[p][o] # 0 ELSE o \in objs[p]
Fault == faults < MaxFaults /\ faults' = faults + 1

(* A write with the resourceVersion of the worker's copy: the API server   *)
(* refuses it when the Project has changed since.                          *)
Write(new, next) ==
    IF op.cr = cr[op.p]
    THEN /\ cr' = [cr EXCEPT ![op.p] = new]
         /\ op' = IF next = Idle THEN Idle ELSE [next EXCEPT !.cr = new]
    ELSE op' = Idle /\ UNCHANGED cr

-----------------------------------------------------------------------------
(* Project MS and administrators.                                          *)

CreateProject(p) ==
    /\ cr[p].st = "none"
    /\ \E s \in stacks[p] : cr' = [cr EXCEPT ![p].st = "live", ![p].stack = s]
    /\ UNCHANGED <<seen, cluster, op, faults>>

EditStack(p) ==
    /\ Live(p) /\ cr[p].gen < MaxGen
    /\ \E s \in stacks[p] \ {cr[p].stack} :
           cr' = [cr EXCEPT ![p].stack = s, ![p].gen = @ + 1]
    /\ UNCHANGED <<seen, cluster, op, faults>>

DeleteProject(p) ==
    /\ Live(p)
    /\ cr' = [cr EXCEPT ![p].st = IF cr[p].fin THEN "deleting" ELSE "gone"]
    /\ UNCHANGED <<seen, cluster, op, faults>>

Sync(p) ==
    /\ seen[p] # cr[p]
    /\ seen' = [seen EXCEPT ![p] = cr[p]]
    /\ UNCHANGED <<cr, cluster, op, faults>>

(* CNPG publishes the application user's Secret, and it goes with the      *)
(* Cluster that owns it.                                                   *)
CNPG(p) ==
    /\ ("db" \in objs[p]) # ("db-app" \in objs[p])
    /\ objs' = [objs EXCEPT ![p] = IF "db" \in @ THEN @ \cup {"db-app"}
                                   ELSE @ \ {"db-app"}]
    /\ UNCHANGED <<stacks, cr, seen, signer, aging, gone, skipped, missed, op, faults>>

(* The namespace controller removes everything in the namespace.           *)
NamespaceTerminates(p) ==
    /\ p \in gone
    /\ objs' = [objs EXCEPT ![p] = @ \cap {"stream"}]
    /\ signer' = [signer EXCEPT ![p] = [o \in JwtSecrets |-> 0]]
    /\ aging' = [aging EXCEPT ![p] = {}]
    /\ gone' = gone \ {p}
    /\ missed' = [missed EXCEPT ![p] = {}]
    /\ UNCHANGED <<stacks, cr, seen, skipped, op, faults>>

(* isJWTExpiringSoon becomes true of a role key.                           *)
KeyAges(p) ==
    /\ faults < MaxFaults
    /\ \E o \in RoleKeys :
         /\ signer[p][o] # 0 /\ o \notin aging[p]
         /\ aging' = [aging EXCEPT ![p] = @ \cup {o}]
    /\ faults' = faults + 1
    /\ UNCHANGED <<stacks, cr, seen, objs, signer, gone, skipped, missed, op>>

-----------------------------------------------------------------------------
(* The worker.                                                             *)

(* An event of the Project, a requeue or the resync of the informer.       *)
Start(p) ==
    /\ At("idle")
    /\ \/ seen[p].st = "live"
       \/ seen[p].st = "deleting" /\ seen[p].fin
    /\ op' = [Idle EXCEPT
                !.pc = IF seen[p].st = "deleting" THEN "stream"
                       ELSE IF seen[p].fin THEN "gate" ELSE "finalizer",
                !.p = p, !.cr = seen[p]]
    /\ UNCHANGED <<cr, seen, cluster, faults>>

AddFinalizer ==
    /\ At("finalizer")
    /\ Write([op.cr EXCEPT !.fin = TRUE], [op EXCEPT !.pc = "gate"])
    /\ UNCHANGED <<seen, cluster, faults>>

(* The other projects the informer lists that are not being deleted,       *)
(* whether they were let through or not.                                   *)
activeCount(p) == Cardinality({q \in Projects \ {p} : seen[q].st = "live"})
(* Mutant: only finished projects count.                                   *)
LimitReachedReady ==
    /\ MaxTotalProjects > 0 /\ op.cr.phase = ""
    /\ Cardinality({q \in Projects \ {op.p} :
            seen[q].st = "live" /\ seen[q].phase = "Ready"}) >= MaxTotalProjects
LimitReached ==
    /\ MaxTotalProjects > 0 /\ op.cr.phase = ""
    /\ activeCount(op.p) >= MaxTotalProjects

(* A status update with phase ph; the schema is checked first.             *)
WritePhase(ph, next) ==
    IF ph \in AdmittedPhases
    THEN Write([op.cr EXCEPT !.phase = ph], next)
    ELSE op' = Idle /\ UNCHANGED cr

Queue ==
    /\ At("gate") /\ LimitReached
    /\ WritePhase("Queued", Idle)
    /\ UNCHANGED <<seen, cluster, faults>>

StartProvisioning ==
    /\ At("gate") /\ ~LimitReached
    /\ LET next == [op EXCEPT !.pc = "apply", !.todo = Plan(op.cr.stack)]
       IN IF op.cr.phase \in {"", "Pending", "Queued"}
          THEN WritePhase("Provisioning", next)
          ELSE op' = next /\ UNCHANGED cr
    /\ UNCHANGED <<seen, cluster, faults>>

(* Would this call change anything?  db-app has to exist for its URL to be *)
(* derived; nothing can be created in a namespace that is not there.       *)
Changes(w) ==
    LET p == op.p IN
    CASE w.do = "put" -> /\ w.obj \notin objs[p]
                         /\ w.obj = "gotrue-db-url" => "db-app" \in objs[p]
      [] w.do \in {"delete", "drop"} -> w.obj \in objs[p]
      [] w.do = "expire" -> w.obj \in aging[p]
      [] w.do \in {"mint", "derive"} -> signer[p][w.obj] = 0

(* Call i is the next that changes something; what is left after it.       *)
NextCall(i) == Changes(op.todo[i]) /\ \A j \in 1..(i - 1) : ~Changes(op.todo[j])
Finished == \A i \in DOMAIN op.todo : ~Changes(op.todo[i])
After(i) == [op EXCEPT !.todo = SubSeq(@, i + 1, Len(@))]

(* Create or delete one object.                                            *)
Apply(w) ==
    /\ w.do \in {"put", "delete", "drop"}
    /\ objs' = [objs EXCEPT ![op.p] = IF w.do = "put" THEN @ \cup {w.obj}
                                      ELSE @ \ {w.obj}]
    /\ missed' = [missed EXCEPT ![op.p] = @ \ {w.obj}]
    /\ UNCHANGED <<stacks, cr, seen, signer, aging, gone, skipped, faults>>

(* A failed deleteIfExists is not noticed.                                 *)
DropFails(w) ==
    /\ w.do = "drop"
    /\ Fault
    /\ missed' = [missed EXCEPT ![op.p] = @ \cup {w.obj}]
    /\ UNCHANGED <<stacks, cr, seen, objs, signer, aging, gone, skipped>>

(* A new RSA key pair, stored before anything is derived from it.          *)
GenerateRSAKeyPair(p) == {k \in 1..MaxKeys : \A o \in JwtSecrets : signer[p][o] # k}
MintKeys(w) ==
    /\ w.do = "mint"
    /\ GenerateRSAKeyPair(op.p) # {}
    /\ signer' = [signer EXCEPT ![op.p][w.obj] = CHOOSE k \in GenerateRSAKeyPair(op.p) : TRUE]
    /\ UNCHANGED <<stacks, cr, seen, objs, aging, gone, skipped, missed, faults>>

ParseRSAPrivateKeyFromJWKSet(p) == signer[p]["gotrue-jwt-keys"]

(* Mutant: the keys are derived from a pair of this reconcile's own.       *)
DeriveKeyFresh(w) ==
    /\ w.do = "derive"
    /\ \E k \in 1..MaxKeys : signer' = [signer EXCEPT ![op.p][w.obj] = k]
    /\ UNCHANGED <<stacks, cr, seen, objs, aging, gone, skipped, missed, faults>>

(* The public key, or a JWT signed with the stored private key.            *)
DeriveKey(w) ==
    /\ w.do = "derive"
    /\ signer' = [signer EXCEPT ![op.p][w.obj] = ParseRSAPrivateKeyFromJWKSet(op.p)]
    /\ UNCHANGED <<stacks, cr, seen, objs, aging, gone, skipped, missed, faults>>

(* The first half of the renewal of a role key: the old Secret is deleted. *)
ExpireKey(w) ==
    /\ w.do = "expire"
    /\ signer' = [signer EXCEPT ![op.p][w.obj] = 0]
    /\ aging' = [aging EXCEPT ![op.p] = @ \ {w.obj}]
    /\ UNCHANGED <<stacks, cr, seen, objs, gone, skipped, missed, faults>>

Calls == At("apply") /\ \E i \in DOMAIN op.todo :
    /\ NextCall(i)
    /\ \/ Apply(op.todo[i]) \/ MintKeys(op.todo[i])
       \/ DeriveKey(op.todo[i]) \/ ExpireKey(op.todo[i])
    /\ op' = After(i)
CallMissed == At("apply") /\ \E i \in DOMAIN op.todo :
    NextCall(i) /\ DropFails(op.todo[i]) /\ op' = After(i)

(* The components the status waits for.  They can all be up when what      *)
(* their pods refer to exists: a healthy Cluster, ready replicas.          *)
Components(s) == (IF s.pg THEN {"db", "cdc", "postgres-meta", "gotrue"} ELSE {})
                 \cup (IF s.redis THEN {"redis"} ELSE {})
                 \cup (IF s.rest THEN {"postgrest"} ELSE {})
CanBeUp(p, s) == \A o \in Components(s) :
                    o \in objs[p] /\ \A r \in References(o) : HasObject(p, r)

(* Mutant: one generation too many.                                        *)
updateStatusNext(allReady) ==
    /\ At("apply") /\ Finished
    /\ Write([op.cr EXCEPT !.phase = "Ready", !.obs = op.cr.gen + 1], Idle)
    /\ UNCHANGED <<seen, cluster, faults>>

updateStatus(allReady) ==
    /\ At("apply") /\ Finished
    /\ allReady => CanBeUp(op.p, op.cr.stack)
    /\ Write([op.cr EXCEPT !.phase = IF allReady THEN "Ready" ELSE "Provisioning",
                           !.obs = op.cr.gen], Idle)
    /\ UNCHANGED <<seen, cluster, faults>>

(* A call fails: the phase says so, and the reconcile is tried again.      *)
setFailed ==
    /\ At("apply")
    /\ \E i \in DOMAIN op.todo : NextCall(i) /\ op.todo[i].do # "drop"
    /\ Fault
    /\ WritePhase("Failed", Idle)
    /\ UNCHANGED <<seen, cluster>>

(* A conflict in a child object, an error outside the steps or a restart.  *)
Abandon ==
    /\ ~At("idle")
    /\ Fault
    /\ op' = Idle
    /\ UNCHANGED <<cr, seen, cluster>>

-----------------------------------------------------------------------------
(* handleDeletion: the stream, the namespace, the finalizer.               *)

(* Mutant: an error is logged and ignored.                                 *)
CleanupStreamAnyhow ==
    /\ At("stream")
    /\ \E left \in SUBSET (objs[op.p] \cap {"stream"}) :
          objs' = [objs EXCEPT ![op.p] = (@ \ {"stream"}) \cup left]
    /\ op' = [op EXCEPT !.pc = "namespace"]
    /\ UNCHANGED <<stacks, cr, seen, signer, aging, gone, skipped, missed, faults>>
CleanupStream ==
    /\ At("stream")
    /\ objs' = [objs EXCEPT ![op.p] = @ \ {"stream"}]
    /\ op' = [op EXCEPT !.pc = "namespace"]
    /\ UNCHANGED <<stacks, cr, seen, signer, aging, gone, skipped, missed, faults>>
DeleteNamespace ==
    /\ At("namespace")
    /\ gone' = IF "namespace" \in objs[op.p] THEN gone \cup {op.p} ELSE gone
    /\ op' = [op EXCEPT !.pc = "release"]
    /\ UNCHANGED <<stacks, cr, seen, objs, signer, aging, skipped, missed, faults>>

(* Any error of the Get, and an informer that does not show the namespace  *)
(* yet, count as "there is none".                                          *)
NamespaceUnseen ==
    /\ At("namespace") /\ "namespace" \in objs[op.p]
    /\ Fault
    /\ skipped' = skipped \cup {op.p}
    /\ op' = [op EXCEPT !.pc = "release"]
    /\ UNCHANGED <<stacks, cr, seen, objs, signer, aging, gone, missed>>

RemoveFinalizer ==
    /\ At("release")
    /\ Write([op.cr EXCEPT !.fin = FALSE, !.st = "gone"], Idle)
    /\ UNCHANGED <<seen, cluster, faults>>
-----------------------------------------------------------------------------
Steps == \/ AddFinalizer \/ Queue \/ StartProvisioning
         \/ Calls
         \/ CleanupStream \/ DeleteNamespace \/ RemoveFinalizer
Worker == \/ \E p \in Projects : Start(p)
          \/ Steps
          \/ \E allReady \in BOOLEAN : updateStatus(allReady)
          \/ CallMissed \/ setFailed \/ Abandon \/ NamespaceUnseen
Environment == \E p \in Projects :
    \/ CreateProject(p) \/ EditStack(p) \/ DeleteProject(p)
    \/ Sync(p) \/ CNPG(p) \/ NamespaceTerminates(p) \/ KeyAges(p)

Next == Worker \/ Environment
Spec == Init /\ [][Next]_vars

(* The worker keeps working, the informer, CNPG and the namespace          *)
(* controller deliver, a requeue or the resync brings every Project back,  *)
(* and components that can all be up are, time and again, when looked at.  *)
Deliver(p) == Sync(p) \/ CNPG(p) \/ NamespaceTerminates(p)
Fairness ==
    /\ WF_vars(Steps \/ updateStatus(FALSE)) /\ SF_vars(updateStatus(TRUE))
    /\ \A p \in Projects : SF_vars(Start(p)) /\ WF_vars(Deliver(p))
LiveSpec == Spec /\ Fairness

-----------------------------------------------------------------------------
TypeOK == /\ stacks \in Scenarios
          /\ cr \in [Projects -> CRs] /\ seen \in [Projects -> CRs]
          /\ objs \in [Projects -> SUBSET Objects]
          /\ signer \in [Projects -> [JwtSecrets -> 0..MaxKeys]]
          /\ aging \in [Projects -> SUBSET RoleKeys]
          /\ gone \subseteq Projects /\ skipped \subseteq Projects
          /\ missed \in [Projects -> SUBSET Objects]
          /\ op \in [pc : PCs, p : Projects, cr : CRs, todo : Seq(Writes)]
          /\ faults \in 0..MaxFaults

(* However late the informer is and whatever is read before a write, the   *)
(* controller behaves as one atomic gate: no more than MaxTotalProjects    *)
(* projects are provisioned at a time, a phase is only reported of a       *)
(* project that was let through, and nothing brings a deleted one back.    *)
Contract == INSTANCE ProjectContract
            WITH project <- [p \in Projects |->
                                [st |-> cr[p].st, phase |-> cr[p].phase]]
ImplementsContract == Contract!Spec

(* PostgREST's verification key and the two role keys belong to the key    *)
(* pair GoTrue signs with, although the four Secrets are created, and the  *)
(* role keys renewed, one by one, with failures and restarts in between.   *)
KeysConsistent ==
    \A p \in Projects : \A o \in Derived :
        signer[p][o] # 0 => signer[p][o] = signer[p]["gotrue-jwt-keys"]

(* What a stack needs.                                                     *)
Wanted(s) == {Plan(s)[i].obj : i \in {j \in DOMAIN Plan(s) :
                Plan(s)[j].do \in {"put", "mint", "derive"}}}
(* While a generation is reported Ready its objects are there, whatever    *)
(* stacks came before, which calls failed and what is under way, except    *)
(* for a role key under renewal; and nothing else is there, but for what   *)
(* disabling Postgres leaves and objects whose delete failed unnoticed.    *)
ReadyIsExact ==
    \A p \in Projects : (Live(p) /\ cr[p].phase = "Ready" /\ cr[p].obs = cr[p].gen)
        => /\ \A o \in Wanted(cr[p].stack) \ RoleKeys : HasObject(p, o)
           /\ objs[p] \subseteq Wanted(cr[p].stack) \cup missed[p]
                                \cup {"db-app", "gotrue-db-url"}

(* The projects let through the gate, and those in front of it.            *)
Admitted == {p \in Projects : Live(p) /\ cr[p].phase # ""}
Waiting == {p \in Projects : Live(p) /\ cr[p].phase = ""}

(* Failures, restarts and later edits or not, every project settles: one   *)
(* that was let through gets Ready, again after every edit, unless it is   *)
(* deleted first, and a deletion leaves neither stream nor namespace       *)
(* behind, unless it did not find the namespace.                           *)
ProjectsSettle ==
    \A p \in Projects :
        /\ []<>(p \notin Admitted \/ (cr[p].phase = "Ready" /\ cr[p].obs = cr[p].gen))
        /\ cr[p].st = "deleting" ~> cr[p].st = "gone" /\ (objs[p] = {} \/ p \in skipped)

(* "When reached, new projects will be set to Queued phase and requeued":  *)
(* a waiting project is let through, or deleted, once there is room.       *)
RoomIsUsed ==
    []<>(Waiting = {} \/ Cardinality(Admitted) >= MaxTotalProjects)
=============================================================================

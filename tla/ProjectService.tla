---------------------------- MODULE ProjectService ----------------------------
(***************************************************************************)
(* Project MS: the rows of one tenant's projects, API keys and secrets in  *)
(* the meta DB, and the requests that read and write them and, in separate *)
(* calls that may fail, the Project custom resources and the Secrets in    *)
(* the namespace of one project, Home.  Requests run concurrently with     *)
(* each other and with the controller, represented by its contract.        *)
(* Code: services/project/internal/service, the SQL of                     *)
(* services/project/internal/store/query.sql, pkg/k8s/project_crd.go and   *)
(* pkg/k8s/secrets.go.                                                     *)
(***************************************************************************)
EXTENDS Naturals, FiniteSets

CONSTANTS Ids,        \* project ids
          Home,       \* the project whose keys and secrets are modelled
          KeyNames,   \* names of its API keys
          SecretNames,          \* names of its secrets
          ToK8sSecretName,      \* the name of the Kubernetes Secret of each
          Reqs,       \* requests
          Usages,     \* what clients may call, on which ids and secrets; and
                      \* bounds: requests in flight, failing calls
          maxProjectsPerTenant,
          MaxTotalProjects,     \* the limit of the controller
          MaxSids     \* bound: rows of secrets ever inserted

ASSUME ServiceAssumption ==
    /\ IsFiniteSet(Ids) /\ Home \in Ids
    /\ IsFiniteSet(Reqs)
    /\ maxProjectsPerTenant \in Nat \ {0}
    /\ MaxSids \in Nat
    /\ \A u \in Usages : u.ids \subseteq Ids /\ u.names \subseteq SecretNames
                         /\ u.reqs \subseteq Reqs /\ u.reqs # {} /\ u.fails \in Nat

VARIABLES project,   \* the Project objects, as the contract has them
          rows,      \* table projects: the status of each id
          keys,      \* table api_keys of Home
          meta,      \* table secrets_metadata of Home: the id of each row
          k8s,       \* the Secrets of Home: the entries of each
          reqs,      \* each request: next call and what it holds
          sids, fails,
          usage,     \* what clients call in this behaviour
          astray,    \* history: ids whose Project was not created or deleted
          torn       \* history: secrets that lost their row or their Secret

tables == <<rows, keys, meta>>
history == <<sids, usage>>
vars == <<project, tables, k8s, reqs, fails, history, astray, torn>>

Contract == INSTANCE ProjectContract WITH Projects <- Ids

Statuses == {"none", "pending", "provisioning", "ready", "paused", "failed", "deleted"}
K8sNames == {ToK8sSecretName[n] : n \in SecretNames}
Active(i) == rows[i] \notin {"none", "deleted"}

PCs == {"idle", "insert", "createCR", "phase", "update", "deleteCR",
        "insertKey", "revokeKey", "createSecret", "insertMeta", "cleanup",
        "updateSecret", "deleteSecret", "deleteMeta"}
ReqRecs == [pc : PCs, id : Ids, status : Statuses, key : KeyNames \cup {""},
            name : SecretNames \cup {""}, sid : 0..MaxSids]
Done == [pc |-> "idle", id |-> Home, status |-> "none", key |-> "", name |-> "", sid |-> 0]
At(r, pc) == reqs[r].pc = pc
Finish(r) == reqs' = [reqs EXCEPT ![r] = Done]
Go(r, new) == reqs' = [reqs EXCEPT ![r] = new]
Begin(r, call) == At(r, "idle") /\ call \in usage.calls /\ r \in usage.reqs

Init == /\ project = [i \in Ids |-> Contract!NoObject]
        /\ rows = [i \in Ids |-> "none"]
        /\ keys = [k \in KeyNames |-> "none"]
        /\ meta = [n \in SecretNames |-> 0]
        /\ k8s = [s \in K8sNames |-> {}]
        /\ reqs = [r \in Reqs |-> Done]
        /\ sids = 0 /\ fails = 0
        /\ usage \in Usages
        /\ astray = {} /\ torn = {}

-----------------------------------------------------------------------------
(* The SQL statements.                                                     *)

(* SELECT COUNT of the tenant's rows that are not deleted.                 *)
(* Mutant: of those that are ready.                                        *)
CountReadyProjects == Cardinality({i \in Ids : rows[i] = "ready"})
CountActiveProjects == Cardinality({i \in Ids : Active(i)})

(* UPDATE ... WHERE status != 'deleted'.  Mutant: without the WHERE.       *)
UpdateAnyStatus(i, st) == rows' = [rows EXCEPT ![i] = st]
UpdateProjectStatus(i, st) ==
    rows' = IF Active(i) THEN [rows EXCEPT ![i] = st] ELSE rows

(* INSERT; the status is 'pending' by default.                             *)
InsertRow(i) == rows' = [rows EXCEPT ![i] = "pending"]

(* UNIQUE (project_id, name); revoked keys keep their names.            *)
InsertKey(k) == keys' = IF keys[k] = "none" THEN [keys EXCEPT ![k] = "active"] ELSE keys
(* UPDATE ... WHERE revoked_at IS NULL.                                    *)
MarkRevoked(k) == keys' = IF keys[k] = "active" THEN [keys EXCEPT ![k] = "revoked"] ELSE keys

(* INSERT, refused when the name has a row; DELETE ... WHERE id = $1.      *)
CanInsertMeta(n) == meta[n] = 0 /\ sids < MaxSids
InsertMeta(n) == meta' = [meta EXCEPT ![n] = sids + 1] /\ sids' = sids + 1
DeleteMeta(n, id) == meta' = IF meta[n] = id THEN [meta EXCEPT ![n] = 0] ELSE meta

-----------------------------------------------------------------------------
(* Projects.                                                               *)

(* The count and the INSERT are two statements.                            *)
CreateProject(r) ==
    /\ Begin(r, "CreateProject")
    /\ CountActiveProjects < maxProjectsPerTenant
    /\ Go(r, [Done EXCEPT !.pc = "insert"])
    /\ UNCHANGED <<project, tables, k8s, fails, history, astray, torn>>

InsertProject(r) ==
    /\ At(r, "insert")
    /\ \E i \in usage.ids :
         /\ rows[i] = "none"
         /\ InsertRow(i)
         /\ Go(r, [Done EXCEPT !.pc = "createCR", !.id = i])
    /\ UNCHANGED <<project, keys, meta, k8s, fails, history, astray, torn>>

(* A generated id exists already, in this or another tenant.               *)
IdCollision(r) ==
    /\ At(r, "insert")
    /\ Finish(r)
    /\ UNCHANGED <<project, tables, k8s, fails, history, astray, torn>>

(* CreateOrUpdate finds no object: the id is new.                          *)
CreateCR(r) ==
    /\ At(r, "createCR")
    /\ Contract!Create(reqs[r].id)
    /\ Finish(r)
    /\ UNCHANGED <<tables, k8s, fails, history, astray, torn>>

GetProject(r, i) ==
    /\ Begin(r, "GetProject")
    /\ rows[i] \in {"pending", "provisioning"}
    /\ Go(r, [Done EXCEPT !.pc = "phase", !.id = i, !.status = rows[i]])
    /\ UNCHANGED <<project, tables, k8s, fails, history, astray, torn>>

(* syncStatusFromCR.  Mutants: the phase as it is; for pending rows only.  *)
NewStatusUnmapped(status, phase) == IF phase = "" THEN status ELSE phase
NewStatusOfPending(status, phase) ==
    CASE phase = "Ready" /\ status = "pending" -> "ready"
      [] phase = "Failed" /\ status = "pending" -> "failed"
      [] phase = "Provisioning" /\ status = "pending" -> "provisioning"
      [] OTHER -> status
NewStatus(status, phase) ==
    CASE phase = "Ready" -> "ready"
      [] phase = "Failed" -> "failed"
      [] phase = "Provisioning" -> "provisioning"
      [] OTHER -> status

GetPhase(r) ==
    LET q == reqs[r]  new == NewStatus(q.status, project[q.id].phase)
    IN  /\ At(r, "phase")
        /\ IF new = q.status \/ project[q.id].st = "gone" THEN Finish(r)
           ELSE Go(r, [q EXCEPT !.pc = "update", !.status = new])
        /\ UNCHANGED <<project, tables, k8s, fails, history, astray, torn>>

(* The status is read, checked, and then written unconditionally.          *)
PauseProject(r, i) ==
    /\ Begin(r, "PauseProject")
    /\ rows[i] \in {"pending", "provisioning", "ready"}
    /\ Go(r, [Done EXCEPT !.pc = "update", !.id = i, !.status = "paused"])
    /\ UNCHANGED <<project, tables, k8s, fails, history, astray, torn>>
ResumeProject(r, i) ==
    /\ Begin(r, "ResumeProject")
    /\ rows[i] = "paused"
    /\ Go(r, [Done EXCEPT !.pc = "update", !.id = i, !.status = "ready"])
    /\ UNCHANGED <<project, tables, k8s, fails, history, astray, torn>>

WriteStatus(r) ==
    /\ At(r, "update")
    /\ UpdateProjectStatus(reqs[r].id, reqs[r].status)
    /\ Finish(r)
    /\ UNCHANGED <<project, keys, meta, k8s, fails, history, astray, torn>>

DeleteProject(r, i) ==
    /\ Begin(r, "DeleteProject")
    /\ Active(i)
    /\ UpdateProjectStatus(i, "deleted")
    /\ Go(r, [Done EXCEPT !.pc = "deleteCR", !.id = i])
    /\ UNCHANGED <<project, keys, meta, k8s, fails, history, astray, torn>>

(* Deleting an absent object is a success, also when it is about to be     *)
(* created by the request that inserted the row.                           *)
DeleteCR(r) ==
    LET i == reqs[r].id IN
    /\ At(r, "deleteCR")
    /\ IF Contract!Live(i) THEN Contract!Delete(i) ELSE UNCHANGED project
    /\ astray' = IF project[i].st = "none" THEN astray \cup {i} ELSE astray
    /\ Finish(r)
    /\ UNCHANGED <<tables, k8s, fails, history, torn>>

-----------------------------------------------------------------------------
(* API keys of Home: the project is looked up, then the row is written.    *)

CreateApiKey(r, k) ==
    /\ Begin(r, "CreateApiKey") /\ Active(Home)
    /\ Go(r, [Done EXCEPT !.pc = "insertKey", !.key = k])
    /\ UNCHANGED <<project, tables, k8s, fails, history, astray, torn>>
RevokeApiKey(r, k) ==
    /\ Begin(r, "RevokeApiKey") /\ Active(Home) /\ keys[k] # "none"
    /\ Go(r, [Done EXCEPT !.pc = "revokeKey", !.key = k])
    /\ UNCHANGED <<project, tables, k8s, fails, history, astray, torn>>
WriteKey(r) ==
    /\ \/ At(r, "insertKey") /\ InsertKey(reqs[r].key)
       \/ At(r, "revokeKey") /\ MarkRevoked(reqs[r].key)
    /\ Finish(r)
    /\ UNCHANGED <<project, rows, meta, k8s, fails, history, astray, torn>>

-----------------------------------------------------------------------------
(* Secrets of Home.                                                        *)

(* The namespace is there from provisioning to deletion.                   *)
HasNamespace == Contract!Live(Home) /\ project[Home].phase # ""
SecretOf(n) == ToK8sSecretName[n]
(* A request has created the Secret, and its row is not there yet.         *)
Awaited(n) == \E r \in Reqs : At(r, "insertMeta") /\ reqs[r].name = n

(* The Secret first, ...                                                   *)
CreateSecret(r, n) ==
    /\ Begin(r, "CreateSecret") /\ Active(Home)
    /\ Go(r, [Done EXCEPT !.pc = "createSecret", !.name = n])
    /\ UNCHANGED <<project, tables, k8s, fails, history, astray, torn>>
CreateK8sSecret(r) ==
    LET n == reqs[r].name IN
    /\ At(r, "createSecret")
    /\ IF HasNamespace /\ k8s[SecretOf(n)] = {}
       THEN /\ k8s' = [k8s EXCEPT ![SecretOf(n)] = {n}]
            /\ Go(r, [reqs[r] EXCEPT !.pc = "insertMeta"])
       ELSE Finish(r) /\ UNCHANGED k8s
    /\ UNCHANGED <<project, tables, fails, history, astray, torn>>

(* ... then the row, and if that fails the Secret is deleted again.        *)
CreateSecretMetadata(r) ==
    LET n == reqs[r].name IN
    /\ At(r, "insertMeta")
    /\ IF CanInsertMeta(n)
       THEN InsertMeta(n) /\ Finish(r)
       ELSE /\ Go(r, [reqs[r] EXCEPT !.pc = "cleanup", !.sid = meta[n]])
            /\ UNCHANGED <<meta, sids>>
    /\ UNCHANGED <<project, rows, keys, k8s, fails, usage, astray, torn>>
CleanupSecret(r) ==
    LET q == reqs[r] IN
    /\ At(r, "cleanup")
    /\ k8s' = [k8s EXCEPT ![SecretOf(q.name)] = {}]
    /\ torn' = torn \cup (k8s[SecretOf(q.name)] \ {q.name})
                    \cup {n \in {q.name} : meta[n] # q.sid \/ Awaited(n)}
    /\ Finish(r)
    /\ UNCHANGED <<project, tables, fails, history, astray>>

(* The row's id and name are read, then the Secret is written by name and  *)
(* the row by id: by then the name may be that of a successor, or of a     *)
(* secret whose name makes the same Secret name.                           *)
UpdateSecretValue(r, n) ==
    /\ Begin(r, "UpdateSecretValue") /\ Active(Home) /\ meta[n] # 0
    /\ Go(r, [Done EXCEPT !.pc = "updateSecret", !.name = n, !.sid = meta[n]])
    /\ UNCHANGED <<project, tables, k8s, fails, history, astray, torn>>
UpdateK8sSecret(r) ==
    LET n == reqs[r].name IN
    /\ At(r, "updateSecret")
    /\ IF k8s[SecretOf(n)] = {} THEN UNCHANGED <<k8s, torn>>
       ELSE /\ k8s' = [k8s EXCEPT ![SecretOf(n)] = @ \cup {n}]
            /\ torn' = torn \cup ({n} \ k8s[SecretOf(n)])
    /\ Finish(r)
    /\ UNCHANGED <<project, tables, fails, history, astray>>

DeleteSecret(r, n) ==
    /\ Begin(r, "DeleteSecret") /\ Active(Home) /\ meta[n] # 0
    /\ Go(r, [Done EXCEPT !.pc = "deleteSecret", !.name = n, !.sid = meta[n]])
    /\ UNCHANGED <<project, tables, k8s, fails, history, astray, torn>>
DeleteK8sSecret(r) ==
    LET q == reqs[r] IN
    /\ At(r, "deleteSecret")
    /\ k8s' = [k8s EXCEPT ![SecretOf(q.name)] = {}]
    /\ torn' = torn \cup {n \in k8s[SecretOf(q.name)] :
                            n # q.name \/ meta[n] # q.sid \/ Awaited(n)}
    /\ Go(r, [q EXCEPT !.pc = "deleteMeta"])
    /\ UNCHANGED <<project, tables, fails, history, astray>>
DeleteSecretMetadata(r) ==
    LET q == reqs[r] IN
    /\ At(r, "deleteMeta")
    /\ DeleteMeta(q.name, q.sid)
    /\ Finish(r)
    /\ UNCHANGED <<project, rows, keys, k8s, fails, history, astray, torn>>

-----------------------------------------------------------------------------
(* A call fails, is cut off by the client's cancellation, or the service   *)
(* restarts: what is left of the request does not happen.                  *)
Fail(r) ==
    /\ ~At(r, "idle")
    /\ fails < usage.fails
    /\ fails' = fails + 1
    /\ astray' = IF At(r, "createCR") \/ At(r, "deleteCR")
                 THEN astray \cup {reqs[r].id} ELSE astray
    /\ torn' = IF At(r, "insertMeta") \/ At(r, "cleanup") \/ At(r, "deleteMeta")
               THEN torn \cup {reqs[r].name} ELSE torn
    /\ Finish(r)
    /\ UNCHANGED <<project, tables, k8s, history>>

(* A call that writes is done, but reported as failed: a Secret without    *)
(* row stays behind, or the Secret of the row just inserted is removed.    *)
LoseAnswer(r) ==
    LET n == reqs[r].name IN
    /\ fails < usage.fails
    /\ fails' = fails + 1
    /\ \/ /\ At(r, "createSecret") /\ HasNamespace /\ k8s[SecretOf(n)] = {}
          /\ k8s' = [k8s EXCEPT ![SecretOf(n)] = {n}]
          /\ Finish(r)
          /\ UNCHANGED <<meta, sids>>
       \/ /\ At(r, "insertMeta") /\ CanInsertMeta(n)
          /\ InsertMeta(n)
          /\ Go(r, [reqs[r] EXCEPT !.pc = "cleanup"])
          /\ UNCHANGED k8s
    /\ torn' = torn \cup {n}
    /\ UNCHANGED <<project, rows, keys, usage, astray>>

Step(r) == \/ InsertProject(r) \/ IdCollision(r) \/ CreateCR(r)
           \/ GetPhase(r) \/ WriteStatus(r) \/ DeleteCR(r)
           \/ WriteKey(r)
           \/ CreateK8sSecret(r) \/ CreateSecretMetadata(r) \/ CleanupSecret(r)
           \/ UpdateK8sSecret(r) \/ DeleteK8sSecret(r) \/ DeleteSecretMetadata(r)
Request(r) ==
    \/ CreateProject(r)
    \/ \E i \in Ids : GetProject(r, i) \/ PauseProject(r, i)
                      \/ ResumeProject(r, i) \/ DeleteProject(r, i)
    \/ \E k \in KeyNames : CreateApiKey(r, k) \/ RevokeApiKey(r, k)
    \/ \E n \in usage.names : CreateSecret(r, n) \/ UpdateSecretValue(r, n)
                              \/ DeleteSecret(r, n)

Controller ==
    /\ Contract!Controller
    /\ UNCHANGED <<tables, k8s, reqs, fails, history, astray, torn>>
(* The Secrets go with the namespace of a deleted project.                 *)
NamespaceTerminates ==
    /\ project[Home].st \in {"deleting", "gone"}
    /\ k8s # [s \in K8sNames |-> {}]
    /\ k8s' = [s \in K8sNames |-> {}]
    /\ UNCHANGED <<project, tables, reqs, fails, history, astray, torn>>

Next == \/ Controller \/ NamespaceTerminates
        \/ \E r \in Reqs : Request(r) \/ Step(r) \/ Fail(r) \/ LoseAnswer(r)
Spec == Init /\ [][Next]_vars

(* Requests in flight are served, and the dashboard keeps asking for the   *)
(* project it shows.                                                       *)
FairSpec == /\ Spec
            /\ \A r \in Reqs : WF_vars(Step(r))
            /\ \A i \in Ids : SF_vars(\E r \in Reqs : GetProject(r, i))

-----------------------------------------------------------------------------
TypeOK == /\ project \in [Ids -> Contract!Objects]
          /\ rows \in [Ids -> Statuses]
          /\ keys \in [KeyNames -> {"none", "active", "revoked"}]
          /\ meta \in [SecretNames -> 0..MaxSids]
          /\ k8s \in [K8sNames -> SUBSET SecretNames]
          /\ reqs \in [Reqs -> ReqRecs]
          /\ sids \in 0..MaxSids /\ fails \in 0..usage.fails
          /\ usage \in Usages
          /\ astray \subseteq Ids /\ torn \subseteq SecretNames

(* Counting and inserting are two statements: a tenant can exceed the      *)
(* limit on projects, but only by the requests that are about to insert.   *)
OverrunBounded ==
    Cardinality({i \in Ids : Active(i)}) + Cardinality({r \in Reqs : At(r, "insert")})
        <= maxProjectsPerTenant + Cardinality(usage.reqs) - 1

Idle == \A r \in Reqs : At(r, "idle")
ProjectsAgree ==
    \A i \in Ids \ astray :
        /\ Active(i) => Contract!Live(i)
        /\ rows[i] = "deleted" => ~Contract!Live(i)
SecretsAgree ==
    (Active(Home) /\ Contract!Live(Home)) =>
        \A n \in SecretNames \ torn : meta[n] # 0 <=> n \in k8s[SecretOf(n)]
(* With no request in flight the two stores agree, whatever ran before:    *)
(* a project has an object unless it is deleted, and a secret a row and a  *)
(* Secret or neither.  The exceptions are those the code cannot avoid      *)
(* without a transaction: a second call that did not happen, a project     *)
(* deleted before its creation was over, and a secret touched by a stale   *)
(* request: one deleted with its predecessor, one whose Secret went before *)
(* its row was written, or whose entry an update brought back into a       *)
(* Secret of the same name.                                                *)
StoresAgree == Idle => ProjectsAgree /\ SecretsAgree

(* Once the controller is done with a project that is polled, its row does *)
(* not stay pending or provisioning, although syncs may write late what    *)
(* they read early.                                                        *)
NotLeftProvisioning ==
    \A i \in Ids :
        ("GetProject" \in usage.calls
         /\ <>[](project[i].phase = "Ready" /\ project[i].st = "live"))
            => <>[](rows[i] \notin {"pending", "provisioning"})

(* "syncStatusFromCR ... has reached a terminal state (Ready / Failed)":   *)
(* Failed is not terminal for the controller, which retries, but the row   *)
(* is never synced again.  False of the code.                              *)
StatusConverges ==
    \A i \in Ids :
        ("GetProject" \in usage.calls
         /\ <>[](project[i].phase = "Ready" /\ project[i].st = "live"))
            => <>[](rows[i] # "failed")

(* A paused project stays paused until it is resumed or deleted.  False of *)
(* the code: a sync that read the row before the pause overwrites it.      *)
PausedUntilResumed ==
    [][\A i \in Ids : (rows[i] = "paused" /\ rows'[i] # "paused") =>
          rows'[i] = "deleted" \/ \E r \in Reqs : reqs[r].status = "ready"]_vars
=============================================================================

# TLA+ verification of Etalbaas

Etalbaas is a multi-tenant backend-as-a-service on Kubernetes. A tenant's
project is a namespace with a PostgreSQL cluster, an auth server, a REST server,
a change-data-capture (CDC) pod and a NATS JetStream stream; a tenant's
*functions* are containers that the platform builds from source with Kaniko Jobs
and runs when an HTTP request arrives, a row changes or an object is stored. The control plane is a
set of Go microservices (MS) over one meta database, and an operator with two
controllers, Project and Function. The services tell the operator what they
want through custom resources.

These modules model the parts of that program whose correctness rests on the
order in which several actors act: both controllers, Function MS, Project MS, the
CDC pod, the delivery of events, Storage MS with its connection pools, GPU
invocations, and the paginated lists of all services. TLC model-checks them on
small instances; TLAPS proves their safety properties for all values of the constants.

    tlc -workers 2 -config FunctionOperator_Updates.cfg FunctionOperator_MC.tla
    tlapm FunctionOperatorProofs.tla

## 1. Inventory of the system

| Component | State it keeps | Operations | Hard behaviour | What makes it correct | Model |
|---|---|---|---|---|---|
| Function custom resource (`operator/api/v1alpha1/function_types.go`, `pkg/k8s/function_crd.go`) | spec, generation, finalizer, status (phase, build, image, observedGeneration) | CreateOrUpdate, Delete, status updates | optimistic concurrency; an Update replaces metadata and drops the finalizer | only the owner's transitions are ever observable | FunctionCR, FunctionContract |
| Function controller (`operator/internal/controller/function_controller.go`, `internal/build`) | none of its own; reads informer caches, writes Jobs, ConfigMaps, Deployments, routes, consumers, status | Reconcile and the steps it calls | stale caches, conflicts between two writes of one reconcile, restarts, builds that end at any time | Ready only for what is deployed; image built from the spec; every generation settles; deletion completes | FunctionOperator, FunctionOperatorProgress |
| Workload objects of a function (same file, `internal/resources`) | Deployment, Service, HTTPRoute, consumer, HPA / ScaledObject / HTTPScaledObject, GPU route, grant and policy | create-or-update, best-effort deletes of stale objects | a sequence of kind, trigger and provider changes, each reconcile interrupted anywhere | while the condition Ready is True of the current generation, everything the spec needs exists and nothing else that is not accounted for (the phase alone does not say so, section 4) | FunctionWorkload |
| Function MS (`services/function`) | row of `functions` | Create, Get, List, Update, Delete; status sync and self-healing on reads | two stores without a transaction, concurrent requests | deleted rows stay deleted; rows converge to the object's status; missing objects are recreated | FunctionService; lists: Listing |
| CDC pod (`services/cdc-pod`) | replication slot, in-memory flushed LSN | create slot, stream, publish, report position, shut down | restart between publish and report; lost acknowledgements; interleaved transactions; deduplication window | every committed row published, once, in commit order | CDCReplicator |
| NATS admin and sidecar (`operator/internal/natsadmin`, `services/nats-sidecar`) | stream and consumer configuration; messages in flight | ensure/delete stream and consumer; fetch, invoke with retries, Ack or Nak | BackOff against slow invocations, MaxDeliver, lost acknowledgements, a consumer that changes under way | an acknowledged event was handled; calls are bounded; no event waits for ever | EventDelivery, EventContract |
| Project controller (`project_controller.go`, `internal/resources`) | phases, finalizer, Secrets, child objects of a namespace | Reconcile in some forty ordered calls, the limit on projects, deletion | key material split over several Secrets; a limit counted in a cache; errors that are dropped | keys agree; Ready is exact; the limit holds; provisioning and deletion end | ProjectOperator, ProjectContract |
| Project MS (`services/project`) | rows of `projects` and `api_keys`, Project custom resource | Create, Get, List, Update, Delete, Pause, Resume, API keys, status sync | two stores, count then insert, a sync against pause, resume and delete | rows and objects agree; the limit is exceeded by no more than the requests in flight; polled rows move on | ProjectService |
| Secrets (`secret_service.go`, `pkg/k8s/secrets.go`) | Kubernetes Secret and row | Create, Update, Delete, List | two stores, best-effort cleanup, two names with one Secret | a secret has a row and a Secret, or neither | ProjectService |
| GPU invocation and dispatcher (`services/function/internal/gpuinvoke`, `operator/cmd/dispatcher`, `operator/internal/provider/gpu`) | rate limiter, dispatcher Job, result ConfigMap, the provider's job | admit, create Job, watch, answer; submit, poll, cancel, write the result | HTTP timeout against a running Job, restarts, colliding names | one submission per invocation, true answers, the rate kept | GPUInvoke |
| Storage MS (`services/storage`) | buckets and objects in the tenant database, bytes in the object store, events in the stream | Upload, Download, Delete, presigned URLs and their completion; bucket operations | three systems without a transaction, cascade of a bucket deletion | bytes, row and event agree | ObjectStorage; lists: Listing |
| Tenant connection pools (`services/storage/internal/pool/manager.go`) | map of pools, last use | GetPool, WithRLS, eviction, Close | shared creation, closing under a mutex while connections are in use | no pool is lost; no request waits for ever | TenantPools |
| Paginated lists (handlers, services and SQL of all services) | none of their own | list with page size and cursor | rows inserted and deleted between pages | no row twice, none skipped | Listing, ListingWalk |
| Event MS (`services/event`) | none of its own | ListEventHistory; RetryEvent is not implemented | – | a page has all its rows | Listing |
| Tenant-user service | none of its own | ListTenants, GetMe, UpdateProfile | – | – | Listing (ListTenants) |
| Resource builders (`operator/internal/resources`) | none | construct manifests | – | when an object exists, and what its pods refer to | inside ProjectOperator and FunctionWorkload |
| Auth, server, middleware, dashboard, manifests, generated code | none | plumbing, user interface, configuration | none | – | not modelled |

How the parts interact:

    dashboard -> Function MS -> meta DB row
                      |   \-> Function CR <-> Function controller -> Jobs, Deployment,
                      \<- status (polling)                           route, consumer
    dashboard -> Project MS  -> rows, Secrets, Project CR <-> Project controller
                                    -> namespace, database, keys, stream, CDC pod, API
    client -> PostgreSQL -> WAL -> CDC pod ---\
    client -> Storage MS -> database, bytes ---+-> JetStream stream -> sidecar -> function
    client -> Function MS -> dispatcher Job -> GPU provider

A service and its controller share the custom resource and nothing else, which
is why FunctionContract and ProjectContract are the interfaces between their models. The CDC pod,
Storage MS and the consumer share the JetStream stream.

`PROJECT.json` lists every hazard found in the code with the properties that
address it. Where the code does not keep a promise, the hazard names the definition that
states it and says that it is false of the code.

## 2. Modules

| Module | What it is |
|---|---|
| FunctionCR | the Function resource: fields, API writes, the status values the controller writes. Extended by the next four. |
| FunctionContract | abstract specification: the transitions of the resource a controller may make |
| FunctionOperator | the controller in detail, with caches, Jobs, registry, Deployment; refines FunctionContract |
| FunctionOperatorProgress | FunctionOperator with fairness, for liveness |
| FunctionService | Function MS; its environment is `Contract!Controller`, not the detailed operator |
| FunctionWorkload | the status and the set of cluster objects under changes of kind, trigger and GPU provider |
| CDCReplicator | write-ahead log, replication slot, CDC pod, JetStream stream with its deduplication window |
| EventContract | abstract specification: what may become of an event, and how often the function is called for it |
| EventDelivery | stream, durable consumer, sidecars; refines EventContract |
| ProjectContract | abstract specification: one atomic gate in front of provisioning, phases, deletion |
| ProjectOperator | the Project controller call by call; refines ProjectContract |
| ProjectService | Project MS with API keys and secrets; its environment is `Contract!Controller` of ProjectContract |
| TenantPools | the pool manager of Storage MS: the pool of one project and its callers |
| ObjectStorage | extends TenantPools: the requests on one object and its bucket, in transactions of those pools |
| GPUInvoke | rate limiter, handlers, dispatchers, provider |
| Listing | the list operations of all services, as operators over rows in an order |
| ListingWalk | a client that follows the cursors of such a list while rows come and go |
| `*_MC` | instances for TLC |
| FunctionOperatorProofs, FunctionServiceProofs, CDCReplicatorProofs, ProjectOperatorProofs, EventDeliveryProofs, ObjectStorageProofs, ProjectServiceProofs | theorems about the module of that name; FunctionServiceProofs also those about Listing and ListingWalk |
| RuntimeProofs | theorems about GPUInvoke and FunctionWorkload, which have no name in common (hence `WorkloadSpec`, `WorkloadTypeOK`, and `WalkSpec` in ListingWalk) |

Definitions named `...Blind`, `...Once` and the like, under a comment with
the word "mutant", are faulty variants of the definition they precede.
They are in no specification; they exist so that each property can be shown to
fail when the code has the fault.

### FunctionCR and FunctionContract

`cr` is the object in the API server (or NoCR); `uids` counts creations. Specs
are model values: two specs are different or equal, which is all the controller
asks (the generation grows exactly when the spec changes). An Update by a client
(`Replaced`) clears the finalizer, as `CreateOrUpdate` does by replacing the whole
metadata. Deleting an object with a finalizer only marks it; without one it is
gone. FunctionContract adds one action per status write, with the weakest guard
under which the controller performs it.

### FunctionOperator

One function with an inline source, an HTTP and a database trigger, of kind
light-deployment. `op` is the single worker (`MaxConcurrentReconciles` is left
at 1 and leader election keeps a single operator): the next API call and the copy
`fn` of the object it read from the informer (`seen`). Each action is one API call with the pure code
around it. Status writes compare the object with the copy read, which
stands for the resourceVersion. `jobsSeen` is the Job informer. `cm` is the spec in the
build ConfigMaps, which carry no generation in their name; a build pod mounts
them when it starts (`PodStart`), again on a retry.

`Abandon` ends a reconcile anywhere; it stands for API errors, conflicts of
other writes, a restart of the operator, a missing project and
the concurrent-build limit. A namespace that is not the project's is one of the reasons for which a
spec is refused (`RejectSpec`). The two ConfigMaps of a build are written in one
step, and each Job the informer lists is deleted in one step with the others.

### FunctionWorkload

For every kind, event trigger and GPU provider: which objects exist (`objs`), and the `status`:
phase, observed generation, whether there is an image, and the generation of which the condition Ready is True.
One action per `reconcile...` method, named after it; a reconcile goes either through the build or through the
workload, and ends with a status write that is refused if the object changed (`WriteStatus`).
The build is reduced to what it may write: Building, a failure, or an image with the observed generation, which
leaves phase *and* condition alone. If that is written while the phase is still Ready, phase and
observed generation together speak of a generation whose objects do not exist yet. The condition is written only
by `updateFunctionStatus` and `setFunctionFailed` and carries its generation, and the two
invariants about objects are stated of it. Event triggers may name no subject (`silent`). `missed` is a history of
stale objects whose best-effort delete failed: the code drops that error.

### FunctionService

One row, a set of requests in flight, and the object. Each SQL statement and
each Kubernetes call is an action; a request carries what it read before. `Fail`
is a Kubernetes call that fails and is logged, or a restart of the service.

### CDCReplicator

The log is a sequence of entries with a position, a message length and a
transaction. Transactions interleave in the log and are sent by commit, without
those whose commit record precedes the start position, as PostgreSQL's logical
decoding does. `flushedLSN` is the pod's variable: position plus *message*
length, maximised (`Advance`, replicator.go:205-215). Message lengths are
unrelated to record sizes; RecordSize, MsgLens, BeginLen and CommitLen are
constants to say so. `MultiRow` lets several rows share a record (COPY),
`Encodable` lets a row hold a float JSON has no text for. Failures: a publish that
fails before or after it was stored, shutdown with or without its last status,
crash, expiry of the deduplication window. Relation, Type, Origin and Truncate
messages publish nothing and are left out, as are EnsurePublication (idempotent,
before the slot exists) and the retry while the old connection still holds the
slot. Not covered: loss of the slot (failover), loss of the stream, several pods.

### EventDelivery and EventContract

`msg` is the server's view of each event for the one durable consumer: to be
delivered, waiting for its acknowledgement, to be redelivered, settled.
`Deliver` is an answered pull; one whose puller is gone is `DeliverToNobody`.
Each sidecar holds one message and calls the function up to maxRetries + 1 times;
an answer is a success, another status or none within the timeout. `AckWait` may
happen whatever the sidecar is doing: the consumer has a BackOff that starts at 5
seconds, and a call may last 30. `EnsureConsumer` and `DeleteConsumer` are calls
of the Function controller, with their effect on what is in flight; a new consumer
passes over what is stored (DeliverNew), and triggers that name no subject leave
the old one. In the contract an event is *due* until it is done, given up, or
its consumer is removed.

### ProjectOperator and ProjectContract

`Plan(s)` is the list of calls a reconcile of stack `s` makes, in the code's
order, each `reconcile...` and `Desired...` function an operator of its own;
`Calls` performs the next one that changes something. A call creates an object, deletes one
strictly or with its errors dropped (`drop`, deleteIfExists), mints the key pair, derives a key from it,
or deletes a role key near its expiry. `signer` is the key pair behind each of
the four JWT Secrets. `stack` is the four switches of `.spec.stack` the builders look at.
CloudNativePG publishes the `db-app` Secret some of the
deployments refer to. Status writes compare the stored object with the
worker's copy, and the schema's enum of phases is enforced. Not modelled: the
contents of objects, hence updates of an existing one; owner references are not set by
the code, so nothing wakes the worker but the resync, a requeue or an event
of the Project itself (`Start`).

### ProjectService

Rows of the tenant's projects, the API keys and secrets of one of them (`Home`), each SQL
statement and each Kubernetes call an action. `Usages` fixes what clients call in one behaviour, how many
requests are in flight and how many calls fail, so that the instance stays small: projects against the limit; the life of one project; its
API keys; its secrets, two of which have names that
ToK8sSecretName maps to one; creations and deletions of one secret. Two history variables hold the exceptions: `astray`,
projects whose Kubernetes call did not happen or came too early, and `torn`,
secrets that lost one of their halves to a failed second call or to a stale request: one that deletes or
cleans up a Secret that is no longer that of the row it read, or whose row is still to be written (`Awaited`).

### TenantPools and ObjectStorage

`TenantPools` is GetPool with its mutex and singleflight, WithRLS as the
acquisition and return of a connection, eviction and Close, both of which hold the mutex while
the pool waits for its connections. In ObjectStorage a caller is a request; a
transaction of the code is a visit to WithRLS, with the statements in one action; between
transactions it calls the object store, which may fail before or after it took
effect. Contents are the number of the request that wrote them. `acked` is what the last write
that met no other writer was answered with.

### GPUInvoke

The handler's steps on one side (`inv`), the Job with its single pod on the other (`job`),
the provider's job (`work`) and the result ConfigMap between them (`cm`), found by
the short id, which two invocations may share. A clock and the project's window
model the limiter, which counts an invocation before anything else about it is looked at. `Restart` is a restart of Function MS, which forgets windows
and open requests but not Jobs.

### Listing and ListingWalk

A table is a set of rows and `Newest`-style orders; a request has a page size and optional
cursor and filters (sets with at most one member). Each list has the operators of its layers, named
after them: the SQL query, the service and the handler, with the clamp of the page size, the row fetched in
excess to learn whether there is a next page, and the cursor made of the last row given.
ListingWalk is a client that follows the cursors; between two
pages other clients may insert and delete any rows.

## 3. Runs

| Run | Checks | States |
|---|---|---|
| FunctionOperator_Updates | TypeOK, OwnImageMatchesSpec, ImplementsContract, ReadyOnlyWhenServing | 222,000 |
| FunctionOperator_Progress | Settles, DeletionCompletes (liveness) | 406,000 |
| FunctionService_Polling | TypeOK, ReadyRowHasImage, DeletedForGood, SelfHeals, StatusConverges | 85,000 |
| FunctionWorkload_Changes | WorkloadTypeOK, ReadyIsComplete, LeftoversAccounted, InClusterKeepsServing; deadlock | 1,691,000 |
| CDCReplicator_Restarts | TypeOK, LossAccounted, NothingOvertaken, StoredOnce, ReceivedIsStored, Published | 106,000 |
| EventDelivery_Sidecars | TypeOK, ImplementsContract, EverySettled | 453,000 |
| ProjectOperator_Provisioning | TypeOK, KeysConsistent, ReadyIsExact, ImplementsContract, ProjectsSettle | 174,000 |
| ProjectService_Stores | TypeOK, OverrunBounded, StoresAgree, NotLeftProvisioning | 167,000 |
| ObjectStorage_Requests | TypeOK, NoPoolLost, ViewsAgree, EveryRequestAnswered | 262,000 |
| GPUInvoke_Dispatches | TypeOK, BilledOnceAnsweredTruly, RateKept | 977,000 |
| FunctionService_Zombie | NoZombie is violated | counterexample |
| ProjectOperator_Room | RoomIsUsed is violated | counterexample |

What the runs of the later modules say:

- **FunctionWorkload_Changes.** `ReadyIsComplete` and `LeftoversAccounted`: the condition Ready, while it is True of the
  current generation, means that the objects are those of its spec, through changes, adopted builds and interrupted
  reconciles, the exceptions being named. `InClusterKeepsServing`: reconciling again takes nothing that is in use.
- **EventDelivery_Sidecars.** Through `ImplementsContract`: an event is acknowledged only after a
  call that succeeded, never comes back afterwards, and the function is called at most
  MaxDeliver * (maxRetries + 1) times for it, whichever sidecars hold it at once.
  `EverySettled`: none is outstanding for ever, also behind one that always fails.
- **ProjectOperator_Provisioning.** Through `ImplementsContract`: although the limit is
  counted in an informer, no more than MaxTotalProjects are let through at a time. (The single
  worker makes the count safe: a project it let through was in the informer before, and *every* other
  project that is not being deleted counts, waiting or not.) `KeysConsistent`: the Secrets derived from the key pair are
  those of the pair GoTrue signs with. `ReadyIsExact`: Ready at the current
  generation means that what the stack needs is there, and nothing else but what is accounted for.
  `ProjectsSettle`: every admitted project gets Ready, every deletion ends and leaves neither stream nor namespace.
- **ProjectService_Stores.** `OverrunBounded`: the limit can be exceeded, by the requests that
  counted before another inserted. `StoresAgree`: without a request in flight a project's row
  and object, a secret's row and Secret, agree, the exceptions being listed. `NotLeftProvisioning`: a polled
  project that stays Ready leaves pending and provisioning.
- **ObjectStorage_Requests.** `ViewsAgree`: bytes, row and event of an object after
  a write that met no other, whatever was cut half-way before. `NoPoolLost` and
  `EveryRequestAnswered`: creation, eviction and Close of pools under load. That every request is answered rests on each one
  giving its connection back before it waits for another, and on the mutex being kept only while those that hold one proceed.
- **GPUInvoke_Dispatches.** `BilledOnceAnsweredTruly`: submitted at most once; success means
  completed, with its own output or, when short ids collide, another's. `RateKept`: less than twice
  the limit in any stretch of an interval; at limit 2 stretches of three occur in the run, so the bound is sharp.

### Bounds

- FunctionOperator_Updates: MaxGen 2 and MaxUid 1. One update is enough for every
  race between two generations (old Job against new ConfigMap, old status against
  new spec, rolling update); the specs are two good ones, one refused by validation and one
  KanikoBuildJob rejects. The two good specs are interchangeable (SYMMETRY; the
  run has no liveness property). No object is recreated in it.
- FunctionOperator_Progress: the same, without bad specs. Symmetry being unsound for
  liveness, the first generation is fixed to the spec `First` instead.
- FunctionService_Polling: two requests, so that any pair of operations races;
  MaxFails 1; MaxUid 2, so that the object can be recreated once. There is one
  spec value and one generation: an update then changes no spec, but reads, merges, writes the row and
  looks up the object as any update does, and its interference with deletes
  and syncs is covered. At these bounds a further write of
  the object counts as a failed one. Changes of the spec itself are in the
  proved invariants, which hold for any number of specs, generations and requests.
- FunctionWorkload_Changes: all 18 specs and MaxGen 3, that is two changes,
  so that leftovers of the first may meet the second.
- CDCReplicator_Restarts: two transactions and four entries give two commits
  of one row each, interleaved or not, one transaction of three
  rows or a multi-row record, and rollbacks; message lengths 1 and 5 around a record size of 2 are
  one that ends inside its record and one that reaches over the next two; two
  faults allow a restart of a restart. An ID leaves the window at most once, which
  bounds the stream; an open transaction keeps room for its end.
- EventDelivery_Sidecars: two events, one behind the other; two sidecars, so that both may hold one event; or one
  sidecar and three changes of the consumer over two subjects, enough to create, change and delete it, or to create it twice.
  maxRetries 1 (the code's default is 2) and MaxDeliver 2 (3 in the code) are the least with a retry and a redelivery. `Stop` is unbounded.
- ProjectOperator_Provisioning: one project that goes between the largest stack and a cache only,
  so that everything is created and deleted again (MaxGen 2), with one
  failing call, restart or ageing key (MaxFaults 1) and two key pairs, so that Secrets can disagree (MaxKeys 2);
  or two projects that need next to nothing, and room for one, so that every order at the gate is met.
- ProjectService_Stores: two requests and one failure; three ids against a limit of one, so that
  the limit can be exceeded by more than is allowed; two secret names that share a Secret. Three requests without failure
  on one secret, since two deletions and a creation between them is the shortest way to a row without a Secret; MaxSids 2, a row and its successor.
- ObjectStorage_Requests: three requests are a write, one that overtakes it and one after both. In usage `Objects`
  they write and delete the object and its bucket, in `Limits` they upload, through URLs too, while the bucket's limits
  change; `Cold` starts without a pool, with eviction and Close, and requests that only read. A pool has one connection, so that requests wait for it; MaxPools 2, one after another.
- GPUInvoke_Dispatches: three invocations of which two or three share a short id; two with a restart;
  five with the limiter on a function that is not built, over three intervals.
  Two to a window is the least limit at which two windows meet in one stretch (the first invocation opens a window, the
  second comes late in it, the next window admits two right after its end); the fifth opens a third window or is refused. maxConsecutiveErrors 2 stands for 10.

CHECK_DEADLOCK FALSE: at MaxUid a deleted function is the end of the model of
FunctionOperator and, with no requests left to make, of FunctionService; in
CDCReplicator the log is full; projects are deleted once, storage requests and
invocations are numbered, events are bounded. FunctionWorkload has no such end and is
checked for deadlock.

### Fairness

- FunctionOperator_Progress: controller-runtime's workqueue retries a key until it
  is done and informers re-deliver it, hence weak fairness of the worker and of each
  informer; pods are scheduled, builds and replicas come up. A build *may* fail
  at any time. API calls that fail for ever, clients that update for ever and replicas that die
  for ever refute any promise, so `calm` marks the time after which they stop;
  `Subside` is fair, which assumes that this time comes. A reconcile that
  requeues itself for ever is not excused by it.
- FunctionService_Polling: weak fairness of the steps of each request; strong fairness of
  `GetFunction`, for the dashboard polls functions and a request slot may be busy in between.
  The controller has no fairness: StatusConverges supposes that the status is stable.
- CDCReplicator: the Deployment restarts the pod; the server keeps sending; the
  status timer fires. Clients, faults (bounded) and the window have none.
- EventDelivery: weak fairness of the server's timers and of a sidecar that runs, which the kubelet restarts;
  strong fairness of the delivery of an event, since sidecars may be busy or stopped when it is due. No assumption on
  the function's answers.
- ProjectOperator: weak fairness of the worker's calls, of the informer, CloudNativePG and the namespace controller;
  strong fairness of the start of a reconcile per project (one worker takes them in turn, and the resync brings
  each back) and of the status update that finds all components up, since they may be down whenever looked at. Faults are bounded.
- ProjectService: as FunctionService; strong fairness says only that some request asks for each project again and again.
- ObjectStorage: weak fairness of each request's own steps (every statement and every call of the object store is answered, in one
  of its ways; the creation of a pool has a timeout of 15 seconds) and of the end of a pool's Close; strong fairness of
  `Begin`, since pgxpool serves the longest waiting caller. No failure is taken for granted but that of a Begin on a closed pool: the
  wait for a connection has no deadline, so a request that held one and waited for another would wait for ever (the mutant
  `CommitAtTheEnd` does).
- GPUInvoke has none and checks no liveness.

## 4. What the checks found

Two runs violate a property that states what a comment or text of
the repository says:

1. **Zombie function** (FunctionService_Zombie, function_service.go:657). (1) CreateFunction inserts the row
   and looks for the object, or GetFunction finds none and starts to heal. (2) DeleteFunction
   marks the row deleted and finds no object to delete. (3) The first request
   creates the object from the row it holds. Nothing deletes it again.
2. **Two projects wait for each other** (ProjectOperator_Room, project_controller.go:88). Under a limit of
   one, (1) two projects are created before the controller looked at either. (2) Each counts
   the other and is requeued, for ever, though none is provisioned. The phase Queued is not in the enum of the
   schema, so the status update of a waiting project fails as well.

Further properties are written down in the modules and are false of the code, and
no run checks them. Each has a counterexample of a few steps:

- `ReadyIsServing` (function_controller.go:343): when the build of an updated function ends before
  any reconcile wrote Building, image and observedGeneration of the new
  generation are recorded with the phase Ready of the old one. `PhaseIsServing` of FunctionWorkload states the same of the objects: "Phase
  transitions to Ready after workload deployment is verified" (function_controller.go:341), but this phase was Ready before. The condition Ready
  still names the old generation then, and is what `ReadyIsComplete` relies on.
- `AdoptedImageMatchesSpec` (function_controller.go:321): a Job is found by function name and generation number, and a
  recreated function restarts at 1: it adopts a Job of its predecessor that no cleanup removed.
- `DeletesOnlyStale` (function_controller.go:444): for an external GPU function, each reconcile deletes the
  route `func-<name>` as stale and creates it again one step later.
- `FlushedIsPublished` (replicator.go:205): position plus message length of a Commit message may lie past the next
  commit record; when that is reported and the pod restarts, the server skips the transaction.
- `EveryRowPublished` (cdc-pod handler.go:189): a committed NaN or Infinity makes json.Marshal
  fail; the process exits and meets the same message at every start.
- `RowsKeptApart`: rows of one COPY record share position and transaction, hence
  the event ID, and all but the first are dropped as duplicates.
- `ReadyWasVerified`: ReadyReplicas counts old replicas during a rolling update,
  so Ready may be written before any replica of the new image was ready.
- `DeletionCleansUp`: a Job the informer does not list yet survives; an Update
  that dropped the finalizer makes a following delete skip the cleanup altogether.
- `DeletionRemovesTriggers`: nothing deletes the route of a deleted function.
- `SpecPropagated`: an update whose CRD write fails or conflicts is only logged, and self-healing
  recreates missing objects but does not repair a stale spec.
- `OneFieldPerUpdate`: two updates of different fields read, merge and write the whole row.
- `NothingGivenUp` (consumer.go:119, "Nak so NATS will redeliver later"): the last delivery that fails is the end of the event.
- `OneAtATime`: AckWait of a minute is replaced by a BackOff from 5 seconds, and a call may last 30, so two sidecars call for one event.
- `PausedUntilResumed`: a sync that read the row before the pause writes over it.
- `StatusConverges` of ProjectService: a row that says failed is never synced again, although the controller retries and gets Ready.

Also visible in the models, or met while writing them:

- A function that moves to an external GPU provider keeps its consumer
  and autoscaler (`LeftBehind`); a dropped delete error leaves a stale
  object until the next reconcile (`missed`).
- A project whose custom resource is created after DeleteProject looked for it lives on (`astray`); a Secret whose row
  was not written blocks the name; API keys of a deleted project stay active.
- Two requests that delete one secret both read its row; if another creates the secret anew after the first deleted the Secret,
  the second deletes the new Secret, and the row that is written for it then has none (secret_service.go:170). Two requests
  cannot do this; it came up as the case for which the proof of `StoresAgree` did not go through, and is counted in `torn`.
- The lookup of the namespace in handleDeletion takes any error for its absence, and the namespace stays (`skipped`).
- Event triggers that name no subject leave the consumer as it was (`silent` in FunctionWorkload). RetryPolicy, the filter and columns of a database
  trigger and the prefix of a storage trigger are carried to the resource, and nothing applies them.
- UploadComplete does not enforce the bucket's limits; two writers of one object can leave its row and its bytes
  different; the bytes of an upload that was cut survive the deletion of the bucket; a presigned
  URL used late changes bytes without row or event. `storage.buckets` has a row level policy for the service role only, so an
  anonymous download finds no bucket.
- After 300 seconds a GPU invocation is answered with an error while its Job may run for 1800, and its result is not read;
  when the answer to a submission is lost, the provider's job runs unattended; the "sliding window" of the limiter is a
  fixed one that starts with its first invocation.
- Buckets and objects are paged by OFFSET: rows inserted or deleted between two pages shift the rest. Buckets are
  ordered by creation time only. One event of an unknown trigger type fails its whole page.

What does hold, and is less obvious than the above: however stale the caches and
wherever a reconcile is cut off, the *transition* to Ready happens only with the right image in the
Deployment and both triggers wired (ReadyOnlyWhenServing); a
function that was never recreated runs an image of its own spec although build inputs are
overwritten under running builds (OwnImageMatchesSpec); a transaction is lost by
the CDC pod only through an overshooting message (LossAccounted), and restarts, repeated publishes and the expiry
of the window never reorder events (NothingOvertaken); the four JWT Secrets of a project never disagree, whichever call fails between them;
a complete upload repairs whatever earlier ones left half done; a client that pages through a
list sees every lasting row once.

## 5. What is proved

The theorems hold for every value of the constants allowed by the named assumptions
(beside the constants), whatever the number of specs, projects, sidecars, requests,
transactions, log entries, faults. SpecsAssumption, BoundsAssumption, SpecKindsAssumption, ServiceAssumption (of FunctionService) and
ReplicatorAssumption give the constants their types. So does ParametersAssumption of FunctionWorkload (a resource has at least one generation),
and GPUAssumption, which adds that the limiter's limit and interval and the number of errors in a row are positive, as in the code. So do ParametersAssumption of ProjectOperator (projects),
DeliveryAssumption (sidecars), PoolsAssumption and StorageAssumption (callers, requests) and ServiceAssumption of
ProjectService (ids, requests), which also say that these sets are finite, because the code counts their members: projects against the limit, pods of a Deployment,
connections of a pool; ServiceAssumption adds that every usage has a request. A stack with PostgREST has Postgres, as CreateProject demands, and a run that starts with a warm pool
allows one pool at least. Sets of requests and numbers of faults are bounds of the models and appear in no argument
otherwise than as "any finite number".

| Module | Theorem | States |
|---|---|---|
| FunctionOperatorProofs | TypeCorrect | TypeOK |
| | ReadyOnlyWhenServed | ReadyOnlyWhenServing |
| | ContractImplemented | FunctionOperator implements FunctionContract |
| | OwnImageCorrect | OwnImageMatchesSpec |
| FunctionServiceProofs | TypeCorrect, ReadyRowsHaveImages, DeletedStaysDeleted | TypeOK, ReadyRowHasImage, DeletedForGood |
| | ListsArePages | every keyset list of every service answers with a page of its rows |
| | WalkInvariance, EveryRowOnce | following the cursors: NothingSkipped, NothingRepeated |
| CDCReplicatorProofs | TypeCorrect, EventsStoredOnce, ReceivedEventsStored, CommitOrder, LossesAccounted | TypeOK, StoredOnce, ReceivedIsStored, NothingOvertaken, LossAccounted |
| ProjectOperatorProofs | TypeCorrect, OneKeyPair, ReadyMeansExact | TypeOK, KeysConsistent, ReadyIsExact |
| | ContractImplemented | ProjectOperator implements ProjectContract |
| EventDeliveryProofs | TypeCorrect | TypeOK |
| | ContractImplemented | EventDelivery implements EventContract |
| ObjectStorageProofs | TypeCorrect, PoolsKept, ViewsAgreed | TypeOK, NoPoolLost, ViewsAgree |
| ProjectServiceProofs | TypeCorrect, OverrunIsBounded, StoresAgreed | TypeOK, OverrunBounded, StoresAgree |
| RuntimeProofs | TypeCorrect, BilledOnce, RateIsKept (GPUInvoke) | TypeOK, BilledOnceAnsweredTruly, RateKept |
| | AnsweredWithOwnResult | where no other invocation has the short id, success carries the invocation's own completed work |
| | WorkloadTypeCorrect, ReadyComplete, Leftovers, KeepsServing (FunctionWorkload) | WorkloadTypeOK, ReadyIsComplete, LeftoversAccounted, InClusterKeepsServing |
| | RemovesRouteAtMost | a reconcile of the current spec removes nothing it needs but, for an external GPU function, the route |

- *FunctionOperatorProofs.* TypeOK alone says nothing about the worker. The
  invariant `IInv` adds: `Consistent`, how the status fields of the stored object, of the cached
  one and of the worker's copy fit together (an image is recorded only with its generation and a
  succeeded build); `WorkerKnows`, what the worker found out about its copy
  before the call it is about to make; `WorkerDid`, what it has already written by then
  and nobody else writes. A status write that is not refused finds the stored object equal to that copy,
  so Ready is written for an object all of this is true of. The
  refinement follows step by step: a status write is one of the contract's or is refused, all else stutters.
  `BuildInv`, for OwnImageCorrect, is about the first incarnation of the object. Informer and worker lag
  behind it but never go back (`SeenLags`, `WorkerLags`, `JobsLag`). When the Job of the current
  generation exists, the worker has held that generation, hence the informer has reached it and
  the ConfigMaps carry its spec (`CurrentJob`); from then on no reconcile can write an older
  one, and a newer one makes the Job that of a past generation.
- *FunctionServiceProofs.* `IInv` says that the row and every copy a request holds have been inserted, and
  that a request about to store "ready" stores an image with it, for any number of requests. Of the custom
  resource it needs only that one that is Ready or built names an image (`NamesImage`).
- *CDCReplicatorProofs.* `IInv` is the conjunction of TypeOK, `LogInv` (a transaction ends once, after
  its changes), `SlotInv` (the confirmed position lies between the start of the session and
  flushedLSN), `SessionInv` (a session is inside a transaction it was to be sent, at one of its messages)
  and `StreamInv` (the stream holds committed changes, whose IDs are in the window or have left it).
  Commit order then follows from ReceivedIsStored: what the session
  has passed is stored, and what it was not sent was passed over before.
  LossesAccounted adds `OrderInv` (records lie one after another, and a transaction that commits has
  written something) and `AccountInv`: of both positions the pod may resume from, the confirmed one and the flushed
  one, what commits before is stored or reached over by a message. A message that advances the flushed position
  ends behind a commit only if it reaches over it or the session has passed that commit.
- *ProjectOperatorProofs.* Three copies of a Project take part, stored, cached and held by the worker. `SeenInv` and
  `OpInv` say how each is an earlier version of the next, so that a status write that is
  not refused speaks of the stored generation. `TodoInv` is about a reconcile under way: each call of the plan for the
  worker's stack is still ahead of it or its effect is there. It is inductive because the calls of one plan never undo
  each other (proved of `Plan` first, from the sequence of its calls) and nobody else deletes what they make; a role key under renewal is excepted. Ready is written when nothing is ahead (`ReadyInv`). KeysConsistent needs
  the order of the plan: a key is derived only after the pair was minted, and a pair is minted only where none is.
  For the refinement, the gate is the one step that needs an argument: a
  project that was let through has been reconciled, so the informer lists it as live (`SeenInv`) and the count of the
  informer's live projects is at least that of the admitted ones.
- *EventDeliveryProofs.* `SideInv` says what a busy sidecar holds: an event that was delivered, and, when it
  acknowledges, one that a call has succeeded for. The hard clause of the contract is the limit on calls, since
  deliveries of one event to several sidecars overlap after the acknowledgement timeout. `BudgetInv` bounds the calls made plus
  the attempts left, counted over all sidecars, by `maxRetries + 1` for each delivery: a delivery adds that much to
  both sides, a call moves one from the attempts left to those made, and what is dropped only lowers the left side.
- *ObjectStorageProofs.* For the pools, `FlightInv` says that the callers that wait are exactly those in the flight of
  singleflight, that one of them creates, and that the map has no entry meanwhile; then the pool it stores replaces none. TypeOK contains the count
  of connections, which every step of a caller keeps by a lemma about taking one caller in or out of a transaction. For the requests, `WritersInv`
  says that writers that meet are in `overlap`, and that what a writer that met none has written so far is still there; `AckedInv`
  says that after an acknowledged write only a bucket without objects may be about to go.
- *ProjectServiceProofs.* StoresAgree speaks of idle states only, so the invariant has to say what holds while requests
  run. `Agrees`: an active row without object, or a deleted one with an object, has a request that will create or delete it;
  only one request creates an id (`CreatorsInv`). `Settled`, of every secret not in `torn`: a row without entry is
  about to be deleted by a request that read this very row; an entry without such a row belongs to a request that will write the row or remove the
  Secret, and while one will write the row no other will. Row ids grow (`RowIdsInv`), so a request that read an earlier row never
  matches a later one. OverrunBounded is inductive with the fact that a request in flight is one of the
  usage's (`FitInv`): each may be about to insert after a count below the limit.
- *FunctionServiceProofs, lists.* `ListsArePages` unfolds each list to a member of `Pages`; `PageFacts` says what such a page is (its rows
  are below the cursor, they are the uppermost ones, and its cursor is its last row, present exactly when rows are left),
  from the order of the rows (`AboveOrder`); the invariant of the walk is that everything given lies at or above the cursor and
  that every row that was there all along and lies there was given. It has no
  run: the theorem covers any rows and page sizes, assuming only that a row is identified by creation time and id and that pages are not empty.
- *RuntimeProofs, GPUInvoke.* The invariant has two parts that no step but a handler's first relates. About the work: `JobInv` says that a Job has one pod
  and what the state of its dispatcher implies for the provider's work (nothing is submitted before `submit`, what is written has ended),
  `ResultInv` that a ConfigMap holds how the work of an invocation with its short id ended, `AnswerInv` the same of an answer. "Billed once" is then
  that the one pod submits at most once, since a dispatcher leaves `submit` for good, whether the provider took the work or not. About the rate: `WindowInv` says that the window's count is
  the number of invocations admitted in it, that it began with one of them, and that a stretch which reaches into it holds less than
  the limit of earlier ones (`Earlier`): it may reach the window before, but no longer that one's first invocation. All are needed: the count alone
  would not be kept when one window follows another. A new window opens only after the one before has ended, and what the old one admitted,
  less its first, is then what a stretch may still hold of it.
- *RuntimeProofs, FunctionWorkload.* ReadyIsComplete is far from inductive, as the condition stays True while a reconcile goes through the objects again
  and while builds are adopted.
  `Ahead` gives, for each step, the objects whose turn is yet to come; `StepsInv` says that what the worker's spec needs is there or
  ahead, and that what is there is needed, left behind, missed or ahead. `CopyInv` adds that the worker's copy is the function or an older generation of it, and
  `ReadyInv` that while the condition is True of the current generation the worker holds it and does not build, so that it deletes nothing of what it
  needs and no adoption disturbs phase or observed generation. Each of the eight object steps is first shown (`StepFits`)
  to delete a set and provide another that fit what is ahead before and after it; one lemma (`DoesKeeps`) then covers them all. The
  route of an external GPU function is the exception in every clause: the workload step deletes it and a later one makes it again (section 4).

Model-checked only: liveness and everything about fairness (Settles,
DeletionCompletes, SelfHeals, StatusConverges, Published, EverySettled, ProjectsSettle, NotLeftProvisioning, EveryRequestAnswered), which is out of
the prover's reach. Every safety invariant and every action property the runs check is proved.

## 6. Not modelled

The contents of manifests, conversion between wire, row and resource, authentication,
logs, metrics, the dashboard. Kubernetes, PostgreSQL, NATS, Kaniko, the object store and the GPU provider appear only as
the code sees them. Of the modelled services: log queries, the invocation proxy and the concurrent build limit (an abandoned
reconcile in FunctionOperator); GetMe and UpdateProfile; a second dispatcher pod
after the loss of its node, which Kubernetes does not exclude; loss of a replication slot or of a stream; several replicas of a service
otherwise than as more concurrent requests (GPUInvoke's limiter is per process).

## 7. Plan

1. **BuildQueue**: several functions of one project against the concurrent build limit, which counts Jobs in an informer.
2. **Composition** of CDCReplicator and EventDelivery: a committed row to an answered call.

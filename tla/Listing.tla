-------------------------------- MODULE Listing --------------------------------
(***************************************************************************)
(* The list calls of the services.  Functions, invocations, projects, API  *)
(* keys, secrets and the event history are listed newest first, a page at  *)
(* a time; a page ends with a token, the created_at and the id of its last *)
(* row, below which the next page starts.  Buckets and objects are listed  *)
(* by offset.                                                              *)
(*                                                                         *)
(* db is a record of tables, which are sets of rows; req is a request.  An *)
(* optional parameter is a set of at most one element, {} when absent; a   *)
(* page that is the last has no token.  Each call yields the set of pages  *)
(* it may answer with, {} when it refuses the request.  RFC3339Nano and    *)
(* base64 lose nothing of a timestamp of Postgres, so a token that decodes *)
(* is the cursor itself.                                                   *)
(***************************************************************************)
EXTENDS Integers, Sequences, FiniteSets

Smaller(m, n) == IF m < n THEN m ELSE n

(* created_at DESC, id DESC: r comes before s.                             *)
Above(r, s) == \/ r.created_at > s.created_at
               \/ r.created_at = s.created_at /\ r.id > s.id

Below(S, cursor) == {s \in S : \A c \in cursor : Above(c, s)}

(* ORDER BY created_at DESC, id DESC LIMIT limit: the newest rows of S,    *)
(* fewer than limit only when S has no more.                               *)
IsNewest(rows, S, limit) ==
    /\ \A i, j \in DOMAIN rows : i < j => Above(rows[i], rows[j])
    /\ \A s \in S : \/ \E i \in DOMAIN rows : rows[i] = s
                    \/ Len(rows) = limit /\ \A i \in DOMAIN rows : Above(rows[i], s)

Newest(S, limit) ==
    {rows \in UNION {[1..n -> S] : n \in 0..limit} : IsNewest(rows, S, limit)}

(***************************************************************************)
(* Requests and pages.                                                     *)
(***************************************************************************)
Owned(db, req) == \E p \in db.projects : /\ p.id = req.project /\ p.tenant = req.tenant
                                         /\ p.status # "deleted"

(* A token that does not decode, or a negative size, is refused.           *)
WellFormed(req) == req.size >= 0 /\ ~req.garbled

PageSize(req) == IF req.size = 0 THEN 20 ELSE Smaller(req.size, 100)

Clamped(limit) == IF limit <= 0 THEN 21 ELSE Smaller(limit, 101)

Matches(r, req) == /\ \A s \in req.status : r.status = s
                   /\ \A t \in req.since : r.created_at >= t
                   /\ \A t \in req.until : r.created_at <= t

(* The handler asked for one row more than it answers with.                *)
Cut(rows, size) == IF Len(rows) > size THEN SubSeq(rows, 1, size) ELSE rows

Token(rows, hasMore) ==
    IF hasMore /\ rows # <<>>
    THEN {[created_at |-> rows[Len(rows)].created_at, id |-> rows[Len(rows)].id]}
    ELSE {}

PageOf(rows, size) ==
    [rows |-> Cut(rows, size), next |-> Token(Cut(rows, size), Len(rows) > size)]

(* What every keyset list below comes to, S being what its WHERE selects.  *)
Pages(S, cursor, size) == {PageOf(rows, size) : rows \in Newest(Below(S, cursor), size + 1)}

(***************************************************************************)
(* Function MS.                                                            *)
(***************************************************************************)
FunctionsOf(db, req) == {f \in db.functions : f.project = req.project /\ f.status # "deleted"}

ListFunctionsByProjectID(db, req, limit) == Newest(Below(FunctionsOf(db, req), req.cursor), limit)

FunctionRows(db, req, limit) ==
    IF Owned(db, req) THEN ListFunctionsByProjectID(db, req, Clamped(limit)) ELSE {}

ListFunctions(db, req) ==
    IF WellFormed(req)
    THEN {PageOf(rows, PageSize(req)) : rows \in FunctionRows(db, req, PageSize(req) + 1)}
    ELSE {}

InvocationsOf(db, req) ==
    {i \in db.invocations : i.function = req.function /\ i.project = req.project /\ Matches(i, req)}

ListInvocationsByFunctionID(db, req, limit) ==
    Newest(Below(InvocationsOf(db, req), req.cursor), limit)

InvocationRows(db, req, limit) ==
    IF Owned(db, req) /\ \E f \in FunctionsOf(db, req) : f.id = req.function
    THEN ListInvocationsByFunctionID(db, req, Clamped(limit))
    ELSE {}

ListInvocations(db, req) ==
    IF WellFormed(req)
    THEN {PageOf(rows, PageSize(req)) : rows \in InvocationRows(db, req, PageSize(req) + 1)}
    ELSE {}

(***************************************************************************)
(* Project MS.                                                             *)
(***************************************************************************)
ProjectsOf(db, req) == {p \in db.projects : p.tenant = req.tenant /\ p.status # "deleted"}

ListProjectsByTenantID(db, req, limit) == Newest(Below(ProjectsOf(db, req), req.cursor), limit)

ProjectRows(db, req, limit) == ListProjectsByTenantID(db, req, Clamped(limit))

(* Project MS has its own copy of these checks and of the cursor, one with *)
(* an id that is text.                                                     *)
ProjectWellFormed(req) == WellFormed(req)

ListProjects(db, req) ==
    IF ProjectWellFormed(req)
    THEN {PageOf(rows, PageSize(req)) : rows \in ProjectRows(db, req, PageSize(req) + 1)}
    ELSE {}

(* Revoked and expired keys are listed with the others.                    *)
ApiKeysOf(db, req) == {k \in db.api_keys : k.project = req.project}

ListApiKeysByProjectID(db, req, limit) == Newest(Below(ApiKeysOf(db, req), req.cursor), limit)

ApiKeyRows(db, req, limit) ==
    IF Owned(db, req) THEN ListApiKeysByProjectID(db, req, Clamped(limit)) ELSE {}

ListApiKeys(db, req) ==
    IF ProjectWellFormed(req)
    THEN {PageOf(rows, PageSize(req)) : rows \in ApiKeyRows(db, req, PageSize(req) + 1)}
    ELSE {}

SecretsOf(db, req) == {s \in db.secrets : s.project = req.project}

ListSecretsByProjectID(db, req, limit) == Newest(Below(SecretsOf(db, req), req.cursor), limit)

SecretRows(db, req, limit) ==
    IF Owned(db, req) THEN ListSecretsByProjectID(db, req, Clamped(limit)) ELSE {}

ListSecrets(db, req) ==
    IF ProjectWellFormed(req)
    THEN {PageOf(rows, PageSize(req)) : rows \in SecretRows(db, req, PageSize(req) + 1)}
    ELSE {}

(***************************************************************************)
(* Event MS: the history of a project, or of one function of it.           *)
(***************************************************************************)
ProjectEvents(db, req) == {e \in db.events : e.project = req.project /\ Matches(e, req)}

FunctionEvents(db, req) == {e \in ProjectEvents(db, req) : {e.function} = req.function}

ListEventHistoryByProjectID(db, req, limit) ==
    Newest(Below(ProjectEvents(db, req), req.cursor), limit)

ListEventHistoryByFunctionID(db, req, limit) ==
    Newest(Below(FunctionEvents(db, req), req.cursor), limit)

EventRows(db, req, limit) ==
    IF ~Owned(db, req) THEN {}
    ELSE IF req.function = {} THEN ListEventHistoryByProjectID(db, req, Clamped(limit))
    ELSE ListEventHistoryByFunctionID(db, req, Clamped(limit))

(* Event MS has its own copy of these checks and of the cursor.            *)
EventWellFormed(req) == WellFormed(req)

(* A row whose trigger the converter does not know fails the whole page.   *)
Convertible(row) == row.trigger \in {"database_change", "object_storage"}

ListEventHistory(db, req) ==
    IF EventWellFormed(req)
    THEN {page \in {PageOf(rows, PageSize(req)) :
                     rows \in EventRows(db, req, PageSize(req) + 1)} :
            \A i \in DOMAIN page.rows : Convertible(page.rows[i])}
    ELSE {}

(***************************************************************************)
(* Tenant-user service: a caller sees itself, on one page.                 *)
(***************************************************************************)
ListTenants(db, req) ==
    {[rows |-> <<t>>, next |-> {}] : t \in {u \in db.tenants : u.id = req.tenant /\ u.status # "deleted"}}

(***************************************************************************)
(* Storage MS: lists by offset.  Buckets come newest first, those created  *)
(* at the same instant in any order, which may differ between two queries; *)
(* objects come by name.                                                   *)
(***************************************************************************)
InOrder(rows, key, descending) ==
    \A i, j \in DOMAIN rows : i < j => /\ rows[i] # rows[j]
                                       /\ IF descending THEN rows[i][key] >= rows[j][key]
                                                        ELSE rows[i][key] <= rows[j][key]

(* ORDER BY key LIMIT limit OFFSET offset.                                 *)
Sliced(S, key, descending, limit, offset) ==
    {SubSeq(rows, offset + 1, Smaller(offset + limit, Len(rows))) :
        rows \in {r \in [1..Cardinality(S) -> S] : InOrder(r, key, descending)}}

BucketLimit(limit) == IF limit <= 0 THEN 20 ELSE Smaller(limit, 100)

ListBucketsQuery(db, req, limit) ==
    Sliced({b \in db.buckets : b.project = req.project}, "created_at", TRUE, limit, req.offset)

BucketRows(db, req, limit) ==
    IF Owned(db, req) THEN ListBucketsQuery(db, req, BucketLimit(limit)) ELSE {}

(* No row more is asked for: a full page has a token, the last one too.    *)
NextOffset(req, rows) == IF Len(rows) < PageSize(req) THEN {} ELSE {req.offset + Len(rows)}

ListBuckets(db, req) ==
    IF WellFormed(req)
    THEN {[rows |-> rows, next |-> NextOffset(req, rows)] : rows \in BucketRows(db, req, PageSize(req))}
    ELSE {}

ObjectLimit(limit) == IF limit <= 0 THEN 100 ELSE Smaller(limit, 1000)

ListObjectsByBucket(db, bucket, req, limit) ==
    Sliced({o \in db.objects : o.bucket = bucket}, "name", FALSE, limit, req.offset)

(* The tables hold what the policies let the claims of the caller read.    *)
ObjectRows(db, req, limit) ==
    UNION {ListObjectsByBucket(db, b.id, req, ObjectLimit(limit)) :
             b \in {c \in db.buckets : c.project = req.project /\ c.name = req.bucket}}

(* No token: the client counts the offset.                                 *)
ListObjects(db, req) ==
    IF req.limit = {} THEN ObjectRows(db, req, 100)
    ELSE UNION {ObjectRows(db, req, n) : n \in {m \in req.limit : m >= 1}}

(* The dashboard's list reads as service_role, for an owner of the project *)
(* only.                                                                   *)
DashboardListObjects(db, req) == IF Owned(db, req) THEN ListObjects(db, req) ELSE {}
=============================================================================

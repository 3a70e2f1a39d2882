----------------------------- MODULE ObjectStorage -----------------------------
(***************************************************************************)
(* Storage MS on one object of one bucket: its bytes are in the object     *)
(* store, its row and its bucket in the project's database, its events in  *)
(* the project's stream, and no transaction spans the three.  A request is *)
(* one call of the service; it uses the database in transactions of its    *)
(* own (WithRLS of TenantPools), and between them other requests run.      *)
(* Code: services/storage/internal/service, tenantstore and handler, and   *)
(* storage-providers/s3compat.                                             *)
(***************************************************************************)
EXTENDS TenantPools

CONSTANTS MaxRequests,  \* bound: requests
          Usages        \* bounds: operations, state at the start

Requests == 1..MaxRequests
ASSUME StorageAssumption ==
    /\ MaxRequests \in Nat /\ Callers = Requests
    /\ \A u \in Usages : /\ u.warm \in BOOLEAN /\ (u.warm => MaxPools # 0)
                         /\ u.buckets \subseteq {"none", "open", "strict"}
                         /\ u.rows \subseteq 0..MaxRequests + 1

VARIABLES bucket,      \* none, open, or strict: with limits
          row,         \* content recorded in storage.objects, 0 for no row
          bytes,       \* content in the object store, 0 for none
          lastEvent,   \* the last event of the object in the stream
          req,         \* each request: operation, next step, content
          urls,        \* presigned PUT URLs given out
          usage,
          overlap,     \* history: writers that met another one
          acked        \* history: the last write answered, if met by none

data == <<bucket, row, bytes, lastEvent>>
vars == <<poolVars, data, req, urls, usage, overlap, acked>>

ObjectOps == {"Upload", "DeleteObject", "UploadComplete"}
BucketOps == {"CreateBucket", "UpdateBucket", "DeleteBucket"}
ReadOps == {"Download", "ListBuckets", "PresignUpload"}   \* ListObjects and PresignDownload
                                                        \* end with Download's transaction
Ops == ObjectOps \cup BucketOps \cup ReadOps
Steps == {"new", "find", "put", "erase", "head", "write", "count", "drop", "publish", "get", "done"}
TxSteps == {"find", "write", "count"}
Contents == 0..MaxRequests + 1      \* of the request that wrote it; none; a client's
FromClient == MaxRequests + 1

Unknown == [known |-> FALSE, content |-> 0, told |-> FALSE]
Known(c, told) == [known |-> TRUE, content |-> c, told |-> told]

Init == /\ usage \in Usages
        /\ PoolsInit(usage.warm)
        /\ bucket \in usage.buckets
        /\ row \in (IF bucket = "none" THEN {0} ELSE usage.rows)
        /\ bytes = row /\ lastEvent = "none"
        /\ req = [r \in Requests |-> [op |-> "Download", at |-> "new", content |-> 0]]
        /\ urls = 0 /\ overlap = {} /\ acked = Known(row, FALSE)

-----------------------------------------------------------------------------
(* A request goes to its next step, and calls WithRLS if that is a         *)
(* transaction; in one, it first ends the transaction it is in.            *)
Entry(at) == IF at \in TxSteps THEN Calling ELSE Out
Done == [op |-> "Download", at |-> "done", content |-> 0]
To(r, at) == req' = [req EXCEPT ![r] = IF at = "done" THEN Done ELSE [@ EXCEPT !.at = at]]
Leave(r, at) == To(r, at) /\ caller' = [caller EXCEPT ![r] = Entry(at)] /\ UNCHANGED <<pools, flight>>
CommitAtTheEnd(r, at) ==           \* mutant: keeps its connection meanwhile
    IF at = "done" THEN To(r, at) /\ EndTx(r, TRUE, Out) ELSE Leave(r, at)
Commit(r, at) == To(r, at) /\ EndTx(r, TRUE, Entry(at))
Rollback(r) == To(r, "done") /\ EndTx(r, FALSE, Out)
InTx(r, at) == req[r].at = at /\ caller[r].pc = "tx"

FirstStep(op) == CASE op = "UploadComplete" -> "head"
                   [] op = "DeleteBucket" -> "count"
                   [] op \in {"CreateBucket", "UpdateBucket", "ListBuckets"} -> "write"
                   [] OTHER -> "find"

(* History: a write begins, ends well, or is cut.                          *)
Writing(r) == \/ req[r].at \in {"write", "publish"} /\ req[r].op \in ObjectOps
              \/ req[r].at = "drop"
Writers == {r \in Requests : Writing(r)}
Meet(r) == overlap' = IF Writers \ {r} = {} THEN {} ELSE overlap \cup Writers \cup {r}
Begins(r) == Meet(r) /\ acked' = Unknown
Ends(r, told) ==
    /\ acked' = IF r \in overlap THEN acked ELSE Known(req[r].content, told)
    /\ overlap' = overlap \ {r}
history == <<overlap, acked>>

Arrive(r, op) ==
    /\ req[r].at = "new" /\ op \in usage.ops
    /\ \A q \in Requests : q < r => req[q].at # "new"     \* numbered as they come
    /\ req' = [req EXCEPT ![r] = [op |-> op, at |-> FirstStep(op), content |-> IF op = "Upload" THEN r ELSE 0]]
    /\ caller' = [caller EXCEPT ![r] = Entry(FirstStep(op))]
    /\ UNCHANGED <<pools, flight, data, urls, usage, history>>

(* WithRLS could not begin: the request is answered with the error.        *)
NoTransaction(r) ==
    /\ caller[r].pc = "err"
    /\ Leave(r, "done")
    /\ UNCHANGED <<data, urls, usage, history>>

(* A statement fails: the transaction is rolled back.                      *)
StatementFails(r) ==
    /\ caller[r].pc = "tx"
    /\ Rollback(r)
    /\ UNCHANGED <<data, urls, usage, history>>

-----------------------------------------------------------------------------
(* Upload, DeleteObject, Download and the presigned URLs look the bucket   *)
(* up in a transaction of its own.                                         *)
AfterFind(op) == CASE op = "Upload" -> "put"
                   [] op = "DeleteObject" -> "erase"
                   [] op = "Download" -> "get"
                   [] OTHER -> "done"
Presigned(op) == IF op = "PresignUpload" THEN 1 ELSE 0
FindBucket(r) ==
    /\ InTx(r, "find") /\ bucket # "none"
    /\ Commit(r, AfterFind(req[r].op))
    /\ urls' = urls + Presigned(req[r].op)
    /\ UNCHANGED <<data, usage, history>>

(* The bucket's limits refuse the content.                                 *)
enforceBucketLimits(r) ==
    /\ InTx(r, "find") /\ bucket = "strict" /\ req[r].op = "Upload"
    /\ Commit(r, "done")
    /\ UNCHANGED <<data, urls, usage, history>>

(* ... nor does the foreign key of an upsert find it.                      *)
BucketNotFound(r) ==
    /\ InTx(r, "find") \/ (InTx(r, "write") /\ req[r].op \in {"Upload", "UploadComplete"})
    /\ bucket = "none"
    /\ Rollback(r)
    /\ UNCHANGED <<data, urls, usage, history>>

(* The calls of the object store: each may fail, before or after it took   *)
(* effect.                                                                 *)
Put(r) ==
    /\ req[r].at = "put"
    /\ \/ bytes' = req[r].content /\ Leave(r, "write")
       \/ bytes' \in {bytes, req[r].content} /\ Leave(r, "done")
    /\ Begins(r)
    /\ UNCHANGED <<bucket, row, lastEvent, urls, usage>>

Erase(r) ==
    /\ req[r].at = "erase"
    /\ \/ bytes' = 0 /\ Leave(r, "write")
       \/ bytes' \in {bytes, 0} /\ Leave(r, "done")
    /\ Begins(r)
    /\ UNCHANGED <<bucket, row, lastEvent, urls, usage>>

(* UploadComplete asks the object store what the client has put there.     *)
Head(r) ==
    /\ req[r].at = "head" /\ bytes # 0
    /\ req' = [req EXCEPT ![r].at = "write", ![r].content = bytes]
    /\ caller' = [caller EXCEPT ![r] = Calling]
    /\ Begins(r)
    /\ UNCHANGED <<pools, flight, data, urls, usage>>

(* Nothing is there, or the call fails; the download's Get, with or        *)
(* without an object, ends its request too.                                *)
StoreAnswers(r) ==
    /\ req[r].at \in {"head", "get"}
    /\ Leave(r, "done")
    /\ UNCHANGED <<data, urls, usage, history>>

-----------------------------------------------------------------------------
(* The rows: an upsert needs its bucket; the commit may be made although   *)
(* its answer is lost.                                                     *)
UpsertedOnce(r) == IF row = 0 THEN req[r].content ELSE row     \* mutant: DO NOTHING
Upserted(r) == req[r].content
Upsert(r) ==
    /\ InTx(r, "write") /\ req[r].op \in {"Upload", "UploadComplete"} /\ bucket # "none"
    /\ row' = Upserted(r)
    /\ Commit(r, "publish") \/ Commit(r, "done")
    /\ UNCHANGED <<bucket, bytes, lastEvent, urls, usage, history>>

DeleteRow(r) ==
    /\ InTx(r, "write") /\ req[r].op = "DeleteObject"
    /\ row' = 0
    /\ Commit(r, "publish") \/ Commit(r, "done")
    /\ UNCHANGED <<bucket, bytes, lastEvent, urls, usage, history>>

Event(content) == IF content = 0 THEN "deleted" ELSE "created"

(* Publishing is best effort; the request is answered all the same.        *)
Publish(r) ==
    /\ req[r].at = "publish"
    /\ \/ lastEvent' = Event(req[r].content) /\ Ends(r, TRUE)
       \/ UNCHANGED lastEvent /\ Ends(r, FALSE)
    /\ Leave(r, "done")
    /\ UNCHANGED <<bucket, row, bytes, urls, usage>>

(* The client uses a URL it was given, whatever happened since.            *)
ClientPut ==
    /\ urls > 0 /\ urls' = urls - 1
    /\ bytes' = FromClient
    /\ overlap' = overlap \cup Writers /\ acked' = Unknown
    /\ UNCHANGED <<poolVars, bucket, row, lastEvent, req, usage>>

-----------------------------------------------------------------------------
(* The buckets.                                                            *)
CreateBucket(r) ==
    /\ InTx(r, "write") /\ req[r].op = "CreateBucket"
    /\ IF bucket = "none" THEN bucket' \in {"open", "strict"} /\ Commit(r, "done")
                          ELSE UNCHANGED bucket /\ Rollback(r)
    /\ UNCHANGED <<row, bytes, lastEvent, urls, usage, history>>

UpdateBucket(r) ==
    /\ InTx(r, "write") /\ req[r].op = "UpdateBucket"
    /\ IF bucket # "none" THEN bucket' \in {"open", "strict"} /\ Commit(r, "done")
                          ELSE UNCHANGED bucket /\ Rollback(r)
    /\ UNCHANGED <<row, bytes, lastEvent, urls, usage, history>>

ListBuckets(r) ==
    /\ InTx(r, "write") /\ req[r].op = "ListBuckets"
    /\ Commit(r, "done")
    /\ UNCHANGED <<data, urls, usage, history>>

(* DeleteBucket counts the objects, then deletes the bucket: one           *)
(* transaction, read committed, so an object that comes in between goes    *)
(* with it (ON DELETE CASCADE).                                            *)
Counted == row # 0
CountObjects(r) ==
    /\ InTx(r, "count")
    /\ IF Counted THEN Rollback(r) /\ UNCHANGED overlap
                  ELSE To(r, "drop") /\ Meet(r) /\ UNCHANGED poolVars
    /\ UNCHANGED <<data, urls, usage, acked>>

DropBucket(r) ==
    /\ InTx(r, "drop")
    /\ IF bucket # "none" THEN bucket' = "none" /\ row' = 0 /\ Commit(r, "done")
                          ELSE UNCHANGED <<bucket, row>> /\ Rollback(r)
    /\ UNCHANGED <<bytes, lastEvent, urls, usage, history>>

-----------------------------------------------------------------------------
Answered(r) == \/ NoTransaction(r)
               \/ FindBucket(r) \/ enforceBucketLimits(r) \/ BucketNotFound(r)
               \/ Put(r) \/ Erase(r) \/ Head(r) \/ StoreAnswers(r)
               \/ Upsert(r) \/ DeleteRow(r) \/ Publish(r)
               \/ CreateBucket(r) \/ UpdateBucket(r) \/ ListBuckets(r)
               \/ CountObjects(r) \/ DropBucket(r)

Pooled(A) == A /\ UNCHANGED <<data, req, urls, usage, history>>
Serve(r) == Pooled(CallerStep(r)) \/ StatementFails(r) \/ Answered(r)

Housekeep == ~usage.warm /\ Pooled(Housekeeping)

Next == \/ \E r \in Requests : Serve(r) \/ \E op \in Ops : Arrive(r, op)
        \/ ClientPut
        \/ Housekeep

Spec == Init /\ [][Next]_vars

(* Each statement and each call of the object store is answered, in one of *)
(* its ways; who waits for a connection gets one if one is given back      *)
(* again and again (the pool serves the longest waiting); and closing a    *)
(* pool ends once its connections are back. That a Begin or a statement    *)
(* fails is never taken for granted, but for a Begin on a closed pool.     *)
FairSpec == Spec /\ \A r \in Requests : /\ WF_vars(Answered(r) \/ Pooled(Proceeds(r)))
                                        /\ SF_vars(Pooled(Begin(r)))
                 /\ WF_vars(Pooled(PoolClosed))

-----------------------------------------------------------------------------
TypeOK ==
    /\ PoolsTypeOK
    /\ bucket \in {"none", "open", "strict"} /\ row \in Contents /\ bytes \in Contents
    /\ (bucket = "none" => row = 0)
    /\ lastEvent \in {"none", "created", "deleted"}
    /\ req \in [Requests -> [op : Ops, at : Steps, content : Contents]]
    /\ urls \in 0..MaxRequests /\ usage \in Usages /\ overlap \subseteq Requests
    /\ acked \in [known : BOOLEAN, content : Contents, told : BOOLEAN]

(* The bytes, the row and the event of an object agree: what the last      *)
(* request answered wrote, if no other writer ran meanwhile or began       *)
(* since, is in both stores, and the last event that was published is its  *)
(* own.  It holds after any number of requests that were cut half-way      *)
(* (a complete write repairs what they left) and across bucket deletion,   *)
(* which must not take an object that was uploaded before it began.        *)
ViewsAgree ==
    acked.known => /\ bytes = acked.content /\ row = acked.content
                   /\ acked.told => lastEvent = Event(acked.content)

(* Every request is answered: none waits for ever for a connection, for    *)
(* the creation of a pool or for the mutex held while one closes. (An      *)
(* answered request stays so, and they are finitely many: that each one    *)
(* leads to its answer is that in the end none is open.)                   *)
EveryRequestAnswered == <>[](\A r \in Requests : req[r].at \in {"new", "done"})
=============================================================================

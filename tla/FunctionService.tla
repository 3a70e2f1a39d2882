---------------------------- MODULE FunctionService ----------------------------
(***************************************************************************)
(* Function MS: the row of one function in the meta DB, and the requests   *)
(* that read and write it and, in separate calls that may fail, the        *)
(* Function custom resource.  Every request runs concurrently with the     *)
(* others and with the controller, which is represented by its contract.   *)
(* Code: services/function/internal/service/function_service.go, the SQL   *)
(* of services/function/internal/store/query.sql, pkg/k8s/function_crd.go. *)
(***************************************************************************)
EXTENDS FunctionCR

CONSTANTS Fields,   \* what UpdateFunction can change one at a time
          Values,   \* their values
          Reqs,     \* requests in flight at the same time
          MaxFails  \* bound: calls to the Kubernetes API that fail, and
                    \* requests cut off by a restart of the service

ASSUME ServiceAssumption == Specs = [Fields -> Values] /\ MaxFails \in Nat

VARIABLES row,   \* the row of table functions
          reqs,  \* each request: next call and what it holds from earlier ones
          fails

serviceVars == <<row, reqs, fails>>
vars == <<crVars, serviceVars>>

Statuses == {"none", "pending", "building", "ready", "failed", "deleted"}
Rows == [status : Statuses, spec : Specs \cup {NoSpec}, image : 0..MaxGen]
NoRow == [status |-> "none", spec |-> NoSpec, image |-> 0]
Active == row.status \notin {"none", "deleted"}

PCs == {"idle", "merge", "status", "sync", "lookup", "apply", "delete"}
(* row: the row as read or returned; crd: the object as read.              *)
ReqRecs == [pc : PCs, row : Rows, crd : CRs]
Done == [pc |-> "idle", row |-> NoRow, crd |-> NoCR]
Finish(r) == reqs' = [reqs EXCEPT ![r] = Done]
Continue(r, pc, rw) == reqs' = [reqs EXCEPT ![r].pc = pc, ![r].row = rw]
At(r, pc) == reqs[r].pc = pc

Init == /\ cr = NoCR /\ uids = 0
        /\ row = NoRow
        /\ reqs = [r \in Reqs |-> Done]
        /\ fails = 0

-----------------------------------------------------------------------------
(* The SQL statements and what leads to them.                              *)

(* INSERT; then applyCRD.  The unique (project_id, name) also covers       *)
(* deleted rows, so there is one row per name for ever.                    *)
CreateFunction(r, s) ==
    /\ At(r, "idle")
    /\ row.status = "none"
    /\ row' = [status |-> "pending", spec |-> s, image |-> 0]
    /\ Continue(r, "lookup", row')
    /\ UNCHANGED <<crVars, fails>>

(* UpdateFunction reads the row and merges the given field in memory ...   *)
UpdateRead(r, f, v) ==
    /\ At(r, "idle")
    /\ Active
    /\ Continue(r, "merge", [row EXCEPT !.spec[f] = v])
    /\ UNCHANGED <<crVars, row, fails>>

(* ... and writes every field back, unless the row was deleted meanwhile.  *)
UpdateWrite(r) ==
    /\ At(r, "merge")
    /\ IF Active
       THEN /\ row' = [row EXCEPT !.spec = reqs[r].row.spec]
            /\ Continue(r, "lookup", row')
       ELSE Finish(r) /\ UNCHANGED row
    /\ UNCHANGED <<crVars, fails>>

(* Soft delete; then the CRD.                                              *)
DeleteFunction(r) ==
    /\ At(r, "idle")
    /\ Active
    /\ row' = [row EXCEPT !.status = "deleted"]
    /\ Continue(r, "delete", row')
    /\ UNCHANGED <<crVars, fails>>

(* GetFunction; ListFunctions does the same for pending and building rows. *)
GetFunction(r) ==
    /\ At(r, "idle")
    /\ Active
    /\ Continue(r, "status", row)
    /\ UNCHANGED <<crVars, row, fails>>

-----------------------------------------------------------------------------
(* syncBuildStatus.                                                        *)

mapPhaseToStatus(phase) ==
    CASE phase = "Building" -> "building"
      [] phase = "Ready" -> "ready"
      [] phase = "Failed" -> "failed"
      [] OTHER -> ""

(* Mutants: an empty phase is mapped too; no self-healing; a row that is   *)
(* ready or failed is not synced any more.                                 *)
GetStatusAnyPhase(r) ==
    LET old == reqs[r].row
        new == [old EXCEPT !.status = mapPhaseToStatus(cr.phase),
                           !.image = cr.image]
    IN  /\ At(r, "status")
        /\ IF ~Exists(cr) THEN Continue(r, "lookup", old)
           ELSE IF new = old THEN Finish(r)
           ELSE Continue(r, "sync", new)
        /\ UNCHANGED <<crVars, row, fails>>
GetStatusOnly(r) ==
    LET old == reqs[r].row
        new == [old EXCEPT !.status = mapPhaseToStatus(cr.phase),
                           !.image = cr.image]
    IN  /\ At(r, "status")
        /\ IF ~Exists(cr) \/ cr.phase = "None" \/ new = old THEN Finish(r)
           ELSE Continue(r, "sync", new)
        /\ UNCHANGED <<crVars, row, fails>>
GetStatusOfUnfinished(r) ==
    LET old == reqs[r].row
        new == [old EXCEPT !.status = mapPhaseToStatus(cr.phase),
                           !.image = cr.image]
    IN  /\ At(r, "status")
        /\ IF ~Exists(cr) THEN Continue(r, "lookup", old)
           ELSE IF cr.phase = "None" \/ old.status \in {"ready", "failed"}
           THEN Finish(r)
           ELSE Continue(r, "sync", new)
        /\ UNCHANGED <<crVars, row, fails>>

GetStatus(r) ==
    LET old == reqs[r].row
        new == [old EXCEPT !.status = mapPhaseToStatus(cr.phase),
                           !.image = cr.image]
    IN  /\ At(r, "status")
        /\ CASE ~Exists(cr) -> Continue(r, "lookup", old)     \* self-healing
             [] Exists(cr) /\ (cr.phase = "None" \/ new = old) -> Finish(r)
             [] OTHER -> Continue(r, "sync", new)
        /\ UNCHANGED <<crVars, row, fails>>

(* Mutants: without the WHERE; without the image.                          *)
SyncStatusAlways(r) ==
    /\ At(r, "sync")
    /\ row' = [row EXCEPT !.status = reqs[r].row.status,
                          !.image = reqs[r].row.image]
    /\ Finish(r)
    /\ UNCHANGED <<crVars, fails>>
SyncStatusOnly(r) ==
    /\ At(r, "sync")
    /\ row' = IF row.status = "deleted" THEN row
              ELSE [row EXCEPT !.status = reqs[r].row.status]
    /\ Finish(r)
    /\ UNCHANGED <<crVars, fails>>

(* UPDATE ... WHERE status != 'deleted'                                    *)
SyncStatus(r) ==
    /\ At(r, "sync")
    /\ row' = IF row.status = "deleted" THEN row
              ELSE [row EXCEPT !.status = reqs[r].row.status,
                               !.image = reqs[r].row.image]
    /\ Finish(r)
    /\ UNCHANGED <<crVars, fails>>

-----------------------------------------------------------------------------
(* applyCRD: CreateOrUpdate, a Get and then a Create or an Update.         *)

LookupCR(r) ==
    /\ At(r, "lookup")
    /\ reqs' = [reqs EXCEPT ![r].pc = "apply", ![r].crd = cr]
    /\ UNCHANGED <<crVars, row, fails>>

(* A Conflict or AlreadyExists is logged, and so is a failure at the       *)
(* bounds MaxUid and MaxGen, where a write counts as failed.               *)
ApplyCR(r) ==
    LET old == reqs[r].crd  s == reqs[r].row.spec
    IN  /\ At(r, "apply")
        /\ CASE Exists(old) /\ cr = old /\ CanReplace(old, s) -> ApiUpdate(old, s)
             [] ~Exists(old) /\ ~Exists(cr) /\ uids < MaxUid -> ApiCreate(s)
             [] OTHER -> UNCHANGED crVars
        /\ Finish(r)
        /\ UNCHANGED <<row, fails>>

DeleteCR(r) ==
    /\ At(r, "delete")
    /\ IF Exists(cr) THEN ApiDelete ELSE UNCHANGED crVars
    /\ Finish(r)
    /\ UNCHANGED <<row, fails>>

(* A call fails and is logged, or the service restarts: the request ends.  *)
Fail(r) ==
    /\ ~At(r, "idle")
    /\ fails < MaxFails
    /\ fails' = fails + 1
    /\ Finish(r)
    /\ UNCHANGED <<crVars, row>>

Step(r) == \/ UpdateWrite(r) \/ GetStatus(r) \/ SyncStatus(r)
           \/ LookupCR(r) \/ ApplyCR(r) \/ DeleteCR(r)

Request(r) == \/ \E s \in Specs : CreateFunction(r, s)
              \/ \E f \in Fields, v \in Values : UpdateRead(r, f, v)
              \/ DeleteFunction(r) \/ GetFunction(r)

Contract == INSTANCE FunctionContract
Controller == Contract!Controller /\ UNCHANGED serviceVars

Next == Controller \/ \E r \in Reqs : Request(r) \/ Step(r) \/ Fail(r)
Spec == Init /\ [][Next]_vars

(* Requests in flight are served, and the dashboard, which polls functions *)
(* for their status, keeps calling GetFunction.                            *)
FairSpec == /\ Spec
            /\ \A r \in Reqs : WF_vars(Step(r)) /\ SF_vars(GetFunction(r))

-----------------------------------------------------------------------------
(* Properties.                                                             *)

TypeOK == /\ cr \in CRs /\ uids \in 0..MaxUid
          /\ row \in Rows
          /\ reqs \in [Reqs -> ReqRecs]
          /\ fails \in 0..MaxFails

Quiet == \A r \in Reqs : At(r, "idle")

(* A deleted row is never touched again: updates and status syncs that     *)
(* read it while it was active must not bring it back.                     *)
DeletedForGood == [][row.status = "deleted" => row' = row]_vars

(* The status and the image of the row come from one read of the object,   *)
(* so a row is never "ready" without an image, however the syncs of        *)
(* concurrent requests interleave with builds and updates.                 *)
ReadyRowHasImage == row.status = "ready" => row.image # 0

(* With no request in flight, the object carries the spec of the row, so   *)
(* that "the rebuild the change calls for runs" (function.proto on         *)
(* UpdateFunction).                                                        *)
SpecPropagated == (Quiet /\ Active) => (Live(cr) /\ cr.spec = row.spec)

(* With no request in flight, a deleted function has no live object: the   *)
(* dashboard promises that it is permanently deleted with its triggers.    *)
NoZombie == (Quiet /\ row.status = "deleted") => ~Live(cr)

(* UpdateFunction changes the given field only: an omitted field means "no *)
(* change" (function.proto).                                               *)
OneFieldPerUpdate ==
    [][Active => \A f, g \in Fields :
         (row'.spec[f] # row.spec[f] /\ row'.spec[g] # row.spec[g]) => f = g]_vars

(* "next GetFunction will self-heal": a function whose object could not be *)
(* created gets one.                                                       *)
SelfHeals == Active ~> (Exists(cr) \/ ~Active)

(* Once the object's status no longer changes, polling brings it to the    *)
(* row and it stays there, although syncs may write what they read long    *)
(* before.                                                                 *)
StatusConverges ==
    \A i \in 1..MaxGen :
        <>[](Active /\ cr.phase = "Ready" /\ cr.image = i)
            => <>[](row.status = "ready" /\ row.image = i)
=============================================================================

--------------------------- MODULE FunctionContract ---------------------------
(***************************************************************************)
(* What the Function controller promises about the object it manages, with *)
(* its worker, caches, Jobs and cluster left out: which transitions of the *)
(* custom resource the rest of the platform can ever observe.              *)
(* FunctionOperator is shown to implement it, and FunctionService is       *)
(* composed with it instead of with the whole operator.                    *)
(***************************************************************************)
EXTENDS FunctionCR

(* A status is written only on a live object that carries the finalizer.   *)
Owned == Live(cr) /\ cr.fin

AddFinalizer == /\ Live(cr) /\ ~cr.fin
                /\ cr' = [cr EXCEPT !.fin = TRUE]

ReportBuilding == Owned /\ cr.obs < cr.gen /\ cr' = WithBuilding(cr)
ReportBuilt == Owned /\ cr.obs < cr.gen /\ cr' = WithBuilt(cr)
ReportBuildFailed == Owned /\ cr.obs < cr.gen /\ cr' = WithBuildFailed(cr)
ReportFailed == Owned /\ cr' = WithFailed(cr)
ReportReady == /\ Owned
               /\ cr.obs = cr.gen /\ cr.build = "Succeeded"
               /\ cr' = WithReady(cr)
Release == cr.deleting /\ cr' = NoCR

Controller ==
    /\ \/ AddFinalizer \/ ReportBuilding \/ ReportBuilt \/ ReportBuildFailed
       \/ ReportFailed \/ ReportReady \/ Release
    /\ UNCHANGED uids

Client == (\E s \in Specs : ApiCreate(s) \/ ApiUpdate(cr, s)) \/ ApiDelete

Init == cr = NoCR /\ uids = 0
Next == Controller \/ Client
Spec == Init /\ [][Next]_crVars
=============================================================================
